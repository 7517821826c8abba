\* Every function of three blocks, and functions of four with irreducible loops, over a
\* declared and an undeclared variable, which is named as initialized; the analysis is a thread that runs.
CONSTANTS
    x = x
    u = u
    Block <- Ids
    Access <- Accesses_
    Programs <- Functions_
    Storage = {x, u}
    Declared = {x}
    InitiallyInitialized = {u}
    None = None
SPECIFICATION DIFairSpec
INVARIANTS FactsExact UninitializedReadsReported
PROPERTY DITerminates
CHECK_DEADLOCK FALSE
