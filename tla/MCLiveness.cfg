\* Every function of three blocks whose bodies copy two variables around.
CONSTANTS
    Blocks_ = 3
    x = x
    y = y
    Block <- Ids
    Access <- Accesses_
    Programs <- Functions_
    Storage = {x, y}
    None = None
SPECIFICATION LVFairSpec
INVARIANTS LeastFacts RemovalInvisible
PROPERTY LVTerminates
CHECK_DEADLOCK FALSE
