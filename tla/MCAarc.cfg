CONSTANTS
    Threads = {t1, t2, t3}
    Objects = {o1, o2}
    Refs = {r1, r2, r3, r4}
    MaxCount = 3
    None = None
SPECIFICATION Spec
SYMMETRY Symmetry
INVARIANTS NoUseAfterFree StrongKeepsAlive CountsCoverOwners LiveAllocationsExact
PROPERTIES DestroyedOnce ImplementsContract
CHECK_DEADLOCK FALSE
