\* Functions of two blocks, one of which may jump back to the entry.
CONSTANTS
    Blocks_ = 2
    h = h
    Block <- Ids
    Access <- Actions_
    Programs <- Functions_
    Handle = {h}
    NoHandle = NoHandle
    HandleKind <- Kinds
    InitialHandles <- InitialKinds
SPECIFICATION OFSpec
INVARIANTS MisusesReported
CHECK_DEADLOCK FALSE
