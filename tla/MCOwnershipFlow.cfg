\* Functions of three blocks; the entry or the last may jump back to the entry.
CONSTANTS
    Blocks_ = 3
    h = h
    Block <- Ids
    Access <- Actions_
    Programs <- Functions_
    Handle = {h}
    NoHandle = NoHandle
    HandleKind <- Kinds
    InitialHandles <- InitialKinds
SPECIFICATION OFSpec
INVARIANTS OwnershipFactsExact MisusesReportedUnlessReentered
CHECK_DEADLOCK FALSE
