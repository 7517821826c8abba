\* Two builds of the same two sources.
CONSTANTS
    Builds = {b1, b2}
    Names <- MCPlainNames
    Batches <- MCSameBatch
    Fold <- MCFold
    Entry <- MCEntry
    NonAscii = {}
    MaxAttempts = 2
    Leftovers = {{}}
SPECIFICATION PASpec
INVARIANT RollbackErasesOwnOutput
CHECK_DEADLOCK FALSE
