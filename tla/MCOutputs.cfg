\* Two builds, in turn or at once, of names that fold or collide; or three compile
\* commands, two at a time, over one name in one directory.
CONSTANTS
    Builds = {b1, b2}
    Names <- MCNames
    Batches <- MCBatches
    Fold <- MCFold
    Entry <- MCEntry
    NonAscii <- MCNonAscii
    MaxAttempts = 2
    Leftovers <- MCLeftovers
    Invocations = 3
    AtOnce = 2
    Faults = 1
    MaximumCount = 8
    Sources <- MCSources
    Texts <- MCTexts
    Requests <- MCRequests
    SourceResult <- FromSource
    FileResult <- Consume
    Document <- Encode
SPECIFICATION OutputsSpec
SYMMETRY MCSymmetry
INVARIANTS FailureRestores CommittedWhole OriginalsRecoverable BackupsKept StagingReleased
INVARIANTS AcceptsWhatWasWritten ExecutableOfThisBuild LeavesOnlyItsOutput
CHECK_DEADLOCK FALSE
