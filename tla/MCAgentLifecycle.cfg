CONSTANTS
    MaxPIDs <- MCMaxPIDs
    MaxIterations <- MCMaxIterations
    MaxFailures <- MCMaxFailures
    Durations <- MCDurations
    CleanUpUsesJob = TRUE
SPECIFICATION FairSpec
INVARIANTS
    IInv
    AnnouncedFilesStay
    EndedHasEveryIteration
    GraceExitIsClean
    PanicLosesNothing
PROPERTIES
    EventStreamCloses
    SigTermInGraceIsClean
    SigTermEnds
    EndingEnds
CHECK_DEADLOCK FALSE
