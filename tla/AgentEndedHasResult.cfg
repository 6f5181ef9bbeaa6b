CONSTANTS
    MaxPIDs <- MCOnePID
    MaxIterations <- MCMaxIterations
    MaxFailures <- MCMaxFailures
    Durations <- MCDurations
    CleanUpUsesJob = FALSE
SPECIFICATION Spec
INVARIANT EndedHasResult
CHECK_DEADLOCK FALSE
