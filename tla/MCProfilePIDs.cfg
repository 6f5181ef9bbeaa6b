CONSTANT MaxPIDs <- MCMaxPIDs
SPECIFICATION FairSpec
INVARIANTS
    IInv
    VerdictSound
    NoticeNamesSkipped
PROPERTIES
    NothingAfterReturn
    Termination
    ImplementsOutcome
CHECK_DEADLOCK FALSE
