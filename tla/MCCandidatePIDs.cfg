CONSTANT MaxPID <- MCMaxPID
SPECIFICATION FairSpec
INVARIANTS
    IInv
    NoDuplicates
    CandidatesAreLeaves
PROPERTY WalkEndsAtLast
CHECK_DEADLOCK FALSE
