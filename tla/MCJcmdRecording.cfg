CONSTANT N <- MCTwo
SPECIFICATION FairSpec
INVARIANTS
    IInv
    SoleCleanUpIsFree
    PublishesWholeRecordings
    GraceExitStopsRecordings
PROPERTIES
    EndsWithoutSigTerm
    SigTermEndsAlone
CHECK_DEADLOCK FALSE
