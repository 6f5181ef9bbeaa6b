CONSTANTS
    Retries <- MCRetries
    Iterations <- MCIterations
    Full <- MCFull
SPECIFICATION FairSpec
INVARIANTS
    IInv
    PublishesOwnSnapshot
    PublishesWholeSnapshot
PROPERTY Returns
CHECK_DEADLOCK FALSE
