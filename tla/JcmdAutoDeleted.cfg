CONSTANT N <- MCTwo
SPECIFICATION FairSpec
PROPERTY AutoDeleted
CHECK_DEADLOCK FALSE
