CONSTANT N <- MCTwo
SPECIFICATION Spec
INVARIANT StoppedIsIgnored
CHECK_DEADLOCK FALSE
