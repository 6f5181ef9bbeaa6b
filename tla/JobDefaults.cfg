CONSTANTS
    DurationArgs <- MCDurations
    CommandLines <- MCCommandLines
SPECIFICATION Spec
INVARIANT DefaultsAreDocumented
CHECK_DEADLOCK FALSE
