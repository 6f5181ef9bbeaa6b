CONSTANTS
    DurationArgs <- MCDurations
    CommandLines <- MCCommandLines
SPECIFICATION Spec
INVARIANTS
    JobFitsTables
    JobCanRun
CHECK_DEADLOCK FALSE
