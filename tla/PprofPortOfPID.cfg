CONSTANTS
    Suffixes <- MCSuffixes
    MaxLines <- MCMaxLines
SPECIFICATION Spec
INVARIANT ScrapesPortOfPID
CHECK_DEADLOCK FALSE
