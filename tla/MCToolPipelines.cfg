CONSTANTS
    Suffixes <- MCSuffixes
    MaxLines <- MCMaxLines
SPECIFICATION Spec
INVARIANTS
    IInv
    AnnouncedIsWhole
    DrawnFromStacks
    AnnouncesOwnRun
    LibraryFits
    CleanUpRemovesAll
PROPERTY ImplementsWorker
CHECK_DEADLOCK FALSE
