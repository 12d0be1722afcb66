CONSTANTS
    Epochs = 3
    Steps = 2
    Batch = 2
    SplitRoots = 3
    Patience = 1
    Values = {0, 1, 2}
    Rejections <- Many
    Givens <- SomeGivens
    Limits = {0, 100}
    LogEvery = {1, 2}
    SaveEvery = {0, 1}
    MaxCrashes = 1
    Tears = {"row"}
SPECIFICATION Spec
INVARIANTS ResumesExactly HistoryTiles CompleteRun
PROPERTIES RunCompletes
CHECK_DEADLOCK FALSE
