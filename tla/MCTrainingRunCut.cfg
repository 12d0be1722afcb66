CONSTANTS
    Epochs = 2
    Steps = 3
    Batch = 2
    SplitRoots = 3
    Patience = 2
    Values = {0, 1, 2}
    Rejections <- Few
    Givens <- OwnGiven
    Limits = {0, 50}
    LogEvery = {1, 2}
    SaveEvery = {0, 1, 2}
    MaxCrashes = 1
    Tears = {"row", "header"}
SPECIFICATION Spec
PROPERTIES RunCompletes
CHECK_DEADLOCK FALSE
