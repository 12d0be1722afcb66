CONSTANTS
    k1 = k1
    k2 = k2
    k3 = k3
    Contexts = {k1, k2}
    Fetches = {f1, f2}
    Workers = {w1}
    Calls <- AllRequests
    KeyLists <- CrossedLists
    NoCall = NoCall
    NoFetch = NoFetch
    Stop = Stop
    Capacity = 1
    BatchSize = 1
    HasDisk = FALSE
    DiskLoses = FALSE
    Outcomes = {"finished"}
    MayClose = TRUE
SPECIFICATION Spec
PROPERTIES FetchEndsAfterClose
CHECK_DEADLOCK FALSE
