CONSTANTS
    k1 = k1
    k2 = k2
    k3 = k3
    Contexts = {k1, k2}
    Fetches = {f1, f2}
    Workers = {w1, w2}
    Calls <- AllRequests
    KeyLists <- NestedLists
    NoCall = NoCall
    NoFetch = NoFetch
    Stop = Stop
    Capacity = 1
    BatchSize = 2
    HasDisk = TRUE
    DiskLoses = TRUE
    Outcomes = {"finished", "failed"}
    MayClose = TRUE
SPECIFICATION Spec
INVARIANTS NoRequestAfterClose
PROPERTIES CloseReturns EveryFetchEnds ImplementsSharedReads
CHECK_DEADLOCK FALSE
