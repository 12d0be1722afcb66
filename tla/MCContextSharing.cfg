CONSTANTS
    k1 = k1
    k2 = k2
    k3 = k3
    Contexts = {k1, k2, k3}
    Fetches = {f1, f2, f3}
    Workers = {w1, w2}
    Calls <- AllRequests
    KeyLists <- ChurningLists
    NoCall = NoCall
    NoFetch = NoFetch
    Stop = Stop
    Capacity = 1
    BatchSize = 1
    HasDisk = TRUE
    DiskLoses = FALSE
    Outcomes = {"finished", "failed"}
    MayClose = FALSE
SPECIFICATION Spec
INVARIANTS ClaimTable SingleFlight ReturnsEveryRow OneRequestEach CountsAgree
SYMMETRY Symmetry
CHECK_DEADLOCK FALSE
