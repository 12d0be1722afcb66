CONSTANTS
    query = query
    write = write
    Block <- ThreeKeys
    Others <- QueryThenWrite
    Ops <- Calls
    NoCap = NoCap
    Attempts <- Caps
    TimeoutRetries <- Retries
    MaxAttempts = 2
    MaxOutage = 3
    SlowAttempt = 1
    BaseDelay = 1
    MaxDelay = 2
    HangLimit = 1
SPECIFICATION QuerySpec
INVARIANTS PausesBounded OutageBounded BudgetsKept RowsInOrder
PROPERTIES RequestEnds
CHECK_DEADLOCK FALSE
