CONSTANTS
    Accounts <- MCAccounts
    Partition <- MCPartition
    Day = 2
    Never = 99
    Graphs <- MCGraphs
    Dates <- MCDates
    Ranks <- MCRanks
    SeedLimit <- MCSeedLimit
    BatchSize = 3
    MaxSteps = 2
    ProxyLimit = 1
    Scores = {1, 2}
    Negatives = 1
    BudgetShare = 4
    Budgets = {1, 2, 3}
SPECIFICATION Spec
INVARIANTS LabelsFromThePast FutureLabelsUnseen HiddenPopulation RanksAsDefined
CHECK_DEADLOCK FALSE
