SPECIFICATION Spec
CONSTANTS
    Plan <- MCPlan
    Baseline = "baseline"
    MuleAccounts = {1, 2, 3}
    KnownMules = {2}
    Others = {4, 5, 6}
    Ring <- MCRing
    NoRing = NoRing
    Rejectable = {3, 5}
    Limit = 1
    Models <- MCModels
    Clip = 3
    Commits = {1, 2}
    Generators <- MCGenerators
    Negatives = 2
    BudgetShare = 1
    Budgets = {1}
CHECK_DEADLOCK FALSE
INVARIANTS PairedFairly RankingsDecide
