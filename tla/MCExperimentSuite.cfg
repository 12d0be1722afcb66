CONSTANTS
    Variants <- ThreeVariants
    Seeds <- OneSeed
    Settings = 2
    Datasets = 2
    MaxChanges = 2
    MaxFaults = 1
SPECIFICATION Spec
INVARIANTS TablesOfPlan AuditsOfModel
PROPERTIES ResultsKept SuiteConverges
CHECK_DEADLOCK FALSE
