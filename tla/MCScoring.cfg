SPECIFICATION Spec
CONSTANTS
    Items = 3
    Calls <- MCCalls
    Workers = {w1, w2}
    NoCall = NoCall
    Stop = Stop
    Ids <- MCIds
    BatchSize = 2
    Rejectable = {"a", "b"}
    Mules = {"a"}
    Limit = 1
    Plans <- MCPlans
    Runs = {"none", "other", "stopped", "complete"}
    Named <- MCNamed
CHECK_DEADLOCK FALSE
INVARIANTS ScoresComplete FilesOfOneAudit StudyTrue
PROPERTY CommandEnds
