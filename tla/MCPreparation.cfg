CONSTANTS
    fourier = fourier
    context = context
    reveal_query = reveal_query
    types_file = types_file
    s1 = s1
    Queries <- Repository
    CallPairs <- ContextCallsFourier
    Files <- RepositoryFiles
    UseTypes = {reveal_query}
    ScopeTypes = types_file
    Hashed = {fourier, context}
    Edits <- UpdatesOfOne
    Configs <- TwoReveals
    NoScope = NoScope
    NoLabels = NoLabels
    NoDataset = NoDataset
    Nothing = Nothing
    MaxFaults = 2
SPECIFICATION Spec
INVARIANTS InstalledLinks
PROPERTIES RunsOnWhatWasPrepared PartsReadOnce Resumes
CHECK_DEADLOCK FALSE
