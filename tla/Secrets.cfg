SPECIFICATION Spec
CONSTANTS
    j1 = j1
    j2 = j2
    c1 = c1
    c2 = c2
    Job <- Jobs
    Caller <- Callers
    MaxRetries = 1
    MaxJobs = 2
    MaxWrites = 1
    MaxRefreshes = 2
    MaxFailures = 1
SYMMETRY Symmetry
INVARIANTS
    MarksTellTheFormat
    NothingLegacyAfterwards
    StoredTokenLives
    RecordNamesTheKey
PROPERTIES
    NothingGoesBack
CHECK_DEADLOCK FALSE
