SPECIFICATION Spec
CONSTANTS
    Chunk <- Chunks
    Code <- CodeChunks
    Doc <- Docs
    DocOf <- Docs_
    Place <- Places
    Corpora <- MCCorpora
    Inputs <- MCInputs
    Setups <- MCSetups
    StrongDistance = 1
    TextFloor = 3
    CodeFloor = 5
    Far = 10
    CandidateLimit = 2
    RerankPool = 3
    TopK = 2
    RrfK = 60
    Scale = 238266
INVARIANTS
    GapsAreRealMisses
    NothingIsLost
    CitationsNameTheirSource
PROPERTIES
    RunsEnd
CHECK_DEADLOCK FALSE
