SPECIFICATION Spec
CONSTANTS
    CardId = {}
    SynthesisId <- Answer1
    Writer <- Answer1
    Scripts <- NoScript
    Sources <- NoSources
    MaxChunks = 2
    MaxEventId = 4
    MaxFailures = 1
    AppliedCap = 2
    PollLimit = 2
    SeedDegrades = TRUE
INVARIANTS
    GroundedOrNothing
    ReportedIsNoGap
PROPERTIES
    StreamedAnswersEnd
CHECK_DEADLOCK FALSE
