SPECIFICATION StreamSpec
CONSTANTS
    CardId <- Cards
    SynthesisId <- Answers
    Writer <- Writers
    Scripts <- OneAnswer
    MaxEventId = 2
    MaxFailures = 0
    AppliedCap = 2
    PollLimit = 2
    SeedDegrades = FALSE
INVARIANTS
    MissedBroadcastsRecovered
CHECK_DEADLOCK FALSE
