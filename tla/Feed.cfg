SPECIFICATION StreamSpec
CONSTANTS
    CardId <- Cards
    SynthesisId <- Answers
    Writer <- Writers
    Scripts <- Lines
    MaxEventId = 3
    MaxFailures = 1
    AppliedCap = 1
    PollLimit = 1
    SeedDegrades = FALSE
PROPERTIES
    FeedSpec
CHECK_DEADLOCK FALSE
