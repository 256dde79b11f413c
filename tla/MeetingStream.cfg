SPECIFICATION StreamSpec
CONSTANTS
    CardId <- Cards
    SynthesisId <- Answers
    Writer <- Writers
    Scripts <- MixedScripts
    MaxEventId = 4
    MaxFailures = 1
    AppliedCap = 3
    PollLimit = 2
    SeedDegrades = TRUE
INVARIANTS
    FinishedAnswersWhole
    RetractedProseGoes
PROPERTIES
    FinishedAnswersStand
CHECK_DEADLOCK FALSE
