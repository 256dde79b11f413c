SPECIFICATION RecapSpec
CONSTANTS
    Ended <- OneEnded
    Click <- TwoClicks
    MaxRetries = 1
    MaxFailures = 2
INVARIANTS
    DoneHasRecap
    SkippedAreServed
PROPERTIES
    RecapSettles
CHECK_DEADLOCK FALSE
