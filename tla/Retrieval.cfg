SPECIFICATION Spec
CONSTANTS
    Message = {m1, m2, m3}
    Text <- Texts
    Question <- Questions
    FollowUp <- FollowUps
    Topic <- Topics
    Near <- NearQueries
    Related <- RelatedQueries
    Doc = {d1}
    Cooldown = 2
    RateWindow = 1
    MaxPerMin = 1
    MaxPerMeeting = 2
    DupWindow = 2
    WindowUtterances = 2
    ConsumedCap = 3
    Threshold = 1
    MaxClock = 3
    MaxFailures = 1
SYMMETRY MessageSymmetry
INVARIANTS
    AmbientSpacing
    QuestionCeilingsHold
    NoLateRepeat
CHECK_DEADLOCK FALSE
