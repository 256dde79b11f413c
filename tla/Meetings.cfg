SPECIFICATION Spec
CONSTANTS
    CalEvent <- Attendees
    Limits <- RaceOrTrouble
    MaxMeetings = 2
    MaxBots = 2
    WaitLimit = 1
    MaxDuration = 1
    Grace = 1
    Buffer = 0
    HardCap = 2
INVARIANTS
    OneBotPerMeeting
    JobsRequestedOnce
    CompletedIsProcessed
PROPERTIES
    ReaperSparesTheCall
    NoMeetingLivesForever
CHECK_DEADLOCK FALSE
