SPECIFICATION Spec
CONSTANTS
    m1 = m1
    m2 = m2
    u1 = u1
    u2 = u2
    u3 = u3
    t1 = t1
    t2 = t2
    Meeting <- MCMeeting
    Utterance <- MCUtterance
    Topic <- MCTopic
    MeetingOf <- MCMeetingOf
    TopicOf <- MCTopicOf
    NoHits <- MCNoHits
    Section = {s1, s2}
    Actor = {a1}
    Retries = 1
    Limits <- MCLimits
INVARIANTS
    GapsCountTheirAsks
    ProcessedIsCounted
    CurationStands
PROPERTIES
    NoSpuriousReopen
    MissesSettle
CHECK_DEADLOCK FALSE
