CONSTANTS
    alice = alice
    spec = spec
    plan = plan
    p1 = p1
    p2 = p2
    Speaker = {alice}
    Drift <- MCDrift
    MaxPartials = 2
    Doc = {spec, plan}
    Run = {p1, p2}
    Actor = {p1}
    Limits <- MCLimits
SPECIFICATION Spec
INVARIANTS
    LinesSettle
    OneLivePerDoc
    PinnedStands
CHECK_DEADLOCK FALSE
