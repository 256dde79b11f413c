SPECIFICATION Spec
CONSTANTS
    t1 = t1
    t2 = t2
    a1 = a1
    a2 = a2
    s1 = s1
    s2 = s2
    Team <- Teams
    NumDocs = 2
    Admin <- Admins
    Slot <- Slots
    RunawayMin = 1
    MaxRetries = 1
    MaxChanges = 1
    MaxOps = 2
    MaxFailures = 1
SYMMETRY Alike
INVARIANTS
    TombstoneStands
    SelectionDecides
    UnsettledIsServed
    CalmRunConverges
PROPERTIES
    PurgeSparesSelected
CHECK_DEADLOCK FALSE
