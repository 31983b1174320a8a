SPECIFICATION FairSpec
CONSTANTS
    None = None
    p1 = p1
    p2 = p2
    a1 = a1
    a2 = a2
    r0 = r0
    r1 = r1
    r2 = r2
    DefaultApp = a1
    NoProfiles = r0
    Proc = {p1}
    App = {a1, a2}
    Prof = {r0, r1}
    UserDocs <- MCUserDocs
    MaxRev = 2
    MaxInc = 2
    MaxFaults = 2
    MaxEdits = 2
INVARIANTS
    SaveOutcomeTruthful
    JournalResolvable
    OriginalsRetained
PROPERTIES
    ImplementsRegister
    DataRespected
    RecoverySettles
CHECK_DEADLOCK FALSE
