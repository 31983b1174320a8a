SPECIFICATION Spec
CONSTANTS
    None = None
    p1 = p1
    p2 = p2
    a1 = a1
    a2 = a2
    r0 = r0
    r1 = r1
    r2 = r2
    DefaultApp = a1
    NoProfiles = r0
    Proc = {p1}
    App = {a1}
    Prof = {r0, r1}
    UserDocs <- MCUserDocs
    MaxRev = 1
    MaxInc = 2
    MaxFaults = 1
    MaxEdits = 2
PROPERTY ForeignConfigKept
CHECK_DEADLOCK FALSE
