SPECIFICATION Spec
CONSTANTS
    None = None
    p1 = p1
    p2 = p2
    a1 = a1
    a2 = a2
    r0 = r0
    r1 = r1
    r2 = r2
    DefaultApp = a1
    NoProfiles = r0
    Proc = {p1}
    App = {a1}
    Prof = {r0}
    UserDocs <- MCUserDocsV3
    MaxRev = 1
    MaxInc = 1
    MaxFaults = 1
    MaxEdits = 0
INVARIANT FreshStartRecoverable
CHECK_DEADLOCK FALSE
