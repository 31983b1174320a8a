SPECIFICATION Spec
CONSTANTS
    None = None
    p1 = p1
    p2 = p2
    a1 = a1
    a2 = a2
    r0 = r0
    r1 = r1
    r2 = r2
    DefaultApp = a1
    NoProfiles = r0
    Proc = {p1, p2}
    App = {a1}
    Prof = {r0, r1, r2}
    UserDocs <- MCUserDocsV2
    MaxRev = 3
    MaxInc = 2
    MaxFaults = 0
    MaxEdits = 1
INVARIANT StaleAlwaysDetected
SYMMETRY Symmetry
CHECK_DEADLOCK FALSE
