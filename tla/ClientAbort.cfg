SPECIFICATION Spec
CONSTANTS
    None = None
    Other = Other
    c1 = c1
    c2 = c2
    h1 = h1
    h2 = h2
    Conn = {c1, c2}
    Handle = {h1, h2}
    WorkerLimit = 2
    Prewarm = 1
    Limits = {1, 2}
    Capacity = 2
    MaxReloads = 1
    MaxOther = 1
PROPERTY DisconnectsStayLocal
CHECK_DEADLOCK FALSE
