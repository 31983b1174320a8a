SPECIFICATION FairSpec
CONSTANTS
    None = None
    Other = Other
    c1 = c1
    c2 = c2
    h1 = h1
    h2 = h2
    Conn = {c1, c2}
    Handle = {h1, h2}
    WorkerLimit = 1
    Prewarm = 1
    Limits = {1}
    Capacity = 2
    MaxReloads = 0
    MaxOther = 0
PROPERTY StopAlwaysCompletes
CHECK_DEADLOCK FALSE
