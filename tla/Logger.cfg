CONSTANTS
    t1 = t1
    t2 = t2
    Thread = {t1, t2}
    Sizes = {1, 3}
    Capacity = 2
    Totals = {1, 4}
    Segments = 2
    SegmentCap = 2
    MaxRecords = 3
    MaxOpens = 2
    MaxFaults = 1
SPECIFICATION Spec
INVARIANTS
    AcknowledgedDurable
    RetentionOrdered
    StorageBounded
    NoSilentLoss
PROPERTY CallsReturn
CHECK_DEADLOCK FALSE
