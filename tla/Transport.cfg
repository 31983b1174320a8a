SPECIFICATION TransportSpec
CONSTANTS
    MaxBytes = 3
    ReadSize = 2
    MaxBuffered = 2
    MaxChanges = 2
    Requests = {r1, r2}
    PoolSize = 1
    HeaderLimit = 3
    BodyLimit = 1
    MaxPieces = 2
INVARIANTS
    LeaseExact
PROPERTIES
    OutcomeTruthful
    RequestsEnd
    ProxyFollowed
CHECK_DEADLOCK FALSE
