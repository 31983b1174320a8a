SPECIFICATION Spec
CONSTANTS
    None = None
    Config <- ThreeConfigs
    Capacity = 2
    MaxCommands = 2
INVARIANTS
    StatusTruthful
    ShutdownFinal
PROPERTIES
    FailureKeepsConfiguration
CHECK_DEADLOCK FALSE
