SPECIFICATION FairSpec
CONSTANTS
    None = None
    Config <- TwoConfigs
    Capacity = 2
    MaxCommands = 1
PROPERTIES
    CommandAnswered
    EndNoticed
    ExitCompletes
CHECK_DEADLOCK FALSE
