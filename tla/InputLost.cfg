CONSTANTS
    Ids = {"a", "b", "c"}
    Protocols = {"openai"}
    Paths = {"/x", "/y"}
    RuleIds = {"r"}
    Options = {"o", LongOption}
    NoOption = NoOption
    LongOption = LongOption
    MaxThreads = 2
    MaxRules = 2
    Unset = Unset
    Garbled = Garbled
    Refused = Refused
    Stored <- MCStored
    CliCommands <- MCCli
    Typed <- MCNoText
    Edits <- MCRename
    Budgets <- MCResend
SPECIFICATION Spec
CHECK_DEADLOCK FALSE
INVARIANT FailedSaveKeepsInput
