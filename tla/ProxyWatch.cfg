SPECIFICATION ProxySpec
CONSTANT MaxChanges = 2
PROPERTY SettingsPublished
CHECK_DEADLOCK FALSE
