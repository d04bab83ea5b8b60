SPECIFICATION TriggerSpec
CONSTANTS
    lamp = lamp
    remote = remote
    power = power
    on = on
    Nothing = Nothing
    Devices = {lamp, remote}
    Items = {power}
    Settings = {on}
    Sources <- MCSources
    MaxSources = 3
    MaxTokens = 7
INVARIANTS EvaluatesAsRead MoreIsMore CommandsPass
CHECK_DEADLOCK FALSE
