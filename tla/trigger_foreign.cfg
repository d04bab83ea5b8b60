SPECIFICATION TriggerSpec
CONSTANTS
    lamp = lamp
    remote = remote
    power = power
    on = on
    Nothing = Nothing
    Devices = {lamp, remote}
    Items = {power}
    Settings = {on}
    Sources <- MCSources
    MaxSources = 2
    MaxTokens = 3
INVARIANT OwnCommands
CHECK_DEADLOCK FALSE
