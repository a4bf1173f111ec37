CONSTANTS
    pa = pa
    pb = pb
    Peers = {pa, pb}
    Names = {1, 2}
    NoSetting = NoSetting
    SettingsSpace <- BothSecondarySettings
    MaxSessions = 1
    MaxRuns = 1
    MaxKills = 0
    RemoveTries = 5
    MaxLockedRemoves = 0
SPECIFICATION Spec
PROPERTIES
    ConnectReturns
CHECK_DEADLOCK FALSE
