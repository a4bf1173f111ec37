CONSTANTS
    pa = pa
    pb = pb
    Peers = {pa, pb}
    Names = {1, 2}
    NoSetting = NoSetting
    SettingsSpace <- NoFolderSettings
    MaxSessions = 1
    MaxRuns = 2
    MaxKills = 2
    RemoveTries = 5
    MaxLockedRemoves = 0
SPECIFICATION Spec
CHECK_DEADLOCK FALSE
INVARIANTS
    CompatibilityGate
