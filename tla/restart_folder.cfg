CONSTANTS
    pa = pa
    pb = pb
    Peers = {pa, pb}
    Names = {1, 2}
    NoSetting = NoSetting
    SettingsSpace <- FolderSettings
    MaxSessions = 1
    MaxRuns = 2
    MaxKills = 2
    RemoveTries = 2
    MaxLockedRemoves = 2
SPECIFICATION Spec
CHECK_DEADLOCK FALSE
INVARIANTS
    CompatibilityGate
