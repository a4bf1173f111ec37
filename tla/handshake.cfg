CONSTANTS
    pa = pa
    pb = pb
    Peers = {pa, pb}
    Names = {1, 2}
    NoSetting = NoSetting
    SettingsSpace <- ComplementarySettings
    MaxSessions = 2
    MaxRuns = 1
    MaxKills = 0
    RemoveTries = 5
    MaxLockedRemoves = 4
SPECIFICATION Spec
CHECK_DEADLOCK FALSE
INVARIANTS
    TypeOK
    CompatibilityGate
    NoLeftovers
PROPERTIES
    SameOutcome
    SyncExchangeRefinesBarrier
    CompatiblePeersConnect
