CONSTANTS
    Master = Master
    Slave = Slave
    NoSignal = NoSignal
    NoSetting = NoSetting
    SettingsSpace <- UsedSettings
    MasterSignals <- DriverSignals
    SlaveNames <- SolverNames
    MaxSignals = 3
    MaxDataCalls = 1
SPECIFICATION Spec
CHECK_DEADLOCK FALSE
INVARIANTS
    TypeOK
    DispatchOrder
PROPERTIES
    SessionEnds
