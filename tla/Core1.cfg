CONSTANTS
    DevicesConfig <- MCDevices
    Attempts = 2
    Threshold = 2
    ReadInterval = 3
    HealthInterval = 4
    RetryInterval = 2
    ActivityInterval = 2
    StaleTimeout = 6
    RetryDelay = 1
    MaxCall = 1
    MaxWork = 1
SPECIFICATION FairSpec
INVARIANTS
    HeartbeatFresh
    DeviceRecordSound
    OnGrid
PROPERTIES
    NotReplayed
    DevicesRecover
