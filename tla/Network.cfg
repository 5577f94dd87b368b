SPECIFICATION FairSpec
CONSTANTS
    WifiDelays <- ImmediateThenOne
    MqttDelays <- ImmediateThenOne
    Window = 2
    MaxOps = 2
    OpTime = 2
    Work = 1
    PublishDelay = 1
    SettleTime = 2
    UtcWait = 2
    UtcPause = 1
    UtcAttempts = 2
    PingPasses = 2
    StaleTimeout = 4
    WdtTimeout = 4
    AutoRejoin = TRUE
    None = None
INVARIANTS NoSpuriousReset DeadWorkerNoticed ReadyVerified SnapshotsHonest
PROPERTY Recovers
