CONSTANTS
    Period = 66
    PublishDelay = 2
    PollInterval = 1
    SyncInterval = 3
    RetryDelay = 2
    PromptDelay = 1
    Timeout = 1
    MaxPass = 1
    MaxWait = 1
    MinQuiet = 3
    MaxQuiet = 4
    MaxOutage = 3
    MaxFails = 1
    MaxAge = 4
    None = None
SPECIFICATION Spec
INVARIANTS
    TimeExact
    TimersSound
