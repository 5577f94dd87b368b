CONSTANTS
    Commands <- MCCommands
    MaxPending = 1
    RecentCapacity = 2
    Paced = TRUE
    MaxDeliveries = 3
    MaxFails = 1
    MaxTelemetry = 1
    None = None
SPECIFICATION FairSpec
INVARIANTS
    AnswerOwed
    AnswerIdentity
    ResetAcknowledged
    HeldRebootReleasable
    DebounceWindow
PROPERTIES
    AnsweredEventually
CHECK_DEADLOCK FALSE
