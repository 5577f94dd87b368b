SPECIFICATION Spec
CONSTANTS
    MaxPid = 3
    MaxMessages = 3
    MaxInbound = 3
    MaxSessions = 3
    MaxPings = 2
INVARIANTS StreamInSync BoundedWaits AckedAfterCallback
PROPERTY ImplementsLink
CHECK_DEADLOCK FALSE
