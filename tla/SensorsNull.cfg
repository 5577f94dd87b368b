\* A refused list starts nothing: the run stops there.
CONSTANTS
    Absent = Absent
    Null = Null
    MaxDevices = 2
    DevicesConfig <- MCDevices
    Attempts = 2
    Threshold = 2
    Lists <- NullLists
SPECIFICATION Spec
INVARIANTS
    WorkerSurvives
CHECK_DEADLOCK FALSE
