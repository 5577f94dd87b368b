\* A refused list starts nothing: the run stops there.
CONSTANTS
    Absent = Absent
    Null = Null
    MaxDevices = 2
    DevicesConfig <- MCDevices
    Attempts = 2
    Threshold = 2
    Lists <- MCLists
SPECIFICATION Spec
INVARIANTS
    WorkerSurvives
    NothingShared
    SampleSound
    ProbeOff
    ChipAnswers
CHECK_DEADLOCK FALSE
