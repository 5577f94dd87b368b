CONSTANTS
    Configs = {c1, c2, c3}
    Absent = Absent
    Corrupt = Corrupt
    NoConfig = NoConfig
    FaultSteps <- CleanupFaults
    MaxUnsynced = 8
SPECIFICATION Spec
INVARIANTS
    CommittedConfigKept
