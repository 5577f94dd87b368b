CONSTANTS
    Configs = {c1, c2}
    Absent = Absent
    Corrupt = Corrupt
    NoConfig = NoConfig
    FaultSteps <- AllFaults
    MaxUnsynced = 8
SYMMETRY ConfigSymmetry
SPECIFICATION Spec
INVARIANTS
    AlwaysBootable
