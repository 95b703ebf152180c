SPECIFICATION Spec
CONSTANTS
    CrashRestarts = 2
    MaxStarts = 2
    MaxBoots = 4
    MaxFaults = 2
INVARIANTS
    InitAlone
    NothingLeft
PROPERTIES
    StopEnds
    UnitRefined
