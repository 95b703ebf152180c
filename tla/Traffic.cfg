\* Two bytes, three boots, two operations and one failure or restart over two months.
SPECIFICATION TrafficSpec
CONSTANTS
    DayLength = 2
    Times <- YearEnd
    Schedules <- OwnerChoices
    MaxBytes = 2
    MaxBoots = 3
    MaxOps = 2
    MaxFaults = 1
INVARIANTS
    BytesConserved
    
PROPERTY ResetExact
\* Nothing is claimed once the code's protection has ended.
CONSTRAINT Protected
\* The last moment has come and nothing is left to do.
CHECK_DEADLOCK FALSE
