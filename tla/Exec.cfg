CONSTANTS
    Opens = {o1, o2}
    Sids = {s1}
    NoOpen = NoOpen
    MaxOutput = 1

SPECIFICATION MCSpec

INVARIANTS
    StaysAttached
    
    ResultWhole

PROPERTIES
    
    CaptureReturns

\* A stream whose consoles have all ended, and a command that has returned,
\* have nothing left to do.
CHECK_DEADLOCK FALSE
