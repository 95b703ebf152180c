\* Two leases, one instance that is replaced, stopped and moved between two
\* addresses; one failing step and one restart.
SPECIFICATION FairSpec
CONSTANTS
    Ids = {p, q}
    Vms = {v}
    Addrs = {a, b}
    IpSets = {{a}, {a, b}}
    None = None
    MaxTime = 2
    MaxChanges = 3
    MaxFaults = 1
    MaxCrashes = 1
INVARIANTS
    
    RoundExact
PROPERTY LimitsEnd
