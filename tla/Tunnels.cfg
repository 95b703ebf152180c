\* Three changes of bindings and instances, one failing step, one restart.
SPECIFICATION FairSpec
CONSTANTS
    r1 = r1
    r2 = r2
    v1 = v1
    v2 = v2
    x = x
    y = y
    None = None
    Resources = {r1, r2}
    Vms = {v1, v2}
    Addrs = {x, y}
    Endpoints = {e1, e2}
    Wants <- MCWants
    MaxChanges = 3
    MaxFaults = 1
    MaxCrashes = 1

    
PROPERTIES
    AllowedBeforeUse
    
