\* Three changes, two rules, one failing step and one restart.
SPECIFICATION FairSpec
CONSTANTS
    k1 = k1
    k2 = k2
    b1 = b1
    b2 = b2
    Keys = {k1, k2}
    Bodies = {b1, b2}
    Policies <- MCPolicies
    MaxRev = 2
    MaxRows = 6
    MaxChanges = 3
    MaxFaults = 1
    MaxCrashes = 1
INVARIANTS
    OrphansBounded
    RoundInSync
PROPERTIES
    ManualKept
    
\* Without a policy there is nothing to reconcile.
CHECK_DEADLOCK FALSE
