\* A node in use and three more requests: two instances compete for one slot;
\* two host ports, one failing step, one restart of the agent or the host.
SPECIFICATION InUseSpec
CONSTANTS
    v1 = v1
    v2 = v2
    p1 = p1
    Vms = {v1, v2}
    Ports = {p1, p2}
    NoRec = NoRec
    Idle = Idle
    NoTx = NoTx
    MaxIdx = 0
    MaxForwards = 1
    MaxOps = 5
    MaxFaults = 1
    MaxCrashes = 1
INVARIANTS
    DistinctSlots
    ActiveHasRecord
    ForwardsReachOwner
    QuarantineFollowsGeneration
PROPERTIES
    QuarantineEnforced
    NetworkConverges
\* Every request has been served and nothing is left to do.
CHECK_DEADLOCK FALSE
