\* A lifecycle command and a port-forward command without an id, over two streams
\* and a restart.
SPECIFICATION FairSpec
CONSTANTS
    c1 = c1
    c2 = c2
    v1 = v1
    Cmds = {c1, c2}
    Vms = {v1}
    VmOf <- OneVm
    Kind <- Mixed
    NoId = {c2}
    LockIds = {l1, l2}
    SoftLimit = 1
    Capacity = 1
    MaxRuns = 2
    MaxSessions = 2
    MaxCrashes = 1
PROPERTY EveryCommandAnswered
\* Every command is answered in the end and nothing is left to do.
CHECK_DEADLOCK FALSE
