\* Two lifecycle commands of one instance, replayed after a lost stream and a
\* restart; cache and vm_locks are always over their soft limit.
SPECIFICATION Spec
CONSTANTS
    c1 = c1
    c2 = c2
    v1 = v1
    Cmds = {c1, c2}
    Vms = {v1}
    VmOf <- OneVm
    Kind <- Lifecycle
    NoId = {}
    LockIds = {l1, l2}
    SoftLimit = 0
    Capacity = 1
    MaxRuns = 2
    MaxSessions = 2
    MaxCrashes = 1
INVARIANTS
    OneLifecycleCommandPerVm
    AtMostOnce
    NoLostResult
\* Every command is answered in the end and nothing is left to do.
CHECK_DEADLOCK FALSE
