---------------------------- MODULE MCInstances -----------------------------
(* Small instances of Instances for TLC. *)
EXTENDS Instances

CONSTANTS
    v1, v2,
    p1      \* the port forwarded to v1 at the start

\* A node in use: after two requests and a start of the agent, v1 runs in the
\* only slot and has a forwarded port.
InUse ==
    /\ rec = [v \in Vms |-> IF v = v1 THEN [gen |-> 1, idx |-> 0, want |-> "run",
                                            quar |-> FALSE]
                                      ELSE NoRec]
    /\ spec = [v \in Vms |-> FALSE] /\ made = [v \in Vms |-> v = v1]
    /\ unit = [v \in Vms |-> v = v1] /\ sup = [v \in Vms |-> FALSE]
    /\ up = [v \in Vms |-> v = v1]
    /\ saved = {[port |-> p1, vm |-> v1]} /\ fwds = saved
    /\ nft = {[port |-> p1, vm |-> v1, idx |-> 0]}
    /\ task = [v \in Vms |-> Idle]
    /\ tx = NoTx /\ adding = {} /\ purging = {} /\ boot = "start" /\ todo = {}
    /\ netOk = TRUE
    /\ gens = 1 /\ ops = 2 /\ faults = 0 /\ crashes = 0 /\ isolated = {}

InUseSpec == InUse /\ [][Next]_vars /\ Fairness
=============================================================================
