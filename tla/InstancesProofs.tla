-------------------------- MODULE InstancesProofs ---------------------------
(* What Instances' runs check, for every number of instances, ports, slots,    *)
(* operations, failing steps and restarts.                                     *)
EXTENDS Instances, FiniteSetTheorems, TLAPS

-----------------------------------------------------------------------------
(* The inductive invariant *)

\* Generations are numbers; that there are at most MaxOps of them is the bound of
\* a run and not needed.
Types ==
    /\ rec \in [Vms -> Records \cup {NoRec}]
    /\ task \in [Vms -> Tasks \cup {Idle}]
    /\ unit \in [Vms -> BOOLEAN]
    /\ tx = NoTx \/ tx \in Holders
    /\ fwds \subseteq Rules /\ saved \subseteq Rules /\ adding \subseteq Rules
    /\ gens \in Nat

\* What the record, the operation that holds lock_vm and the unit of an instance
\* have to do with each other at every step: until the unit is launched it is
\* stopped, and what is launched, runs or is changed has a record.
Sound(r, t, u) ==
    /\ u => r # NoRec
    /\ t # Idle =>
         /\ t.at \in {"remove", "renet", "alloc", "provision", "net"} => ~u
         /\ t.at \in {"provision", "net", "launch", "check", "spec", "link"} => r # NoRec
         /\ t.at = "halt" /\ t.op \in {"stop", "restart"} => r # NoRec

Progress == \A v \in Vms : Sound(rec[v], task[v], unit[v])

\* The instance whose ruleset is being applied waits for it.
HolderWaits ==
    tx # NoTx /\ tx.by \in Vms => At(tx.by, "net") \/ At(tx.by, "renet")

\* A slot that was just taken: the installed ruleset may be older than the record.
Fresh(v) == At(v, "provision") \/ At(v, "net")

\* Every other record is younger than no ruleset: what is forwarded to its slot is
\* forwarded to it.
Reached ==
    netOk => \A v \in Vms : Exists(v) /\ ~Fresh(v) =>
                \A f \in nft : f.idx = rec[v].idx => f.vm = v

\* So it is with the ruleset about to be applied, and for the one who applies it.
ViewReached ==
    tx # NoTx => \A v \in Vms : Exists(v) /\ (~Fresh(v) \/ tx.by = v) =>
                    \A w \in Vms : tx.view[w] = rec[v].idx => w = v

IInv ==
    /\ Types
    /\ DistinctSlots /\ QuarantineFollowsGeneration
    /\ Progress /\ HolderWaits /\ Reached /\ ViewReached

-----------------------------------------------------------------------------
(* Four kinds of step, as far as the invariant can tell *)

FreshTask(t) == t # Idle /\ t.at \in {"provision", "net"}
WaitsForNet(t) == t # Idle /\ t.at \in {"net", "renet"}

\* One instance's record, operation and unit become r, t and u. The record is
\* gone, keeps its slot, or is new with a free slot.
Own(v, r, t, u) ==
    /\ rec' = [rec EXCEPT ![v] = r]
    /\ task' = [task EXCEPT ![v] = t]
    /\ unit' = [unit EXCEPT ![v] = u]
    /\ Sound(r, t, u)
    /\ \/ r = NoRec
       \/ /\ r \in Records /\ rec[v] # NoRec /\ r.idx = rec[v].idx
          /\ FreshTask(t) <=> FreshTask(task[v])
       \/ /\ r \in Records /\ r.idx \in FreeIdxs
          /\ FreshTask(t) /\ ~FreshTask(task[v])
    /\ WaitsForNet(task[v]) => t = task[v]
    /\ isolated \subseteq isolated'
    /\ r # NoRec /\ r.quar => r.gen \in isolated'
    /\ t \in Tasks \cup {Idle} /\ u \in BOOLEAN
    /\ UNCHANGED <<tx, nft, netOk>>

\* The forwards lock is taken, or nothing of interest happens.
Taken ==
    /\ UNCHANGED <<rec, task, unit, nft, netOk, isolated>>
    /\ \/ UNCHANGED tx
       \/ \E by \in Vms \cup {"heal", "init", "add", "del"}, rules \in SUBSET Rules :
             /\ tx' = [by |-> by, fwds |-> rules, view |-> View]
             /\ by \in Vms => WaitsForNet(task[by])

\* The ruleset is applied or not, and who waited for it goes on.
Applied ==
    /\ tx # NoTx /\ tx' = NoTx
    /\ UNCHANGED <<rec, unit, isolated>>
    /\ \/ task' = task /\ tx.by \notin Vms
       \/ \E t \in Tasks \cup {Idle} :
             /\ tx.by \in Vms
             /\ task' = [task EXCEPT ![tx.by] = t]
             /\ Sound(rec[tx.by], t, unit[tx.by])
    /\ netOk' = FALSE \/ nft' = Ruleset

Restarted ==
    /\ task' = [v \in Vms |-> Idle] /\ tx' = NoTx /\ netOk' = FALSE
    /\ UNCHANGED <<rec, isolated>>
    /\ unit' = unit \/ unit' = [v \in Vms |-> FALSE]

Kind ==
    \/ \E v \in Vms, r \in Records \cup {NoRec}, t \in Tasks \cup {Idle}, u \in BOOLEAN :
          Own(v, r, t, u)
    \/ Taken \/ Applied \/ Restarted

\* The steps that begin an operation.
LEMMA RequestKinds ==
    ASSUME NEW v \in Vms, Types, Progress, QuarantineFollowsGeneration, Requests(v)
    PROVE  Kind
PROOF
  <1>1. CASE BeginCreate(v)
      <2> DEFINE r == rec[v]
                 t == [op |-> "create", at |-> IF Exists(v) THEN "halt" ELSE "alloc", run |-> FALSE]
                 u == unit[v]
      <2>1. /\ rec' = [rec EXCEPT ![v] = r] /\ task' = [task EXCEPT ![v] = t]
            /\ unit' = [unit EXCEPT ![v] = u]
            /\ UNCHANGED <<tx, nft, netOk>>
        BY <1>1 DEF BeginCreate, Lock, At, Types, Exists, Tasks, Records, disk, host, net, hist
      <2>2. /\ r = NoRec \/ (r \in Records /\ rec[v] # NoRec /\ r.idx = rec[v].idx)
            /\ t \in Tasks \cup {Idle} /\ u \in BOOLEAN
            /\ isolated \subseteq isolated' /\ (r # NoRec /\ r.quar => r.gen \in isolated')
        BY <1>1 DEF BeginCreate, Lock, At, Types, Exists, QuarantineFollowsGeneration,
           Tasks, Records, Steps, disk, host, net, hist
      <2>3. Sound(r, t, u) /\ (r # NoRec => (FreshTask(t) <=> FreshTask(task[v])))
            /\ (WaitsForNet(task[v]) => t = task[v])
        BY <1>1, <2>2, AbsentAssumption
           DEF BeginCreate, Lock, At, Types, Exists, Progress, Sound, FreshTask, WaitsForNet,
               Tasks, Records, Steps, disk, host, net, hist
      <2> HIDE DEF r, t, u
      <2>4. Own(v, r, t, u)
        BY <2>1, <2>2, <2>3 DEF Own
      <2> QED
        BY <2>2, <2>4 DEF Kind
  <1>2. CASE BeginDelete(v)
      <2> DEFINE r == rec[v]
                 t == [op |-> "delete", at |-> "halt", run |-> FALSE]
                 u == unit[v]
      <2>1. /\ rec' = [rec EXCEPT ![v] = r] /\ task' = [task EXCEPT ![v] = t]
            /\ unit' = [unit EXCEPT ![v] = u]
            /\ UNCHANGED <<tx, nft, netOk>>
        BY <1>2 DEF BeginDelete, Lock, At, Types, Exists, Tasks, Records, disk, host, net, hist
      <2>2. /\ r = NoRec \/ (r \in Records /\ rec[v] # NoRec /\ r.idx = rec[v].idx)
            /\ t \in Tasks \cup {Idle} /\ u \in BOOLEAN
            /\ isolated \subseteq isolated' /\ (r # NoRec /\ r.quar => r.gen \in isolated')
        BY <1>2 DEF BeginDelete, Lock, At, Types, Exists, QuarantineFollowsGeneration,
           Tasks, Records, Steps, disk, host, net, hist
      <2>3. Sound(r, t, u) /\ (r # NoRec => (FreshTask(t) <=> FreshTask(task[v])))
            /\ (WaitsForNet(task[v]) => t = task[v])
        BY <1>2, <2>2, AbsentAssumption
           DEF BeginDelete, Lock, At, Types, Exists, Progress, Sound, FreshTask, WaitsForNet,
               Tasks, Records, Steps, disk, host, net, hist
      <2> HIDE DEF r, t, u
      <2>4. Own(v, r, t, u)
        BY <2>1, <2>2, <2>3 DEF Own
      <2> QED
        BY <2>2, <2>4 DEF Kind
  <1>3. CASE BeginStart(v)
      <2> DEFINE r == [rec[v] EXCEPT !.want = "run"]
                 t == [op |-> "start", at |-> "check", run |-> FALSE]
                 u == unit[v]
      <2>1. /\ rec' = [rec EXCEPT ![v] = r] /\ task' = [task EXCEPT ![v] = t]
            /\ unit' = [unit EXCEPT ![v] = u]
            /\ UNCHANGED <<tx, nft, netOk>>
        BY <1>3 DEF BeginStart, Lock, Start, SetDesired, At, Types, Exists, Tasks, Records, disk, host, net, hist
      <2>2. /\ r = NoRec \/ (r \in Records /\ rec[v] # NoRec /\ r.idx = rec[v].idx)
            /\ t \in Tasks \cup {Idle} /\ u \in BOOLEAN
            /\ isolated \subseteq isolated' /\ (r # NoRec /\ r.quar => r.gen \in isolated')
        BY <1>3 DEF BeginStart, Lock, Start, SetDesired, At, Types, Exists, QuarantineFollowsGeneration,
           Tasks, Records, Steps, disk, host, net, hist
      <2>3. Sound(r, t, u) /\ (r # NoRec => (FreshTask(t) <=> FreshTask(task[v])))
            /\ (WaitsForNet(task[v]) => t = task[v])
        BY <1>3, <2>2, AbsentAssumption
           DEF BeginStart, Lock, Start, SetDesired, At, Types, Exists, Progress, Sound, FreshTask, WaitsForNet,
               Tasks, Records, Steps, disk, host, net, hist
      <2> HIDE DEF r, t, u
      <2>4. Own(v, r, t, u)
        BY <2>1, <2>2, <2>3 DEF Own
      <2> QED
        BY <2>2, <2>4 DEF Kind
  <1>4. CASE BeginStop(v)
      <2> DEFINE r == [rec[v] EXCEPT !.want = "stop"]
                 t == [op |-> "stop", at |-> "halt", run |-> FALSE]
                 u == unit[v]
      <2>1. /\ rec' = [rec EXCEPT ![v] = r] /\ task' = [task EXCEPT ![v] = t]
            /\ unit' = [unit EXCEPT ![v] = u]
            /\ UNCHANGED <<tx, nft, netOk>>
        BY <1>4 DEF BeginStop, Lock, SetDesired, At, Types, Exists, Tasks, Records, disk, host, net, hist
      <2>2. /\ r = NoRec \/ (r \in Records /\ rec[v] # NoRec /\ r.idx = rec[v].idx)
            /\ t \in Tasks \cup {Idle} /\ u \in BOOLEAN
            /\ isolated \subseteq isolated' /\ (r # NoRec /\ r.quar => r.gen \in isolated')
        BY <1>4 DEF BeginStop, Lock, SetDesired, At, Types, Exists, QuarantineFollowsGeneration,
           Tasks, Records, Steps, disk, host, net, hist
      <2>3. Sound(r, t, u) /\ (r # NoRec => (FreshTask(t) <=> FreshTask(task[v])))
            /\ (WaitsForNet(task[v]) => t = task[v])
        BY Zenon, <1>4, <2>2, AbsentAssumption
           DEF BeginStop, Lock, SetDesired, At, Types, Exists, Progress, Sound, FreshTask, WaitsForNet,
               Tasks, Records, Steps, disk, host, net, hist
      <2> HIDE DEF r, t, u
      <2>4. Own(v, r, t, u)
        BY <2>1, <2>2, <2>3 DEF Own
      <2> QED
        BY <2>2, <2>4 DEF Kind
  <1>5. CASE BeginRestart(v)
      <2> DEFINE r == [rec[v] EXCEPT !.want = "run"]
                 t == [op |-> "restart", at |-> "halt", run |-> FALSE]
                 u == unit[v]
      <2>1. /\ rec' = [rec EXCEPT ![v] = r] /\ task' = [task EXCEPT ![v] = t]
            /\ unit' = [unit EXCEPT ![v] = u]
            /\ UNCHANGED <<tx, nft, netOk>>
        BY <1>5 DEF BeginRestart, Lock, SetDesired, At, Types, Exists, Tasks, Records, disk, host, net, hist
      <2>2. /\ r = NoRec \/ (r \in Records /\ rec[v] # NoRec /\ r.idx = rec[v].idx)
            /\ t \in Tasks \cup {Idle} /\ u \in BOOLEAN
            /\ isolated \subseteq isolated' /\ (r # NoRec /\ r.quar => r.gen \in isolated')
        BY <1>5 DEF BeginRestart, Lock, SetDesired, At, Types, Exists, QuarantineFollowsGeneration,
           Tasks, Records, Steps, disk, host, net, hist
      <2>3. Sound(r, t, u) /\ (r # NoRec => (FreshTask(t) <=> FreshTask(task[v])))
            /\ (WaitsForNet(task[v]) => t = task[v])
        BY Zenon, <1>5, <2>2, AbsentAssumption
           DEF BeginRestart, Lock, SetDesired, At, Types, Exists, Progress, Sound, FreshTask, WaitsForNet,
               Tasks, Records, Steps, disk, host, net, hist
      <2> HIDE DEF r, t, u
      <2>4. Own(v, r, t, u)
        BY <2>1, <2>2, <2>3 DEF Own
      <2> QED
        BY <2>2, <2>4 DEF Kind
  <1>6. ASSUME NEW g \in Gens, Isolate(v, g)
        PROVE  Kind
    <2>1. \/ ~rec[v].quar /\ rec' = [rec EXCEPT ![v].quar = TRUE]
             /\ Lock(v, "quarantine", "spec", TRUE)
          \/ rec' = rec /\ Lock(v, "quarantine", "link", TRUE)
      BY Zenon, <1>6 DEF Isolate, disk, host, net, hist
    <2>2. CASE ~rec[v].quar /\ rec' = [rec EXCEPT ![v].quar = TRUE]
               /\ Lock(v, "quarantine", "spec", TRUE)
        <3> DEFINE r == [rec[v] EXCEPT !.quar = TRUE]
                   t == [op |-> "quarantine", at |-> "spec", run |-> TRUE]
                   u == unit[v]
        <3>1. /\ rec' = [rec EXCEPT ![v] = r] /\ task' = [task EXCEPT ![v] = t]
              /\ unit' = [unit EXCEPT ![v] = u]
              /\ UNCHANGED <<tx, nft, netOk>>
          BY <1>6, <2>2 DEF Isolate, Lock, Running, At, Types, Exists, Tasks, Records, disk, host, net, hist
        <3>7. rec[v] \in Records /\ u \in BOOLEAN
          BY Zenon, <1>6 DEF Isolate, Running, Exists, Types
        <3>8. r \in Records /\ r.idx = rec[v].idx /\ r.gen = rec[v].gen
          BY Zenon, <3>7 DEF Records
        <3>9. t \in Tasks \cup {Idle}
          BY Zenon, <2>2 DEF Tasks, Steps
        <3>10. isolated \subseteq isolated' /\ (r.quar => r.gen \in isolated')
          <4>1. rec[v].gen = g /\ g \in isolated' /\ isolated \subseteq isolated'
            BY Zenon, <1>6 DEF Isolate
          <4> HIDE DEF r
          <4> QED
            BY Zenon, <3>8, <4>1
        <3>2. /\ r = NoRec \/ (r \in Records /\ rec[v] # NoRec /\ r.idx = rec[v].idx)
              /\ t \in Tasks \cup {Idle} /\ u \in BOOLEAN
              /\ isolated \subseteq isolated' /\ (r # NoRec /\ r.quar => r.gen \in isolated')
          BY Zenon, <1>6, <3>7, <3>8, <3>9, <3>10 DEF Isolate, Running, Exists
        <3>5. r # NoRec /\ task[v] = Idle
          BY Zenon, <1>6, <2>2, AbsentAssumption DEF Isolate, Lock, Running, Exists, Types, Records
        <3>6. t \in Tasks /\ t.at \in {"spec", "link"}
          BY DEF Tasks, Steps, Running, Exists, Types
        <3> HIDE DEF r, t, u
        <3>3. Sound(r, t, u) /\ ~FreshTask(t) /\ ~FreshTask(task[v]) /\ ~WaitsForNet(task[v])
          BY <3>5, <3>6, AbsentAssumption DEF Sound, FreshTask, WaitsForNet
        <3>4. Own(v, r, t, u)
          BY <3>1, <3>2, <3>3 DEF Own
        <3> QED
          BY <3>2, <3>4 DEF Kind
    <2>3. CASE rec' = rec /\ Lock(v, "quarantine", "link", TRUE)
        <3> DEFINE r == rec[v]
                   t == [op |-> "quarantine", at |-> "link", run |-> TRUE]
                   u == unit[v]
        <3>1. /\ rec' = [rec EXCEPT ![v] = r] /\ task' = [task EXCEPT ![v] = t]
              /\ unit' = [unit EXCEPT ![v] = u]
              /\ UNCHANGED <<tx, nft, netOk>>
          BY <1>6, <2>3 DEF Isolate, Lock, Running, At, Types, Exists, Tasks, Records, disk, host, net, hist
        <3>2. /\ r = NoRec \/ (r \in Records /\ rec[v] # NoRec /\ r.idx = rec[v].idx)
              /\ t \in Tasks \cup {Idle} /\ u \in BOOLEAN
              /\ isolated \subseteq isolated' /\ (r # NoRec /\ r.quar => r.gen \in isolated')
          BY <1>6, <2>3 DEF Isolate, Lock, Running, At, Types, Exists, QuarantineFollowsGeneration,
             Tasks, Records, Steps, disk, host, net, hist
        <3>5. r # NoRec /\ task[v] = Idle
          BY <1>6, <2>3, AbsentAssumption DEF Isolate, Lock, Running, Exists, Types, Records
        <3>6. t \in Tasks /\ t.at \in {"spec", "link"}
          BY DEF Tasks, Steps, Running, Exists, Types
        <3> HIDE DEF r, t, u
        <3>3. Sound(r, t, u) /\ ~FreshTask(t) /\ ~FreshTask(task[v]) /\ ~WaitsForNet(task[v])
          BY <3>5, <3>6, AbsentAssumption DEF Sound, FreshTask, WaitsForNet
        <3>4. Own(v, r, t, u)
          BY <3>1, <3>2, <3>3 DEF Own
        <3> QED
          BY <3>2, <3>4 DEF Kind
    <2> QED
      BY Zenon, <2>1, <2>2, <2>3
  <1>7. ASSUME NEW g \in Gens, Unisolate(v, g)
        PROVE  Kind
      <2> DEFINE r == [rec[v] EXCEPT !.quar = FALSE]
                 t == [op |-> "quarantine", at |-> "spec", run |-> Running(v)]
                 u == unit[v]
      <2>1. /\ rec' = [rec EXCEPT ![v] = r] /\ task' = [task EXCEPT ![v] = t]
            /\ unit' = [unit EXCEPT ![v] = u]
            /\ UNCHANGED <<tx, nft, netOk>>
        BY <1>7 DEF Unisolate, Lock, Running, At, Types, Exists, Tasks, Records, disk, host, net, hist
      <2>2. /\ r = NoRec \/ (r \in Records /\ rec[v] # NoRec /\ r.idx = rec[v].idx)
            /\ t \in Tasks \cup {Idle} /\ u \in BOOLEAN
            /\ isolated \subseteq isolated' /\ (r # NoRec /\ r.quar => r.gen \in isolated')
        BY Zenon, <1>7 DEF Unisolate, Lock, Running, At, Types, Exists, QuarantineFollowsGeneration,
           Tasks, Records, Steps, disk, host, net, hist
      <2>5. r # NoRec /\ task[v] = Idle
        BY Zenon, <1>7, AbsentAssumption DEF Unisolate, Lock, Running, Exists, Types, Records
      <2>6. t \in Tasks /\ t.at \in {"spec", "link"}
        BY DEF Tasks, Steps, Running, Exists, Types
      <2> HIDE DEF r, t, u
      <2>3. Sound(r, t, u) /\ ~FreshTask(t) /\ ~FreshTask(task[v]) /\ ~WaitsForNet(task[v])
        BY <2>5, <2>6, AbsentAssumption DEF Sound, FreshTask, WaitsForNet
      <2>4. Own(v, r, t, u)
        BY <2>1, <2>2, <2>3 DEF Own
      <2> QED
        BY <2>2, <2>4 DEF Kind
  <1>8. ASSUME NEW p \in Ports, BeginAdd(p, v)
        PROVE  Kind
    BY <1>8 DEF Kind, Taken, BeginAdd, disk, host, net, hist
  <1> QED
    BY <1>1, <1>2, <1>3, <1>4, <1>5, <1>6, <1>7, <1>8
       DEF Requests, ControlRequest, WatcherStop, BeginSshForward

\* The steps of an operation that holds lock_vm, autostart, the repair of a link and
\* what the guest does.
LEMMA LocalKinds ==
    ASSUME NEW v \in Vms, Types, Progress, QuarantineFollowsGeneration, Local(v) \/ World(v)
    PROVE  Kind
PROOF
  <1>1. CASE Halt(v)
    <2>1. \/ task[v].op \in {"create", "delete"} /\ Goto(v, "remove")
             /\ unit' = [unit EXCEPT ![v] = FALSE]
          \/ task[v].op = "restart" /\ Goto(v, "launch")
             /\ unit' = [unit EXCEPT ![v] = FALSE]
          \/ Release(v) /\ unit' = [unit EXCEPT ![v] = FALSE]
          \/ Release(v) /\ unit' = unit
      BY <1>1 DEF Halt, disk, host, net, hist
    <2>2. CASE task[v].op \in {"create", "delete"} /\ Goto(v, "remove")
               /\ unit' = [unit EXCEPT ![v] = FALSE]
        <3> DEFINE r == rec[v]
                   t == [task[v] EXCEPT !.at = "remove"]
                   u == FALSE
        <3>1. /\ rec' = [rec EXCEPT ![v] = r] /\ task' = [task EXCEPT ![v] = t]
              /\ unit' = [unit EXCEPT ![v] = u]
              /\ UNCHANGED <<tx, nft, netOk>>
          BY <1>1, <2>2 DEF Halt, Goto, Release, At, Types, Exists, Tasks, Records, disk, host, net, hist
        <3>2. /\ r = NoRec \/ (r \in Records /\ rec[v] # NoRec /\ r.idx = rec[v].idx)
              /\ t \in Tasks \cup {Idle} /\ u \in BOOLEAN
              /\ isolated \subseteq isolated' /\ (r # NoRec /\ r.quar => r.gen \in isolated')
          BY <1>1, <2>2 DEF Halt, Goto, Release, At, Types, Exists, QuarantineFollowsGeneration,
             Tasks, Records, Steps, disk, host, net, hist
        <3>3. Sound(r, t, u) /\ (r # NoRec => (FreshTask(t) <=> FreshTask(task[v])))
              /\ (WaitsForNet(task[v]) => t = task[v])
          BY Zenon, <1>1, <2>2, <3>2, AbsentAssumption
             DEF Halt, Goto, Release, At, Types, Exists, Progress, Sound, FreshTask, WaitsForNet,
                 Tasks, Records, Steps, disk, host, net, hist
        <3> HIDE DEF r, t, u
        <3>4. Own(v, r, t, u)
          BY <3>1, <3>2, <3>3 DEF Own
        <3> QED
          BY <3>2, <3>4 DEF Kind
    <2>3. CASE task[v].op = "restart" /\ Goto(v, "launch")
               /\ unit' = [unit EXCEPT ![v] = FALSE]
        <3> DEFINE r == rec[v]
                   t == [task[v] EXCEPT !.at = "launch"]
                   u == FALSE
        <3>1. /\ rec' = [rec EXCEPT ![v] = r] /\ task' = [task EXCEPT ![v] = t]
              /\ unit' = [unit EXCEPT ![v] = u]
              /\ UNCHANGED <<tx, nft, netOk>>
          BY <1>1, <2>3 DEF Halt, Goto, Release, At, Types, Exists, Tasks, Records, disk, host, net, hist
        <3>2. /\ r = NoRec \/ (r \in Records /\ rec[v] # NoRec /\ r.idx = rec[v].idx)
              /\ t \in Tasks \cup {Idle} /\ u \in BOOLEAN
              /\ isolated \subseteq isolated' /\ (r # NoRec /\ r.quar => r.gen \in isolated')
          BY <1>1, <2>3 DEF Halt, Goto, Release, At, Types, Exists, QuarantineFollowsGeneration,
             Tasks, Records, Steps, disk, host, net, hist
        <3>3. Sound(r, t, u) /\ (r # NoRec => (FreshTask(t) <=> FreshTask(task[v])))
              /\ (WaitsForNet(task[v]) => t = task[v])
          BY <1>1, <2>3, <3>2, AbsentAssumption
             DEF Halt, Goto, Release, At, Types, Exists, Progress, Sound, FreshTask, WaitsForNet,
                 Tasks, Records, Steps, disk, host, net, hist
        <3> HIDE DEF r, t, u
        <3>4. Own(v, r, t, u)
          BY <3>1, <3>2, <3>3 DEF Own
        <3> QED
          BY <3>2, <3>4 DEF Kind
    <2>4. CASE Release(v) /\ unit' = [unit EXCEPT ![v] = FALSE]
        <3> DEFINE r == rec[v]
                   t == Idle
                   u == FALSE
        <3>1. /\ rec' = [rec EXCEPT ![v] = r] /\ task' = [task EXCEPT ![v] = t]
              /\ unit' = [unit EXCEPT ![v] = u]
              /\ UNCHANGED <<tx, nft, netOk>>
          BY <1>1, <2>4 DEF Halt, Goto, Release, At, Types, Exists, Tasks, Records, disk, host, net, hist
        <3>2. /\ r = NoRec \/ (r \in Records /\ rec[v] # NoRec /\ r.idx = rec[v].idx)
              /\ t \in Tasks \cup {Idle} /\ u \in BOOLEAN
              /\ isolated \subseteq isolated' /\ (r # NoRec /\ r.quar => r.gen \in isolated')
          BY <1>1, <2>4 DEF Halt, Goto, Release, At, Types, Exists, QuarantineFollowsGeneration,
             Tasks, Records, Steps, disk, host, net, hist
        <3>3. Sound(r, t, u) /\ (r # NoRec => (FreshTask(t) <=> FreshTask(task[v])))
              /\ (WaitsForNet(task[v]) => t = task[v])
          BY Zenon, <1>1, <2>4, <3>2, AbsentAssumption
             DEF Halt, Goto, Release, At, Types, Exists, Progress, Sound, FreshTask, WaitsForNet,
                 Tasks, Records, Steps, disk, host, net, hist
        <3> HIDE DEF r, t, u
        <3>4. Own(v, r, t, u)
          BY <3>1, <3>2, <3>3 DEF Own
        <3> QED
          BY <3>2, <3>4 DEF Kind
    <2>5. CASE Release(v) /\ unit' = unit
        <3> DEFINE r == rec[v]
                   t == Idle
                   u == unit[v]
        <3>1. /\ rec' = [rec EXCEPT ![v] = r] /\ task' = [task EXCEPT ![v] = t]
              /\ unit' = [unit EXCEPT ![v] = u]
              /\ UNCHANGED <<tx, nft, netOk>>
          BY <1>1, <2>5 DEF Halt, Goto, Release, At, Types, Exists, Tasks, Records, disk, host, net, hist
        <3>2. /\ r = NoRec \/ (r \in Records /\ rec[v] # NoRec /\ r.idx = rec[v].idx)
              /\ t \in Tasks \cup {Idle} /\ u \in BOOLEAN
              /\ isolated \subseteq isolated' /\ (r # NoRec /\ r.quar => r.gen \in isolated')
          BY <1>1, <2>5 DEF Halt, Goto, Release, At, Types, Exists, QuarantineFollowsGeneration,
             Tasks, Records, Steps, disk, host, net, hist
        <3>3. Sound(r, t, u) /\ (r # NoRec => (FreshTask(t) <=> FreshTask(task[v])))
              /\ (WaitsForNet(task[v]) => t = task[v])
          BY <1>1, <2>5, <3>2, AbsentAssumption
             DEF Halt, Goto, Release, At, Types, Exists, Progress, Sound, FreshTask, WaitsForNet,
                 Tasks, Records, Steps, disk, host, net, hist
        <3> HIDE DEF r, t, u
        <3>4. Own(v, r, t, u)
          BY <3>1, <3>2, <3>3 DEF Own
        <3> QED
          BY <3>2, <3>4 DEF Kind
    <2> QED
      BY <2>1, <2>2, <2>3, <2>4, <2>5
  <1>2. CASE Remove(v)
    <2>1. \/ rec' = [rec EXCEPT ![v] = NoRec] /\ Goto(v, "renet")
          \/ rec' = rec /\ Release(v)
      BY <1>2 DEF Remove, disk, host, net, hist
    <2>2. CASE rec' = [rec EXCEPT ![v] = NoRec] /\ Goto(v, "renet")
        <3> DEFINE r == NoRec
                   t == [task[v] EXCEPT !.at = "renet"]
                   u == unit[v]
        <3>1. /\ rec' = [rec EXCEPT ![v] = r] /\ task' = [task EXCEPT ![v] = t]
              /\ unit' = [unit EXCEPT ![v] = u]
              /\ UNCHANGED <<tx, nft, netOk>>
          BY <1>2, <2>2 DEF Remove, Goto, Release, At, Types, Exists, Tasks, Records, disk, host, net, hist
        <3>2. /\ r = NoRec \/ (r \in Records /\ rec[v] # NoRec /\ r.idx = rec[v].idx)
              /\ t \in Tasks \cup {Idle} /\ u \in BOOLEAN
              /\ isolated \subseteq isolated' /\ (r # NoRec /\ r.quar => r.gen \in isolated')
          BY ZenonT(30), <1>2, <2>2 DEF Remove, Goto, Release, At, Types, Exists, QuarantineFollowsGeneration,
             Tasks, Records, Steps, disk, host, net, hist
        <3>3. Sound(r, t, u) /\ (r # NoRec => (FreshTask(t) <=> FreshTask(task[v])))
              /\ (WaitsForNet(task[v]) => t = task[v])
          BY <1>2, <2>2, <3>2, AbsentAssumption
             DEF Remove, Goto, Release, At, Types, Exists, Progress, Sound, FreshTask, WaitsForNet,
                 Tasks, Records, Steps, disk, host, net, hist
        <3> HIDE DEF r, t, u
        <3>4. Own(v, r, t, u)
          BY <3>1, <3>2, <3>3 DEF Own
        <3> QED
          BY <3>2, <3>4 DEF Kind
    <2>3. CASE rec' = rec /\ Release(v)
        <3> DEFINE r == rec[v]
                   t == Idle
                   u == unit[v]
        <3>1. /\ rec' = [rec EXCEPT ![v] = r] /\ task' = [task EXCEPT ![v] = t]
              /\ unit' = [unit EXCEPT ![v] = u]
              /\ UNCHANGED <<tx, nft, netOk>>
          BY <1>2, <2>3 DEF Remove, Goto, Release, At, Types, Exists, Tasks, Records, disk, host, net, hist
        <3>2. /\ r = NoRec \/ (r \in Records /\ rec[v] # NoRec /\ r.idx = rec[v].idx)
              /\ t \in Tasks \cup {Idle} /\ u \in BOOLEAN
              /\ isolated \subseteq isolated' /\ (r # NoRec /\ r.quar => r.gen \in isolated')
          BY <1>2, <2>3 DEF Remove, Goto, Release, At, Types, Exists, QuarantineFollowsGeneration,
             Tasks, Records, Steps, disk, host, net, hist
        <3>3. Sound(r, t, u) /\ (r # NoRec => (FreshTask(t) <=> FreshTask(task[v])))
              /\ (WaitsForNet(task[v]) => t = task[v])
          BY <1>2, <2>3, <3>2, AbsentAssumption
             DEF Remove, Goto, Release, At, Types, Exists, Progress, Sound, FreshTask, WaitsForNet,
                 Tasks, Records, Steps, disk, host, net, hist
        <3> HIDE DEF r, t, u
        <3>4. Own(v, r, t, u)
          BY <3>1, <3>2, <3>3 DEF Own
        <3> QED
          BY <3>2, <3>4 DEF Kind
    <2> QED
      BY <2>1, <2>2, <2>3
  <1>3. CASE Alloc(v)
    <2>1. \/ /\ \E i \in FreeIdxs :
                   rec' = [rec EXCEPT ![v] = [gen |-> gens + 1, idx |-> i, want |-> "run",
                                              quar |-> FALSE]]
             /\ Goto(v, "provision")
          \/ rec' = rec /\ Release(v)
      BY <1>3 DEF Alloc, disk
    <2>2. ASSUME NEW i \in FreeIdxs, Goto(v, "provision"),
                 rec' = [rec EXCEPT ![v] = [gen |-> gens + 1, idx |-> i, want |-> "run",
                                            quar |-> FALSE]]
          PROVE  Kind
      <3> DEFINE r == [gen |-> gens + 1, idx |-> i, want |-> "run", quar |-> FALSE]
                 t == [task[v] EXCEPT !.at = "provision"]
      <3>7. i \in Idxs /\ gens + 1 \in Nat
        BY DEF Types, FreeIdxs
      <3>1. r \in Records /\ r.idx = i
        BY <3>7 DEF Records
      <3>6. ~r.quar
        BY Zenon
      <3>2. task[v] \in Tasks /\ task[v] # Idle /\ task[v].at = "alloc" /\ ~unit[v]
        BY <1>3 DEF Alloc, At, Progress, Sound, Types
      <3>3. t \in Tasks /\ t # Idle /\ t.at = "provision"
        BY <3>2, AbsentAssumption DEF Tasks, Steps
      <3>4. /\ rec' = [rec EXCEPT ![v] = r] /\ task' = [task EXCEPT ![v] = t]
            /\ unit' = [unit EXCEPT ![v] = unit[v]]
            /\ UNCHANGED <<tx, nft, netOk, isolated>>
        BY <1>3, <2>2 DEF Alloc, Goto, Types, host, net
      <3> HIDE DEF r, t
      <3>8. r # NoRec
        BY <3>1, AbsentAssumption
      <3>5. Own(v, r, t, unit[v])
        BY <3>8, <3>1, <3>2, <3>3, <3>4, <3>6 DEF Own, Sound, FreshTask, WaitsForNet, Types
      <3> QED
        BY <3>1, <3>3, <3>5 DEF Kind, Types
    <2>3. CASE rec' = rec /\ Release(v)
      <3>1. Own(v, rec[v], Idle, unit[v])
        BY Zenon, <2>3, <1>3, AbsentAssumption
           DEF Alloc, Release, At, Own, Sound, FreshTask, WaitsForNet, Types, Progress,
               QuarantineFollowsGeneration, Exists, disk, host, net, Records, Tasks, Steps
      <3> QED
        BY Zenon, <3>1 DEF Kind, Types
    <2> QED
      BY <2>1, <2>2, <2>3
  <1>4. CASE Provision(v)
    <2>1. \/ rec' = rec /\ Goto(v, "net")
          \/ rec' = [rec EXCEPT ![v] = NoRec] /\ Release(v)
      BY <1>4 DEF Provision, disk, host, net, hist
    <2>2. CASE rec' = rec /\ Goto(v, "net")
        <3> DEFINE r == rec[v]
                   t == [task[v] EXCEPT !.at = "net"]
                   u == unit[v]
        <3>1. /\ rec' = [rec EXCEPT ![v] = r] /\ task' = [task EXCEPT ![v] = t]
              /\ unit' = [unit EXCEPT ![v] = u]
              /\ UNCHANGED <<tx, nft, netOk>>
          BY <1>4, <2>2 DEF Provision, Goto, Release, At, Types, Exists, Tasks, Records, disk, host, net, hist
        <3>2. /\ r = NoRec \/ (r \in Records /\ rec[v] # NoRec /\ r.idx = rec[v].idx)
              /\ t \in Tasks \cup {Idle} /\ u \in BOOLEAN
              /\ isolated \subseteq isolated' /\ (r # NoRec /\ r.quar => r.gen \in isolated')
          BY <1>4, <2>2 DEF Provision, Goto, Release, At, Types, Exists, QuarantineFollowsGeneration,
             Tasks, Records, Steps, disk, host, net, hist
        <3>3. Sound(r, t, u) /\ (r # NoRec => (FreshTask(t) <=> FreshTask(task[v])))
              /\ (WaitsForNet(task[v]) => t = task[v])
          BY Zenon, <1>4, <2>2, <3>2, AbsentAssumption
             DEF Provision, Goto, Release, At, Types, Exists, Progress, Sound, FreshTask, WaitsForNet,
                 Tasks, Records, Steps, disk, host, net, hist
        <3> HIDE DEF r, t, u
        <3>4. Own(v, r, t, u)
          BY <3>1, <3>2, <3>3 DEF Own
        <3> QED
          BY <3>2, <3>4 DEF Kind
    <2>3. CASE rec' = [rec EXCEPT ![v] = NoRec] /\ Release(v)
        <3> DEFINE r == NoRec
                   t == Idle
                   u == unit[v]
        <3>1. /\ rec' = [rec EXCEPT ![v] = r] /\ task' = [task EXCEPT ![v] = t]
              /\ unit' = [unit EXCEPT ![v] = u]
              /\ UNCHANGED <<tx, nft, netOk>>
          BY <1>4, <2>3 DEF Provision, Goto, Release, At, Types, Exists, Tasks, Records, disk, host, net, hist
        <3>2. /\ r = NoRec \/ (r \in Records /\ rec[v] # NoRec /\ r.idx = rec[v].idx)
              /\ t \in Tasks \cup {Idle} /\ u \in BOOLEAN
              /\ isolated \subseteq isolated' /\ (r # NoRec /\ r.quar => r.gen \in isolated')
          BY <1>4, <2>3 DEF Provision, Goto, Release, At, Types, Exists, QuarantineFollowsGeneration,
             Tasks, Records, Steps, disk, host, net, hist
        <3>3. Sound(r, t, u) /\ (r # NoRec => (FreshTask(t) <=> FreshTask(task[v])))
              /\ (WaitsForNet(task[v]) => t = task[v])
          BY <1>4, <2>3, <3>2, AbsentAssumption
             DEF Provision, Goto, Release, At, Types, Exists, Progress, Sound, FreshTask, WaitsForNet,
                 Tasks, Records, Steps, disk, host, net, hist
        <3> HIDE DEF r, t, u
        <3>4. Own(v, r, t, u)
          BY Zenon, <3>1, <3>2, <3>3 DEF Own
        <3> QED
          BY <3>2, <3>4 DEF Kind
    <2> QED
      BY <2>1, <2>2, <2>3
  <1>5. CASE Launch(v)
    <2>1. \/ unit' = [unit EXCEPT ![v] = TRUE]
          \/ unit' = unit
      BY <1>5 DEF Launch, disk, host, net, hist
    <2>2. CASE unit' = [unit EXCEPT ![v] = TRUE]
        <3> DEFINE r == rec[v]
                   t == Idle
                   u == TRUE
        <3>1. /\ rec' = [rec EXCEPT ![v] = r] /\ task' = [task EXCEPT ![v] = t]
              /\ unit' = [unit EXCEPT ![v] = u]
              /\ UNCHANGED <<tx, nft, netOk>>
          BY Zenon, <1>5, <2>2 DEF Launch, Release, At, Types, Exists, Tasks, Records, disk, host, net, hist
        <3>2. /\ r = NoRec \/ (r \in Records /\ rec[v] # NoRec /\ r.idx = rec[v].idx)
              /\ t \in Tasks \cup {Idle} /\ u \in BOOLEAN
              /\ isolated \subseteq isolated' /\ (r # NoRec /\ r.quar => r.gen \in isolated')
          BY Zenon, <1>5, <2>2 DEF Launch, Release, At, Types, Exists, QuarantineFollowsGeneration,
             Tasks, Records, Steps, disk, host, net, hist
        <3>3. Sound(r, t, u) /\ (r # NoRec => (FreshTask(t) <=> FreshTask(task[v])))
              /\ (WaitsForNet(task[v]) => t = task[v])
          BY Zenon, <1>5, <2>2, <3>2, AbsentAssumption
             DEF Launch, Release, At, Types, Exists, Progress, Sound, FreshTask, WaitsForNet,
                 Tasks, Records, Steps, disk, host, net, hist
        <3> HIDE DEF r, t, u
        <3>4. Own(v, r, t, u)
          BY <3>1, <3>2, <3>3 DEF Own
        <3> QED
          BY <3>2, <3>4 DEF Kind
    <2>3. CASE unit' = unit
        <3> DEFINE r == rec[v]
                   t == Idle
                   u == unit[v]
        <3>1. /\ rec' = [rec EXCEPT ![v] = r] /\ task' = [task EXCEPT ![v] = t]
              /\ unit' = [unit EXCEPT ![v] = u]
              /\ UNCHANGED <<tx, nft, netOk>>
          BY Zenon, <1>5, <2>3 DEF Launch, Release, At, Types, Exists, Tasks, Records, disk, host, net, hist
        <3>2. /\ r = NoRec \/ (r \in Records /\ rec[v] # NoRec /\ r.idx = rec[v].idx)
              /\ t \in Tasks \cup {Idle} /\ u \in BOOLEAN
              /\ isolated \subseteq isolated' /\ (r # NoRec /\ r.quar => r.gen \in isolated')
          BY Zenon, <1>5, <2>3 DEF Launch, Release, At, Types, Exists, QuarantineFollowsGeneration,
             Tasks, Records, Steps, disk, host, net, hist
        <3>3. Sound(r, t, u) /\ (r # NoRec => (FreshTask(t) <=> FreshTask(task[v])))
              /\ (WaitsForNet(task[v]) => t = task[v])
          BY Zenon, <1>5, <2>3, <3>2, AbsentAssumption
             DEF Launch, Release, At, Types, Exists, Progress, Sound, FreshTask, WaitsForNet,
                 Tasks, Records, Steps, disk, host, net, hist
        <3> HIDE DEF r, t, u
        <3>4. Own(v, r, t, u)
          BY <3>1, <3>2, <3>3 DEF Own
        <3> QED
          BY <3>2, <3>4 DEF Kind
    <2> QED
      BY <2>1, <2>2, <2>3
  <1>6. CASE Check(v)
    <2>1. \/ Release(v)
          \/ Goto(v, "launch")
      BY Zenon, <1>6 DEF Check, disk, host, net, hist
    <2>2. CASE Release(v)
        <3> DEFINE r == rec[v]
                   t == Idle
                   u == unit[v]
        <3>1. /\ rec' = [rec EXCEPT ![v] = r] /\ task' = [task EXCEPT ![v] = t]
              /\ unit' = [unit EXCEPT ![v] = u]
              /\ UNCHANGED <<tx, nft, netOk>>
          BY <1>6, <2>2 DEF Check, Release, Goto, At, Types, Exists, Tasks, Records, disk, host, net, hist
        <3>2. /\ r = NoRec \/ (r \in Records /\ rec[v] # NoRec /\ r.idx = rec[v].idx)
              /\ t \in Tasks \cup {Idle} /\ u \in BOOLEAN
              /\ isolated \subseteq isolated' /\ (r # NoRec /\ r.quar => r.gen \in isolated')
          BY <1>6, <2>2 DEF Check, Release, Goto, At, Types, Exists, QuarantineFollowsGeneration,
             Tasks, Records, Steps, disk, host, net, hist
        <3>3. Sound(r, t, u) /\ (r # NoRec => (FreshTask(t) <=> FreshTask(task[v])))
              /\ (WaitsForNet(task[v]) => t = task[v])
          BY Zenon, <1>6, <2>2, <3>2, AbsentAssumption
             DEF Check, Release, Goto, At, Types, Exists, Progress, Sound, FreshTask, WaitsForNet,
                 Tasks, Records, Steps, disk, host, net, hist
        <3> HIDE DEF r, t, u
        <3>4. Own(v, r, t, u)
          BY <3>1, <3>2, <3>3 DEF Own
        <3> QED
          BY <3>2, <3>4 DEF Kind
    <2>3. CASE Goto(v, "launch")
        <3> DEFINE r == rec[v]
                   t == [task[v] EXCEPT !.at = "launch"]
                   u == unit[v]
        <3>1. /\ rec' = [rec EXCEPT ![v] = r] /\ task' = [task EXCEPT ![v] = t]
              /\ unit' = [unit EXCEPT ![v] = u]
              /\ UNCHANGED <<tx, nft, netOk>>
          BY <1>6, <2>3 DEF Check, Release, Goto, At, Types, Exists, Tasks, Records, disk, host, net, hist
        <3>2. /\ r = NoRec \/ (r \in Records /\ rec[v] # NoRec /\ r.idx = rec[v].idx)
              /\ t \in Tasks \cup {Idle} /\ u \in BOOLEAN
              /\ isolated \subseteq isolated' /\ (r # NoRec /\ r.quar => r.gen \in isolated')
          BY <1>6, <2>3 DEF Check, Release, Goto, At, Types, Exists, QuarantineFollowsGeneration,
             Tasks, Records, Steps, disk, host, net, hist
        <3>3. Sound(r, t, u) /\ (r # NoRec => (FreshTask(t) <=> FreshTask(task[v])))
              /\ (WaitsForNet(task[v]) => t = task[v])
          BY <1>6, <2>3, <3>2, AbsentAssumption
             DEF Check, Release, Goto, At, Types, Exists, Progress, Sound, FreshTask, WaitsForNet,
                 Tasks, Records, Steps, disk, host, net, hist
        <3> HIDE DEF r, t, u
        <3>4. Own(v, r, t, u)
          BY <3>1, <3>2, <3>3 DEF Own
        <3> QED
          BY <3>2, <3>4 DEF Kind
    <2> QED
      BY <2>1, <2>2, <2>3
  <1>7. CASE WriteSpec(v)
    <2>1. \/ Goto(v, "link")
          \/ Release(v)
      BY <1>7 DEF WriteSpec, disk, host, net, hist
    <2>2. CASE Goto(v, "link")
        <3> DEFINE r == rec[v]
                   t == [task[v] EXCEPT !.at = "link"]
                   u == unit[v]
        <3>1. /\ rec' = [rec EXCEPT ![v] = r] /\ task' = [task EXCEPT ![v] = t]
              /\ unit' = [unit EXCEPT ![v] = u]
              /\ UNCHANGED <<tx, nft, netOk>>
          BY <1>7, <2>2 DEF WriteSpec, Release, Goto, At, Types, Exists, Tasks, Records, disk, host, net, hist
        <3>2. /\ r = NoRec \/ (r \in Records /\ rec[v] # NoRec /\ r.idx = rec[v].idx)
              /\ t \in Tasks \cup {Idle} /\ u \in BOOLEAN
              /\ isolated \subseteq isolated' /\ (r # NoRec /\ r.quar => r.gen \in isolated')
          BY <1>7, <2>2 DEF WriteSpec, Release, Goto, At, Types, Exists, QuarantineFollowsGeneration,
             Tasks, Records, Steps, disk, host, net, hist
        <3>3. Sound(r, t, u) /\ (r # NoRec => (FreshTask(t) <=> FreshTask(task[v])))
              /\ (WaitsForNet(task[v]) => t = task[v])
          BY <1>7, <2>2, <3>2, AbsentAssumption
             DEF WriteSpec, Release, Goto, At, Types, Exists, Progress, Sound, FreshTask, WaitsForNet,
                 Tasks, Records, Steps, disk, host, net, hist
        <3> HIDE DEF r, t, u
        <3>4. Own(v, r, t, u)
          BY <3>1, <3>2, <3>3 DEF Own
        <3> QED
          BY <3>2, <3>4 DEF Kind
    <2>3. CASE Release(v)
        <3> DEFINE r == rec[v]
                   t == Idle
                   u == unit[v]
        <3>1. /\ rec' = [rec EXCEPT ![v] = r] /\ task' = [task EXCEPT ![v] = t]
              /\ unit' = [unit EXCEPT ![v] = u]
              /\ UNCHANGED <<tx, nft, netOk>>
          BY <1>7, <2>3 DEF WriteSpec, Release, Goto, At, Types, Exists, Tasks, Records, disk, host, net, hist
        <3>2. /\ r = NoRec \/ (r \in Records /\ rec[v] # NoRec /\ r.idx = rec[v].idx)
              /\ t \in Tasks \cup {Idle} /\ u \in BOOLEAN
              /\ isolated \subseteq isolated' /\ (r # NoRec /\ r.quar => r.gen \in isolated')
          BY <1>7, <2>3 DEF WriteSpec, Release, Goto, At, Types, Exists, QuarantineFollowsGeneration,
             Tasks, Records, Steps, disk, host, net, hist
        <3>3. Sound(r, t, u) /\ (r # NoRec => (FreshTask(t) <=> FreshTask(task[v])))
              /\ (WaitsForNet(task[v]) => t = task[v])
          BY <1>7, <2>3, <3>2, AbsentAssumption
             DEF WriteSpec, Release, Goto, At, Types, Exists, Progress, Sound, FreshTask, WaitsForNet,
                 Tasks, Records, Steps, disk, host, net, hist
        <3> HIDE DEF r, t, u
        <3>4. Own(v, r, t, u)
          BY <3>1, <3>2, <3>3 DEF Own
        <3> QED
          BY <3>2, <3>4 DEF Kind
    <2> QED
      BY <2>1, <2>2, <2>3
  <1>8. CASE SetLink(v)
      <2> DEFINE r == rec[v]
                 t == Idle
                 u == unit[v]
      <2>1. /\ rec' = [rec EXCEPT ![v] = r] /\ task' = [task EXCEPT ![v] = t]
            /\ unit' = [unit EXCEPT ![v] = u]
            /\ UNCHANGED <<tx, nft, netOk>>
        BY <1>8 DEF SetLink, Release, At, Types, Exists, Tasks, Records, disk, host, net, hist
      <2>2. /\ r = NoRec \/ (r \in Records /\ rec[v] # NoRec /\ r.idx = rec[v].idx)
            /\ t \in Tasks \cup {Idle} /\ u \in BOOLEAN
            /\ isolated \subseteq isolated' /\ (r # NoRec /\ r.quar => r.gen \in isolated')
        BY <1>8 DEF SetLink, Release, At, Types, Exists, QuarantineFollowsGeneration,
           Tasks, Records, Steps, disk, host, net, hist
      <2>3. Sound(r, t, u) /\ (r # NoRec => (FreshTask(t) <=> FreshTask(task[v])))
            /\ (WaitsForNet(task[v]) => t = task[v])
        BY Zenon, <1>8, <2>2, AbsentAssumption
           DEF SetLink, Release, At, Types, Exists, Progress, Sound, FreshTask, WaitsForNet,
               Tasks, Records, Steps, disk, host, net, hist
      <2> HIDE DEF r, t, u
      <2>4. Own(v, r, t, u)
        BY <2>1, <2>2, <2>3 DEF Own
      <2> QED
        BY <2>2, <2>4 DEF Kind
  <1>9. CASE AutoStart(v)
    <2>1. \/ task[v] = Idle /\ Start(v) /\ task' = [task EXCEPT ![v] = [op |-> "start", at |-> "check", run |-> FALSE]]
          \/ UNCHANGED <<rec, task, unit, tx, nft, netOk, isolated>>
      BY Zenon, <1>9 DEF AutoStart, disk, host, net, hist
    <2>2. CASE task[v] = Idle /\ Start(v) /\ task' = [task EXCEPT ![v] = [op |-> "start", at |-> "check", run |-> FALSE]]
        <3> DEFINE r == [rec[v] EXCEPT !.want = "run"]
                   t == [op |-> "start", at |-> "check", run |-> FALSE]
                   u == unit[v]
        <3>1. /\ rec' = [rec EXCEPT ![v] = r] /\ task' = [task EXCEPT ![v] = t]
              /\ unit' = [unit EXCEPT ![v] = u]
              /\ UNCHANGED <<tx, nft, netOk>>
          BY <1>9, <2>2 DEF AutoStart, Start, SetDesired, At, Types, Exists, Tasks, Records, disk, host, net, hist
        <3>2. /\ r = NoRec \/ (r \in Records /\ rec[v] # NoRec /\ r.idx = rec[v].idx)
              /\ t \in Tasks \cup {Idle} /\ u \in BOOLEAN
              /\ isolated \subseteq isolated' /\ (r # NoRec /\ r.quar => r.gen \in isolated')
          BY <1>9, <2>2 DEF AutoStart, Start, SetDesired, At, Types, Exists, QuarantineFollowsGeneration,
             Tasks, Records, Steps, disk, host, net, hist
        <3>3. Sound(r, t, u) /\ (r # NoRec => (FreshTask(t) <=> FreshTask(task[v])))
              /\ (WaitsForNet(task[v]) => t = task[v])
          BY Zenon, <1>9, <2>2, <3>2, AbsentAssumption
             DEF AutoStart, Start, SetDesired, At, Types, Exists, Progress, Sound, FreshTask, WaitsForNet,
                 Tasks, Records, Steps, disk, host, net, hist
        <3> HIDE DEF r, t, u
        <3>4. Own(v, r, t, u)
          BY <3>1, <3>2, <3>3 DEF Own
        <3> QED
          BY <3>2, <3>4 DEF Kind
    <2>3. CASE UNCHANGED <<rec, task, unit, tx, nft, netOk, isolated>>
      BY <2>3 DEF Kind, Taken
    <2> QED
      BY <2>1, <2>2, <2>3
  <1>10. CASE HealLink(v)
    BY <1>10 DEF Kind, Taken, HealLink, disk, host, net, hist
  <1>11. CASE GuestReboot(v)
    BY <1>11 DEF Kind, Taken, GuestReboot, disk, host, net, hist
  <1>12. CASE GuestHalt(v)
      <2> DEFINE r == rec[v]
                 t == task[v]
                 u == FALSE
      <2>1. /\ rec' = [rec EXCEPT ![v] = r] /\ task' = [task EXCEPT ![v] = t]
            /\ unit' = [unit EXCEPT ![v] = u]
            /\ UNCHANGED <<tx, nft, netOk>>
        BY <1>12 DEF GuestHalt, At, Types, Exists, Tasks, Records, disk, host, net, hist
      <2>2. /\ r = NoRec \/ (r \in Records /\ rec[v] # NoRec /\ r.idx = rec[v].idx)
            /\ t \in Tasks \cup {Idle} /\ u \in BOOLEAN
            /\ isolated \subseteq isolated' /\ (r # NoRec /\ r.quar => r.gen \in isolated')
        BY <1>12 DEF GuestHalt, At, Types, Exists, QuarantineFollowsGeneration,
           Tasks, Records, Steps, disk, host, net, hist
      <2>3. Sound(r, t, u) /\ (r # NoRec => (FreshTask(t) <=> FreshTask(task[v])))
            /\ (WaitsForNet(task[v]) => t = task[v])
        BY Zenon, <1>12, <2>2, AbsentAssumption
           DEF GuestHalt, At, Types, Exists, Progress, Sound, FreshTask, WaitsForNet,
               Tasks, Records, Steps, disk, host, net, hist
      <2> HIDE DEF r, t, u
      <2>4. Own(v, r, t, u)
        BY <2>1, <2>2, <2>3 DEF Own
      <2> QED
        BY <2>2, <2>4 DEF Kind
  <1> QED
    BY <1>1, <1>2, <1>3, <1>4, <1>5, <1>6, <1>7, <1>8, <1>9, <1>10, <1>11, <1>12
       DEF Local, World

\* The steps that take the forwards lock, and the list of autostart.
LEMMA TakingKinds ==
    ASSUME Types, Waiting \/ BeginHeal \/ Scan \/ (\E f \in Rules : DelForward(f))
    PROVE  Taken
PROOF
  <1>1. ASSUME NEW v \in Vms, BeginReconcile(v)
        PROVE  Taken
    BY Zenon, <1>1 DEF BeginReconcile, TakeForwards, NetUnchanged, Taken, At, WaitsForNet, Types,
                disk, host
  <1>2. ASSUME NEW v \in Vms, RemoveAll(v)
        PROVE  Taken
    <2>1. /\ {f \in fwds : f.vm # v} \in SUBSET Rules
          /\ UNCHANGED <<rec, task, unit, nft, netOk, isolated>>
          /\ \/ tx' = tx
             \/ TakeForwards("del", {f \in fwds : f.vm # v})
      BY <1>2 DEF RemoveAll, NetUnchanged, Types, disk, host
    <2> QED
      BY Zenon, <2>1, DistinctNames DEF TakeForwards, Taken
  <1>3. CASE BeginInit
    BY Zenon, <1>3, DistinctNames DEF BeginInit, TakeForwards, NetUnchanged, Taken, Types, disk, host
  <1>4. CASE Add
    <2>1. /\ fwds \cup adding \in SUBSET Rules
          /\ UNCHANGED <<rec, task, unit, nft, netOk, isolated>>
          /\ \/ tx' = tx
             \/ TakeForwards("add", fwds \cup adding)
      BY <1>4 DEF Add, NetUnchanged, Types, disk, host
    <2> QED
      BY <2>1, DistinctNames DEF TakeForwards, Taken
  <1>5. CASE BeginHeal
    BY Zenon, <1>5, DistinctNames DEF BeginHeal, TakeForwards, NetUnchanged, Taken, Types, disk, host
  <1>6. CASE Scan
    BY Zenon, <1>6 DEF Scan, Taken, disk, host, net, hist
  <1>7. ASSUME NEW f \in Rules, DelForward(f)
        PROVE  Taken
    <2>1. fwds \ {f} \in SUBSET Rules
      BY DEF Types
    <2> QED
      BY <2>1, <1>7, DistinctNames DEF DelForward, TakeForwards, Taken, disk, host
  <1> QED
    BY <1>1, <1>2, <1>3, <1>4, <1>5, <1>6, <1>7 DEF Waiting

\* Applying the ruleset.
LEMMA ApplyKind ==
    ASSUME Types, Progress, HolderWaits, Apply
    PROVE  Applied
PROOF
  <1>1. tx # NoTx /\ tx' = NoTx /\ UNCHANGED <<rec, unit, isolated>>
    BY DEF Apply, NetUnchanged, disk, host
  <1>2. netOk' = FALSE \/ nft' = Ruleset
    BY DEF Apply, InstalledInVain
  <1>3. tx \in Holders /\ tx.by \in Vms \cup {"heal", "init", "add", "del"}
    BY <1>1 DEF Types, Holders
  <1>4. Installed \/ GiveUp
    BY DEF Apply, InstalledInVain
  <1>5. CASE tx.by \notin Vms
    <2>1. task' = task
      BY Zenon, <1>3, <1>4, <1>5 DEF Installed, GiveUp
    <2> QED
      BY <2>1, <1>1, <1>2, <1>5 DEF Applied
  <1>6. CASE tx.by \in Vms
    <2> PICK v \in Vms : v = tx.by
      BY <1>6
    <2>1. /\ task[v] \in Tasks /\ task[v] # Idle
          /\ \/ task[v].at = "net" /\ rec[v] # NoRec
             \/ task[v].at = "renet"
          /\ ~unit[v]
      BY Zenon, <1>1, <1>6 DEF HolderWaits, At, Types, Progress, Sound
    <2>2. \/ task[v].at = "net" /\ Goto(v, "launch")
          \/ task[v].at = "renet" /\ Goto(v, "alloc")
          \/ Release(v)
      <3>1. CASE GiveUp
        BY Zenon, <3>1, <1>6, DistinctNames DEF GiveUp
      <3>2. CASE Installed
        <4>1. \/ At(v, "net") /\ Goto(v, "launch")
              \/ ~At(v, "net") /\ Goto(v, "alloc")
              \/ Release(v)
          BY Zenon, <3>2, <1>6, <2>1, DistinctNames DEF Installed, At
        <4> QED
          BY Zenon, <4>1, <2>1 DEF At
      <3> QED
        BY Zenon, <3>1, <3>2, <1>4
    <2>3. PICK t : /\ task' = [task EXCEPT ![v] = t]
                   /\ \/ task[v].at = "net" /\ t = [task[v] EXCEPT !.at = "launch"]
                      \/ task[v].at = "renet" /\ t = [task[v] EXCEPT !.at = "alloc"]
                      \/ t = Idle
      BY Zenon, <2>1, <2>2 DEF Goto, Release, Types
    <2>4. \/ t \in Tasks /\ t.at = "launch" /\ rec[v] # NoRec
          \/ t \in Tasks /\ t.at = "alloc"
          \/ t = Idle
      BY <2>1, <2>3 DEF Tasks, Steps
    <2>5. Sound(rec[v], t, unit[v])
      BY <2>1, <2>4 DEF Sound
    <2> QED
      BY Zenon, <1>1, <1>2, <1>6, <2>3, <2>4, <2>5 DEF Applied
  <1> QED
    BY <1>5, <1>6

LEMMA Kinds ==
    ASSUME IInv, [Next]_vars
    PROVE  Kind
PROOF
  <1>1. ASSUME NEW v \in Vms, Requests(v) \/ Local(v) \/ World(v)
        PROVE  Kind
    BY <1>1, RequestKinds, LocalKinds DEF IInv
  <1>2. CASE Waiting \/ BeginHeal \/ Scan \/ (\E f \in Rules : DelForward(f))
    BY <1>2, TakingKinds DEF IInv, Kind
  <1>3. CASE Apply
    BY <1>3, ApplyKind DEF IInv, Kind
  <1>4. CASE Crash
    BY <1>4 DEF Crash, Kind, Restarted, disk
  <1>5. CASE UNCHANGED vars
    BY Zenon, <1>5 DEF vars, Kind, Taken
  <1> QED
    BY <1>1, <1>2, <1>3, <1>4, <1>5 DEF Next

-----------------------------------------------------------------------------
(* The invariant is kept *)

\* What an instance's own step leaves of the others.
Owned(v, r, t, u) ==
    /\ \A w \in Vms : rec'[w] = IF w = v THEN r ELSE rec[w]
    /\ \A w \in Vms : task'[w] = IF w = v THEN t ELSE task[w]
    /\ \A w \in Vms : unit'[w] = IF w = v THEN u ELSE unit[w]

LEMMA OwnedValues ==
    ASSUME Types, NEW v \in Vms, NEW r, NEW t, NEW u, Own(v, r, t, u)
    PROVE  Owned(v, r, t, u)
PROOF
  BY DEF Own, Owned, Types

\* The records, operations and units.
LEMMA SoundNext ==
    ASSUME IInv, Kind
    PROVE  Progress'
PROOF
  <1>1. ASSUME NEW v \in Vms, NEW r, NEW t, NEW u, Own(v, r, t, u)
        PROVE  Progress'
    <2>1. Owned(v, r, t, u) /\ Sound(r, t, u)
      BY Zenon, <1>1, OwnedValues DEF IInv, Own
    <2>2. ASSUME NEW w \in Vms
          PROVE  Sound(rec'[w], task'[w], unit'[w])
      <3>1. CASE w = v
        BY Zenon, <2>1, <3>1 DEF Owned
      <3>2. CASE w # v
        <4>1. rec'[w] = rec[w] /\ task'[w] = task[w] /\ unit'[w] = unit[w]
          BY Zenon, <2>1, <3>2 DEF Owned
        <4> QED
          BY Zenon, <4>1 DEF IInv, Progress
      <3> QED
        BY <3>1, <3>2
    <2> QED
      BY <2>2 DEF Progress
  <1>2. CASE Taken
    BY Zenon, <1>2 DEF IInv, Progress, Taken, Sound
  <1>3. CASE Applied
    <2>1. CASE task' = task
      BY Zenon, <1>3, <2>1 DEF IInv, Progress, Applied, Sound
    <2>2. ASSUME NEW t, tx.by \in Vms, task' = [task EXCEPT ![tx.by] = t],
                 Sound(rec[tx.by], t, unit[tx.by])
          PROVE  Progress'
      <3>1. ASSUME NEW w \in Vms
            PROVE  Sound(rec'[w], task'[w], unit'[w])
        <4>1. rec'[w] = rec[w] /\ unit'[w] = unit[w]
          BY Zenon, <1>3 DEF Applied
        <4>2. task'[w] = IF w = tx.by THEN t ELSE task[w]
          BY <2>2 DEF IInv, Types
        <4>3. CASE w = tx.by
          BY Zenon, <4>1, <4>2, <4>3, <2>2
        <4>4. CASE w # tx.by
          BY Zenon, <4>1, <4>2, <4>4 DEF IInv, Progress
        <4> QED
          BY Zenon, <4>3, <4>4
      <3> QED
        BY Zenon, <3>1 DEF Progress
    <2> QED
      BY Zenon, <1>3, <2>1, <2>2 DEF Applied
  <1>4. CASE Restarted
    <2>1. ASSUME NEW w \in Vms
          PROVE  Sound(rec'[w], task'[w], unit'[w])
      <3>1. rec'[w] = rec[w] /\ task'[w] = Idle /\ (unit'[w] = unit[w] \/ ~unit'[w])
        BY <1>4 DEF Restarted
      <3> QED
        BY Zenon, <3>1 DEF IInv, Progress, Sound
    <2> QED
      BY <2>1 DEF Progress
  <1> QED
    BY <1>1, <1>2, <1>3, <1>4 DEF Kind

\* Slots stay distinct, because a new record takes a free one.
LEMMA SlotsNext ==
    ASSUME IInv, Kind
    PROVE  DistinctSlots'
PROOF
  <1>1. ASSUME NEW v \in Vms, NEW r, NEW t, NEW u, Own(v, r, t, u)
        PROVE  DistinctSlots'
    <2>1. \A w \in Vms : rec'[w] = IF w = v THEN r ELSE rec[w]
      BY ZenonT(30), <1>1, OwnedValues DEF IInv, Owned
    <2>2. \A w \in Vms : w # v /\ rec[w] # NoRec /\ r # NoRec => rec[w].idx # r.idx
      BY Zenon, <1>1 DEF Own, FreeIdxs, IInv, DistinctSlots, Exists
    <2>3. ASSUME NEW x \in Vms, NEW w \in Vms, x # w, rec'[x] # NoRec, rec'[w] # NoRec
          PROVE  rec'[x].idx # rec'[w].idx
      <3>1. CASE x = v
        BY Zenon, <2>1, <2>2, <2>3, <3>1
      <3>2. CASE w = v
        BY Zenon, <2>1, <2>2, <2>3, <3>2
      <3>3. CASE x # v /\ w # v
        BY Zenon, <2>1, <2>3, <3>3 DEF IInv, DistinctSlots, Exists
      <3> QED
        BY <3>1, <3>2, <3>3
    <2> QED
      BY <2>3 DEF DistinctSlots, Exists
  <1>2. CASE rec' = rec
    BY Zenon, <1>2 DEF IInv, DistinctSlots, Exists
  <1> QED
    BY Zenon, <1>1, <1>2 DEF Kind, Taken, Applied, Restarted

\* Quarantined generations were named by a request.
LEMMA QuarantineNext ==
    ASSUME IInv, Kind
    PROVE  QuarantineFollowsGeneration'
PROOF
  <1>1. ASSUME NEW v \in Vms, NEW r, NEW t, NEW u, Own(v, r, t, u)
        PROVE  QuarantineFollowsGeneration'
    <2>1. \A w \in Vms : rec'[w] = IF w = v THEN r ELSE rec[w]
      BY <1>1, OwnedValues DEF IInv, Owned
    <2>2. isolated \subseteq isolated' /\ (r # NoRec /\ r.quar => r.gen \in isolated')
      BY <1>1 DEF Own
    <2>3. ASSUME NEW w \in Vms, rec'[w] # NoRec, rec'[w].quar
          PROVE  rec'[w].gen \in isolated'
      <3>1. CASE w = v
        BY <2>1, <2>2, <2>3, <3>1
      <3>2. CASE w # v
        BY Zenon, <2>1, <2>2, <2>3, <3>2 DEF IInv, QuarantineFollowsGeneration, Exists
      <3> QED
        BY <3>1, <3>2
    <2> QED
      BY <2>3 DEF QuarantineFollowsGeneration, Exists
  <1>2. CASE rec' = rec /\ isolated' = isolated
    BY <1>2 DEF IInv, QuarantineFollowsGeneration, Exists
  <1> QED
    BY Zenon, <1>1, <1>2 DEF Kind, Taken, Applied, Restarted

\* Who waits for the ruleset to be applied goes on waiting.
LEMMA HolderNext ==
    ASSUME IInv, Kind
    PROVE  HolderWaits'
PROOF
  <1> SUFFICES ASSUME tx' # NoTx, tx'.by \in Vms
               PROVE  WaitsForNet(task'[tx'.by])
    BY Zenon DEF HolderWaits, At, WaitsForNet
  <1>1. tx # NoTx /\ tx.by \in Vms => WaitsForNet(task[tx.by])
    BY Zenon DEF IInv, HolderWaits, At, WaitsForNet
  <1>2. ASSUME NEW v \in Vms, NEW r, NEW t, NEW u, Own(v, r, t, u)
        PROVE  WaitsForNet(task'[tx'.by])
    <2>1. Owned(v, r, t, u)
      BY <1>2, OwnedValues DEF IInv
    <2>2. \A w \in Vms : task'[w] = IF w = v THEN t ELSE task[w]
      BY Zenon, <2>1 DEF Owned
    <2>3. tx' = tx /\ (WaitsForNet(task[v]) => t = task[v])
      BY Zenon, <1>2 DEF Own
    <2> QED
      BY Zenon, <1>1, <2>2, <2>3
  <1>3. CASE Taken
    BY <1>1, <1>3 DEF Taken
  <1> QED
    BY Zenon, <1>2, <1>3 DEF Kind, Applied, Restarted

\* The view of the records that is about to be applied.
LEMMA ViewNext ==
    ASSUME IInv, Kind
    PROVE  ViewReached'
PROOF
  <1> SUFFICES ASSUME tx' # NoTx, NEW x \in Vms, rec'[x] # NoRec,
                      ~FreshTask(task'[x]) \/ tx'.by = x,
                      NEW w \in Vms, tx'.view[w] = rec'[x].idx
               PROVE  w = x
    BY Zenon DEF ViewReached, Exists, Fresh, At, FreshTask
  <1>1. ASSUME tx # NoTx, rec[x] # NoRec, ~FreshTask(task[x]) \/ tx.by = x,
               tx.view[w] = rec[x].idx
        PROVE  w = x
    BY Zenon, <1>1 DEF IInv, ViewReached, Exists, Fresh, At, FreshTask
  <1>2. ASSUME NEW v \in Vms, NEW r, NEW t, NEW u, Own(v, r, t, u)
        PROVE  w = x
    <2>4. Owned(v, r, t, u) /\ tx' = tx
      BY Zenon, <1>2, OwnedValues DEF IInv, Own
    <2>1. /\ rec'[x] = IF x = v THEN r ELSE rec[x]
          /\ task'[x] = IF x = v THEN t ELSE task[x]
          /\ tx' = tx
      BY Zenon, <2>4 DEF Owned
    <2>2. CASE x # v
      BY Zenon, <1>1, <2>1, <2>2
    <2>3. CASE x = v
      <3>1. CASE /\ rec[v] # NoRec /\ r.idx = rec[v].idx
                 /\ FreshTask(t) <=> FreshTask(task[v])
        BY Zenon, <1>1, <2>1, <2>3, <3>1
      <3>2. CASE FreshTask(t) /\ ~(FreshTask(t) <=> FreshTask(task[v]))
        <4>1. tx.by = v /\ tx # NoTx
          BY Zenon, <2>1, <2>3, <3>2
        <4>2. WaitsForNet(task[v])
          BY Zenon, <4>1 DEF IInv, HolderWaits, At, WaitsForNet
        <4> QED
          BY Zenon, <4>2, <3>2, <1>2 DEF Own
      <3> QED
        BY Zenon, <3>1, <3>2, <1>2, <2>1, <2>3 DEF Own
    <2> QED
      BY Zenon, <2>2, <2>3
  <1>3. CASE Taken
    <2>1. CASE tx' = tx
      BY Zenon, <1>1, <1>3, <2>1 DEF Taken
    <2>2. CASE tx' # tx
      <3>1. tx'.view = View /\ rec' = rec
        BY <1>3, <2>2 DEF Taken
      <3>2. View[w] = IF rec[w] # NoRec THEN rec[w].idx ELSE NoRec
        BY DEF View, Exists
      <3>3. rec[x].idx \in Idxs /\ NoRec \notin Idxs
        BY <3>1, AbsentAssumption DEF IInv, Types, Records
      <3>4. rec[w] # NoRec /\ rec[w].idx = rec[x].idx
        BY Zenon, <3>1, <3>2, <3>3
      <3> QED
        BY <3>1, <3>4 DEF IInv, DistinctSlots, Exists
    <2> QED
      BY <2>1, <2>2
  <1> QED
    BY Zenon, <1>2, <1>3 DEF Kind, Applied, Restarted

\* The installed ruleset: an instance whose record may be younger is not launched
\* before a ruleset that was written after it.
LEMMA ReachedNext ==
    ASSUME IInv, Kind
    PROVE  Reached'
PROOF
  <1> SUFFICES ASSUME netOk', NEW x \in Vms, rec'[x] # NoRec, ~FreshTask(task'[x]),
                      NEW f \in nft', f.idx = rec'[x].idx
               PROVE  f.vm = x
    BY Zenon DEF Reached, Exists, Fresh, At, FreshTask
  <1>1. ASSUME netOk, f \in nft, rec[x] # NoRec, ~FreshTask(task[x]), f.idx = rec[x].idx
        PROVE  f.vm = x
    BY Zenon, <1>1 DEF IInv, Reached, Exists, Fresh, At, FreshTask
  <1>2. ASSUME NEW v \in Vms, NEW r, NEW t, NEW u, Own(v, r, t, u)
        PROVE  f.vm = x
    <2>1. Owned(v, r, t, u)
      BY Zenon, <1>2, OwnedValues DEF IInv
    <2>2. /\ rec'[x] = IF x = v THEN r ELSE rec[x]
          /\ task'[x] = IF x = v THEN t ELSE task[x]
      BY <2>1 DEF Owned
    <2>3. nft' = nft /\ netOk' = netOk
      BY Zenon, <1>2 DEF Own
    <2>4. CASE x # v
      BY Zenon, <1>1, <2>2, <2>3, <2>4
    <2>5. CASE x = v
      <3>1. rec[v] # NoRec /\ r.idx = rec[v].idx /\ ~FreshTask(task[v])
        BY Zenon, <1>2, <2>2, <2>5 DEF Own
      <3> QED
        BY Zenon, <1>1, <2>2, <2>3, <2>5, <3>1
    <2> QED
      BY Zenon, <2>4, <2>5
  <1>3. CASE Taken
    BY Zenon, <1>1, <1>3 DEF Taken
  <1>4. CASE Applied
    <2>1. tx # NoTx /\ tx \in Holders /\ rec' = rec /\ nft' = Ruleset
      BY Zenon, <1>4 DEF Applied, IInv, Types
    <2>2. PICK g \in tx.fwds : f = [port |-> g.port, vm |-> g.vm, idx |-> tx.view[g.vm]]
      BY Zenon, <2>1 DEF Ruleset, Resolve
    <2>3. g \in Rules
      BY Zenon, <2>1, <2>2 DEF Holders
    <2>4. f.vm \in Vms /\ tx.view[f.vm] = rec[x].idx
      BY Zenon, <2>1, <2>2, <2>3 DEF Rules
    <2>5. ~FreshTask(task[x]) \/ tx.by = x
      BY Zenon, <1>4 DEF Applied, IInv, Types
    <2> QED
      BY Zenon, <2>1, <2>4, <2>5 DEF IInv, ViewReached, Exists, Fresh, At, FreshTask
  <1> QED
    BY Zenon, <1>2, <1>3, <1>4 DEF Kind, Restarted

\* What the steps do to the forwards and the generations.
LEMMA CountsNext ==
    ASSUME [Next]_vars
    PROVE  /\ gens' = gens \/ gens' = gens + 1
           /\ \/ UNCHANGED <<fwds, saved>> /\ (adding' = adding \/ adding' = {})
              \/ Apply \/ Crash
              \/ \E p \in Ports, v \in Vms : BeginAdd(p, v)
PROOF
  <1> DEFINE Same == /\ gens' = gens \/ gens' = gens + 1
                     /\ UNCHANGED <<fwds, saved>> /\ (adding' = adding \/ adding' = {})
  <1>1. ASSUME NEW v \in Vms,
               \/ BeginCreate(v) \/ BeginDelete(v) \/ BeginStart(v) \/ BeginStop(v)
               \/ BeginRestart(v)
        PROVE  Same
    BY Zenon, <1>1 DEF BeginCreate, BeginDelete, BeginStart, BeginStop, BeginRestart, Start, net
  <1>2. ASSUME NEW v \in Vms, NEW g \in Gens, ControlRequest(v, g)
        PROVE  Same
    BY Zenon, <1>2 DEF ControlRequest, WatcherStop, BeginStop, Isolate, Unisolate, net
  <1>3. ASSUME NEW p \in Ports, NEW v \in Vms, BeginAdd(p, v)
        PROVE  gens' = gens
    BY Zenon, <1>3 DEF BeginAdd
  <1>4. ASSUME NEW v \in Vms,
               Halt(v) \/ Remove(v) \/ Alloc(v) \/ Provision(v) \/ Launch(v) \/ Check(v)
        PROVE  Same
    BY Zenon, <1>4 DEF Halt, Remove, Alloc, Provision, Launch, Check, net, hist
  <1>5. ASSUME NEW v \in Vms,
               WriteSpec(v) \/ SetLink(v) \/ AutoStart(v) \/ HealLink(v) \/ World(v)
        PROVE  Same
    BY Zenon, <1>5 DEF WriteSpec, SetLink, AutoStart, Start, HealLink, World, GuestReboot, GuestHalt,
                net, hist
  <1>6. ASSUME NEW f \in Rules, DelForward(f)
        PROVE  Same
    BY <1>6 DEF DelForward
  <1>7. CASE Waiting \/ BeginHeal \/ Scan
    <2>1. Same
      BY Zenon, <1>7 DEF Waiting, BeginReconcile, RemoveAll, BeginInit, Add, BeginHeal, Scan,
                  NetUnchanged, net, hist
    <2> QED
      BY <2>1
  <1>8. CASE Apply \/ Crash
    BY Zenon, <1>8 DEF Apply, Crash, NetUnchanged
  <1>9. CASE UNCHANGED vars
    BY Zenon, <1>9 DEF vars
  <1> QED
    BY Zenon, <1>1, <1>2, <1>3, <1>4, <1>5, <1>6, <1>7, <1>8, <1>9
       DEF Next, Requests, BeginSshForward, Local

\* The types of what the steps of Kind change, and of the rest.
LEMMA TypesNext ==
    ASSUME IInv, [Next]_vars
    PROVE  Types'
PROOF
  <1>1. Kind
    BY Kinds
  <1>2. /\ rec' \in [Vms -> Records \cup {NoRec}]
        /\ task' \in [Vms -> Tasks \cup {Idle}]
        /\ unit' \in [Vms -> BOOLEAN]
    <2>1. ASSUME NEW v \in Vms, NEW r, NEW t, NEW u, Own(v, r, t, u)
          PROVE  <1>2!1 /\ <1>2!2 /\ <1>2!3
      BY Zenon, <2>1 DEF Own, IInv, Types
    <2>2. CASE Taken
      BY Zenon, <2>2 DEF Taken, IInv, Types
    <2>3. CASE Applied
      BY Zenon, <2>3 DEF Applied, IInv, Types
    <2>4. CASE Restarted
      BY Zenon, <2>4 DEF Restarted, IInv, Types
    <2> QED
      BY Zenon, <1>1, <2>1, <2>2, <2>3, <2>4 DEF Kind
  <1>3. tx' = NoTx \/ tx' \in Holders
    <2>1. CASE tx' = tx \/ tx' = NoTx
      BY <2>1 DEF IInv, Types
    <2>2. ASSUME NEW by \in Vms \cup {"heal", "init", "add", "del"}, NEW rules \in SUBSET Rules,
                 tx' = [by |-> by, fwds |-> rules, view |-> View]
          PROVE  tx' \in Holders
      <3>1. View \in [Vms -> Idxs \cup {NoRec}]
        BY Zenon DEF View, Exists, IInv, Types, Records
      <3> QED
        BY Zenon, <2>2, <3>1 DEF Holders
    <2> QED
      BY ZenonT(30), <1>1, <2>1, <2>2 DEF Kind, Own, Taken, Applied, Restarted
  <1>4. gens' \in Nat
    BY CountsNext DEF IInv, Types
  <1>5. fwds' \subseteq Rules /\ saved' \subseteq Rules /\ adding' \subseteq Rules
    <2> USE DEF IInv, Types
    <2>1. CASE Apply
      <3>1. tx \in Holders /\ tx.fwds \subseteq Rules
        BY Zenon, <2>1 DEF Apply, Holders
      <3>2. /\ fwds' = fwds \/ fwds' = tx.fwds
            /\ saved' = saved \/ saved' = tx.fwds
            /\ adding' = adding \/ adding' = {}
        BY Zenon, <2>1, <3>1 DEF Apply, Installed, InstalledInVain, GiveUp, Holders
      <3> QED
        BY Zenon, <3>1, <3>2
    <2>2. CASE Crash
      BY Zenon, <2>2 DEF Crash
    <2>3. ASSUME NEW p \in Ports, NEW v \in Vms, BeginAdd(p, v)
          PROVE  fwds' \subseteq Rules /\ saved' \subseteq Rules /\ adding' \subseteq Rules
      BY <2>3 DEF BeginAdd, Rules
    <2>4. CASE UNCHANGED <<fwds, saved>> /\ (adding' = adding \/ adding' = {})
      BY Zenon, <2>4
    <2> HIDE DEF IInv, Types
    <2> QED
      BY <2>1, <2>2, <2>3, <2>4, CountsNext
  <1> QED
    BY <1>2, <1>3, <1>4, <1>5 DEF Types

LEMMA InvInit == ASSUME Init PROVE IInv
PROOF
  <1>1. Types
    BY Zenon DEF Init, Types
  <1>2. DistinctSlots /\ QuarantineFollowsGeneration /\ Reached
    BY Zenon DEF Init, DistinctSlots, QuarantineFollowsGeneration, Reached, Exists
  <1>3. Progress
    BY Zenon DEF Init, Progress, Sound
  <1>4. HolderWaits /\ ViewReached
    BY Zenon DEF Init, HolderWaits, ViewReached
  <1> QED
    BY <1>1, <1>2, <1>3, <1>4 DEF IInv

LEMMA Invariant == Spec => []IInv
PROOF
  <1>1. ASSUME IInv, [Next]_vars
        PROVE  IInv'
    <2>1. Kind
      BY <1>1, Kinds
    <2> QED
      BY Zenon, <1>1, <2>1, TypesNext, SlotsNext, QuarantineNext, SoundNext, HolderNext, ReachedNext,
         ViewNext
         DEF IInv
  <1> QED
    BY <1>1, InvInit, PTL DEF Spec

-----------------------------------------------------------------------------
(* Theorems *)

\* create_locked takes a slot under the alloc lock and writes the record that claims
\* it before it gives the lock back: no two records hold the same slot, whatever
\* fails and whoever else creates or deletes.
THEOREM SlotsDistinct == Spec => []DistinctSlots
PROOF
  <1>1. IInv => DistinctSlots
    BY DEF IInv
  <1> QED
    BY <1>1, Invariant, PTL

\* delete_locked removes the directory only once halt has stopped the unit, and
\* nothing is launched without a record: no unit is active for an instance nothing
\* manages.
THEOREM UnitsManaged == Spec => []ActiveHasRecord
PROOF
  <1>1. IInv => ActiveHasRecord
    BY Zenon DEF IInv, Progress, Sound, ActiveHasRecord, Exists
  <1> QED
    BY <1>1, Invariant, PTL

\* create_locked applies the ruleset after it has taken a slot and before it launches
\* the unit: a port never leads to an instance that has only inherited the slot of the
\* one it was forwarded to.
THEOREM ForwardsArrive == Spec => []ForwardsReachOwner
PROOF
  <1>1. IInv => ForwardsReachOwner
    <2> SUFFICES ASSUME IInv, netOk, NEW f \in nft, NEW v \in Vms, unit[v], Exists(v),
                        rec[v].idx = f.idx
                 PROVE  f.vm = v
      BY Zenon DEF ForwardsReachOwner
    <2>1. ~Fresh(v)
      BY Zenon DEF IInv, Progress, Sound, Fresh, At
    <2> QED
      BY Zenon, <2>1 DEF IInv, Reached
  <1> QED
    BY <1>1, Invariant, PTL

\* watcher_network_quarantine compares generations under lock_vm, and a new record
\* starts without a quarantine: only a generation some request named is quarantined.
THEOREM QuarantineNamed == Spec => []QuarantineFollowsGeneration
PROOF
  <1>1. IInv => QuarantineFollowsGeneration
    BY DEF IInv
  <1> QED
    BY <1>1, Invariant, PTL

-----------------------------------------------------------------------------
(* The number of port forwards *)

OfVm(rules, v) == {f \in rules : f.vm = v}

\* An add was checked against the limit before it waits for the forwards lock, and
\* meanwhile forwards are only removed; under the lock the port is checked.
Bounds ==
    /\ saved = fwds /\ IsFiniteSet(fwds)
    /\ ForwardsBounded
    /\ \/ adding = {}
       \/ \E a \in Rules :
             /\ adding = {a}
             /\ MaxForwards # 0 => Cardinality(OfVm(fwds, a.vm)) < MaxForwards
    /\ tx # NoTx /\ tx.by = "del" => tx.fwds \subseteq fwds
    /\ tx # NoTx /\ tx.by = "add" =>
          /\ adding # {} /\ tx.fwds = fwds \cup adding
          /\ \A f \in fwds, a \in adding : f.port # a.port

\* The steps as far as the forwards can tell.
Quiet ==
    /\ UNCHANGED <<fwds, saved>>
    /\ \/ UNCHANGED <<adding, tx>>
       \/ /\ tx = NoTx /\ tx' = NoTx /\ adding' = {}
       \/ /\ UNCHANGED adding
          /\ tx'.by \in Vms \cup {"heal", "init"}
       \/ /\ UNCHANGED adding
          /\ tx'.by = "del" /\ tx'.fwds \subseteq fwds
       \/ /\ UNCHANGED adding
          /\ tx'.by = "add" /\ tx'.fwds = fwds \cup adding
          /\ adding # {} /\ \A f \in fwds, a \in adding : f.port # a.port

LEMMA ForwardSteps ==
    ASSUME [Next]_vars
    PROVE  \/ Quiet \/ Apply \/ Crash
           \/ \E p \in Ports, v \in Vms : BeginAdd(p, v)
PROOF
  <1>1. ASSUME NEW v \in Vms,
               \/ BeginCreate(v) \/ BeginDelete(v) \/ BeginStart(v) \/ BeginStop(v)
               \/ BeginRestart(v)
        PROVE  Quiet
    BY Zenon, <1>1 DEF BeginCreate, BeginDelete, BeginStart, BeginStop, BeginRestart, Start, net, Quiet
  <1>2. ASSUME NEW v \in Vms, NEW g \in Gens, ControlRequest(v, g)
        PROVE  Quiet
    BY Zenon, <1>2 DEF ControlRequest, WatcherStop, BeginStop, Isolate, Unisolate, net, Quiet
  <1>3. ASSUME NEW v \in Vms,
               Halt(v) \/ Remove(v) \/ Alloc(v) \/ Provision(v) \/ Launch(v) \/ Check(v)
        PROVE  Quiet
    BY <1>3 DEF Halt, Remove, Alloc, Provision, Launch, Check, net, Quiet
  <1>4. ASSUME NEW v \in Vms,
               WriteSpec(v) \/ SetLink(v) \/ AutoStart(v) \/ HealLink(v) \/ World(v)
        PROVE  Quiet
    BY Zenon, <1>4 DEF WriteSpec, SetLink, AutoStart, Start, HealLink, World, GuestReboot, GuestHalt,
                net, Quiet
  <1>5. ASSUME NEW f \in Rules, DelForward(f)
        PROVE  Quiet
    BY Zenon, <1>5 DEF DelForward, TakeForwards, Quiet
  <1>6. ASSUME NEW v \in Vms, BeginReconcile(v)
        PROVE  Quiet
    BY Zenon, <1>6 DEF BeginReconcile, TakeForwards, Quiet
  <1>7. ASSUME NEW v \in Vms, RemoveAll(v)
        PROVE  Quiet
    BY <1>7 DEF RemoveAll, TakeForwards, Quiet
  <1>8. CASE BeginInit \/ BeginHeal
    BY <1>8 DEF BeginInit, BeginHeal, TakeForwards, Quiet
  <1>9. CASE Add
    BY <1>9 DEF Add, TakeForwards, Quiet
  <1>10. CASE Scan \/ UNCHANGED vars
    BY Zenon, <1>10 DEF Scan, vars, net, Quiet
  <1> QED
    BY Zenon, <1>1, <1>2, <1>3, <1>4, <1>5, <1>6, <1>7, <1>8, <1>9, <1>10
       DEF Next, Requests, BeginSshForward, Local, Waiting

\* A part of the forwards is within the bounds.
LEMMA FewerForwards ==
    ASSUME NEW R, NEW S, IsFiniteSet(R), S \subseteq R
    PROVE  /\ IsFiniteSet(S)
           /\ \A v : /\ IsFiniteSet(OfVm(R, v))
                     /\ Cardinality(OfVm(S, v)) <= Cardinality(OfVm(R, v))
                     /\ Cardinality(OfVm(S, v)) \in Nat /\ Cardinality(OfVm(R, v)) \in Nat
PROOF
  <1>1. IsFiniteSet(S)
    BY FS_Subset
  <1>2. ASSUME NEW v
        PROVE  /\ IsFiniteSet(OfVm(R, v))
               /\ Cardinality(OfVm(S, v)) <= Cardinality(OfVm(R, v))
               /\ Cardinality(OfVm(S, v)) \in Nat /\ Cardinality(OfVm(R, v)) \in Nat
    <2>1. OfVm(R, v) \subseteq R /\ OfVm(S, v) \subseteq OfVm(R, v)
      BY DEF OfVm
    <2>2. IsFiniteSet(OfVm(R, v))
      BY Zenon, <2>1, FS_Subset
    <2> QED
      BY Zenon, <2>1, <2>2, FS_Subset, FS_CardinalityType
  <1> QED
    BY Zenon, <1>1, <1>2

\* One more forward, of an instance that may have it and for a port no other has.
LEMMA OneMoreForward ==
    ASSUME NEW R, IsFiniteSet(R), NEW a,
           \A f, g \in R : f.port = g.port => f = g,
           \A f \in R : f.port # a.port
    PROVE  /\ IsFiniteSet(R \cup {a})
           /\ \A f, g \in R \cup {a} : f.port = g.port => f = g
           /\ \A v : v # a.vm => OfVm(R \cup {a}, v) = OfVm(R, v)
           /\ Cardinality(OfVm(R \cup {a}, a.vm)) = Cardinality(OfVm(R, a.vm)) + 1
PROOF
  <1>1. IsFiniteSet(R \cup {a})
    BY FS_AddElement
  <1>2. a \notin OfVm(R, a.vm) /\ OfVm(R \cup {a}, a.vm) = OfVm(R, a.vm) \cup {a}
    BY Zenon DEF OfVm
  <1>3. IsFiniteSet(OfVm(R, a.vm))
    BY Zenon, FewerForwards
  <1>4. Cardinality(OfVm(R, a.vm) \cup {a}) = Cardinality(OfVm(R, a.vm)) + 1
    BY Zenon, <1>2, <1>3, FS_AddElement
  <1>5. \A v : v # a.vm => OfVm(R \cup {a}, v) = OfVm(R, v)
    BY Zenon DEF OfVm
  <1>6. \A f, g \in R \cup {a} : f.port = g.port => f = g
    BY Zenon
  <1> QED
    BY Zenon, <1>1, <1>2, <1>4, <1>5, <1>6

LEMMA BoundsNext ==
    ASSUME Types, Bounds, [Next]_vars
    PROVE  Bounds'
PROOF
  <1>1. CASE Quiet
    <2>1. UNCHANGED <<fwds, saved>> /\ (adding' = adding \/ adding' = {})
      BY Zenon, <1>1 DEF Quiet
    <2>2. (saved = fwds /\ IsFiniteSet(fwds))' /\ ForwardsBounded'
      BY Zenon, <2>1 DEF Bounds, ForwardsBounded
    <2>3. \/ adding' = {}
          \/ \E a \in Rules :
                /\ adding' = {a}
                /\ MaxForwards # 0 => Cardinality(OfVm(fwds', a.vm)) < MaxForwards
      BY Zenon, <2>1 DEF Bounds
    <2>4. tx' # NoTx /\ tx'.by = "del" => tx'.fwds \subseteq fwds'
      BY Zenon, <1>1, <2>1, DistinctNames DEF Quiet, Bounds
    <2>5. tx' # NoTx /\ tx'.by = "add" =>
             /\ adding' # {} /\ tx'.fwds = fwds' \cup adding'
             /\ \A f \in fwds', a \in adding' : f.port # a.port
      BY Zenon, <1>1, <2>1, DistinctNames DEF Quiet, Bounds
    <2> QED
      BY Zenon, <2>2, <2>3, <2>4, <2>5 DEF Bounds, OfVm
  <1>2. CASE Apply
    <2>1. tx # NoTx /\ tx' = NoTx /\ tx \in Holders
          /\ tx.by \in Vms \cup {"heal", "init", "add", "del"}
      BY Zenon, <1>2 DEF Apply, Types, Holders
    <2>2. \/ fwds' = fwds /\ saved' = saved
          \/ tx.by \in {"add", "del"} /\ fwds' = tx.fwds /\ saved' = tx.fwds
      BY Zenon, <1>2, <2>1, DistinctNames DEF Apply, Installed, InstalledInVain
    <2>3. adding' = IF tx.by = "add" THEN {} ELSE adding
      BY Zenon, <1>2, <2>1, DistinctNames DEF Apply, Installed, InstalledInVain, GiveUp
    <2>4. CASE tx.by # "add"
      <3>1. fwds' \subseteq fwds /\ saved' = fwds' /\ adding' = adding
        BY Zenon, <2>1, <2>2, <2>3, <2>4 DEF Bounds
      <3>2. IsFiniteSet(fwds')
            /\ \A v : /\ Cardinality(OfVm(fwds', v)) <= Cardinality(OfVm(fwds, v))
                      /\ Cardinality(OfVm(fwds', v)) \in Nat
                      /\ Cardinality(OfVm(fwds, v)) \in Nat
        BY Zenon, <3>1, FewerForwards DEF Bounds
      <3>3. ForwardsBounded'
        <4>1. \A f, g \in fwds' : f.port = g.port => f = g
          BY Zenon, <3>1 DEF Bounds, ForwardsBounded
        <4>2. ASSUME MaxForwards # 0, NEW v \in Vms
              PROVE  Cardinality(OfVm(fwds', v)) <= MaxForwards
          <5>1. Cardinality(OfVm(fwds, v)) <= MaxForwards
            BY Zenon, <4>2 DEF Bounds, ForwardsBounded, OfVm
          <5> QED
            BY <5>1, <3>2, InstancesAssumption
        <4> QED
          BY Zenon, <4>1, <4>2 DEF ForwardsBounded, OfVm
      <3>4. \/ adding' = {}
            \/ \E a \in Rules :
                  /\ adding' = {a}
                  /\ MaxForwards # 0 => Cardinality(OfVm(fwds', a.vm)) < MaxForwards
        BY <3>1, <3>2, InstancesAssumption DEF Bounds
      <3> QED
        BY Zenon, <2>1, <3>1, <3>2, <3>3, <3>4 DEF Bounds, OfVm
    <2>5. CASE tx.by = "add"
      <3>1. adding' = {} /\ saved' = fwds'
        BY Zenon, <2>2, <2>3, <2>5 DEF Bounds
      <3>2. IsFiniteSet(fwds') /\ ForwardsBounded'
        <4>1. CASE fwds' = fwds
          BY Zenon, <4>1 DEF Bounds, ForwardsBounded
        <4>2. CASE fwds' = fwds \cup adding
          <5> PICK a \in Rules : /\ adding = {a}
                                 /\ MaxForwards # 0 =>
                                       Cardinality(OfVm(fwds, a.vm)) < MaxForwards
            BY Zenon, <2>1, <2>5 DEF Bounds
          <5>1. /\ IsFiniteSet(fwds)
                /\ \A f, g \in fwds : f.port = g.port => f = g
                /\ \A f \in fwds : f.port # a.port
            BY Zenon, <2>1, <2>5 DEF Bounds, ForwardsBounded
          <5>2. /\ IsFiniteSet(fwds')
                /\ \A f, g \in fwds' : f.port = g.port => f = g
                /\ \A v : v # a.vm => OfVm(fwds', v) = OfVm(fwds, v)
                /\ Cardinality(OfVm(fwds', a.vm)) = Cardinality(OfVm(fwds, a.vm)) + 1
            <6>1. fwds' = fwds \cup {a}
              BY Zenon, <4>2
            <6>2. /\ IsFiniteSet(fwds \cup {a})
                  /\ \A f, g \in fwds \cup {a} : f.port = g.port => f = g
                  /\ \A v : v # a.vm => OfVm(fwds \cup {a}, v) = OfVm(fwds, v)
                  /\ Cardinality(OfVm(fwds \cup {a}, a.vm)) = Cardinality(OfVm(fwds, a.vm)) + 1
              BY <5>1, OneMoreForward, Zenon
            <6> QED
              BY <6>1, <6>2, Zenon
          <5>3. Cardinality(OfVm(fwds, a.vm)) \in Nat
            BY Zenon, <5>1, FewerForwards
          <5>4. ASSUME MaxForwards # 0, NEW v \in Vms
                PROVE  Cardinality(OfVm(fwds', v)) <= MaxForwards
            <6>1. CASE v = a.vm
              BY <5>2, <5>3, <5>4, <6>1, InstancesAssumption
            <6>2. CASE v # a.vm
              BY Zenon, <5>2, <5>4, <6>2 DEF Bounds, ForwardsBounded, OfVm
            <6> QED
              BY Zenon, <6>1, <6>2
          <5> QED
            BY Zenon, <5>2, <5>4 DEF ForwardsBounded, OfVm
        <4> QED
          BY Zenon, <2>1, <2>2, <2>5, <4>1, <4>2 DEF Bounds
      <3> QED
        BY Zenon, <2>1, <3>1, <3>2 DEF Bounds
    <2> QED
      BY <2>4, <2>5
  <1>3. CASE Crash
    <2>1. fwds' = fwds /\ saved' = fwds /\ adding' = {} /\ tx' = NoTx
      BY Zenon, <1>3 DEF Crash, Bounds
    <2> QED
      BY Zenon, <2>1 DEF Bounds, ForwardsBounded
  <1>4. ASSUME NEW p \in Ports, NEW v \in Vms, BeginAdd(p, v)
        PROVE  Bounds'
    <2> DEFINE a == [port |-> p, vm |-> v]
    <2>1. UNCHANGED <<fwds, saved, tx>> /\ adding = {} /\ adding' = {a}
          /\ (MaxForwards # 0 => Cardinality(OfVm(fwds, v)) < MaxForwards)
      BY Zenon, <1>4 DEF BeginAdd, OfVm
    <2>2. a \in Rules /\ a.vm = v
      BY Zenon DEF Rules
    <2> HIDE DEF a
    <2>3. ForwardsBounded'
      BY Zenon, <2>1 DEF Bounds, ForwardsBounded
    <2> QED
      BY Zenon, <2>1, <2>2, <2>3 DEF Bounds, OfVm
  <1> QED
    BY Zenon, <1>1, <1>2, <1>3, <1>4, ForwardSteps

\* LimitedForwards::add serializes the adds, checks the limit and then, under the
\* forwards lock, the port: a host port is forwarded once and no instance exceeds
\* max_forwards, with removals, failing rulesets and restarts in between.
THEOREM ForwardsWithinLimit == Spec => []ForwardsBounded
PROOF
  <1>1. Init => Bounds
    BY FS_EmptySet, InstancesAssumption DEF Init, Bounds, ForwardsBounded
  <1>2. Bounds => ForwardsBounded
    BY Zenon DEF Bounds
  <1>3. IInv => Types
    BY DEF IInv
  <1> QED
    BY <1>1, <1>2, <1>3, BoundsNext, Invariant, PTL DEF Spec
=============================================================================
