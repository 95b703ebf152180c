----------------------------- MODULE HostProofs -----------------------------
(***************************************************************************)
(* Proofs about what the operator sets on a host.  ConnLimit, for any      *)
(* number of policies, instances and addresses, and any number of failures *)
(* and restarts: which limits hold for an instance.  Panel, for any number *)
(* of requests, sessions and bindings, any failures and restarts: what a   *)
(* setting has after concurrent changes, who stays signed in, and what the *)
(* rounds leave applied.                                                   *)
(***************************************************************************)
EXTENDS ConnLimit, Panel, TLAPS

-----------------------------------------------------------------------------
(* ConnLimit: the inductive invariant *)

\* What the holder of the manager's lock relies on: the policy it works on
\* exists, nobody else drops one it still has to look at, and what it has
\* resolved is a target.
Held ==
    /\ job = "none" => at = "none"
    /\ at \in {"next", "act"} => job = "reconcile"
    /\ at \in {"act", "remove", "install"} => cur \in Ids /\ mem[cur] # None
    /\ at = "remove" => job \in {"refresh", "release"}
    /\ job = "refresh" => seen # None
    /\ todo # {} => job = "reconcile"
    /\ \A i \in todo : mem[i] # None
    /\ at \in {"act", "install"} => cur \notin todo

\* Every instance has one unexpired limit at most, in memory and in the file a
\* restart would load.
OneLimitIn(state) ==
    \A i, k \in Ids : /\ i # k /\ state[i] # None /\ state[k] # None
                      /\ state[i].exp > now /\ state[k].exp > now
                      => <<state[i].vm, state[i].gen>> # <<state[k].vm, state[k].gen>>

Inv == TypeOK /\ Held

\* A rule for address a of policy i ought to be there.
ExpectedAt(i, a) ==
    /\ Active(i)
    /\ LET t == inst[mem[i].vm] IN t # None /\ t.gen = mem[i].gen /\ t.run /\ a \in t.ips

\* The rules of policy i are those that ought to be there, as far as the chain
\* can be used and no rule was lost track of.
Settled(i) ==
    /\ chain = "bare" \/ \A a \in Addrs : ExpectedAt(i, a) => <<i, a>> \in rules
    /\ lost \/ \A a \in Addrs : <<i, a>> \in rules => ExpectedAt(i, a)

\* An undisturbed round has settled the policies it has been through; the one it
\* works on is active and was looked up, and when its addresses have changed its
\* old rules are gone.
RoundInv ==
    calm /\ job = "reconcile" =>
        /\ \A i \in Ids \ todo : at = "next" \/ i # cur => Settled(i)
        /\ at \in {"act", "install"} => Active(cur) /\ seen = inst[mem[cur].vm]
        /\ at = "install" =>
              /\ seen # None /\ seen.gen = mem[cur].gen /\ seen.run /\ seen.ips = mem[cur].ips
              /\ lost \/ \A a \in Addrs : <<cur, a>> \notin rules

-----------------------------------------------------------------------------
(* ConnLimit: types *)

\* Counting failures keeps the count within its bound.
LEMMA FailedType ==
    ASSUME TypeOK, NEW n \in 0..2, Failed(n)
    PROVE  faults' \in 0..MaxFaults /\ calm' \in BOOLEAN
BY ConnLimitAssumption DEF Failed, TypeOK

\* A policy made from a request, and one with a field changed.
LEMMA PolicyType ==
    /\ \A q \in Leases : [vm |-> q.vm, gen |-> q.gen, ips |-> q.ips, exp |-> q.exp,
                          rm |-> FALSE] \in Policies
    /\ \A q \in Leases : [gen |-> q.gen, ips |-> q.ips, run |-> TRUE] \in Targets
    /\ \A p \in Policies : [p EXCEPT !.rm = TRUE] \in Policies
    /\ \A p \in Policies, t \in Targets : [p EXCEPT !.ips = t.ips] \in Policies
    /\ \A p \in Policies : [p EXCEPT !.ips = {}] \in Policies
BY Zenon DEF Leases, Policies, Targets

\* Removing rules removes rules.
LEMMA RemovedType ==
    ASSUME TypeOK, NEW i, NEW n \in 0..1, Removed(i, n)
    PROVE  lost' \in BOOLEAN /\ rules' \subseteq rules
BY DEF Removed, TypeOK

LEMMA RemovedInPartType ==
    ASSUME TypeOK, NEW i, RemovedInPart(i)
    PROVE  /\ lost' \in BOOLEAN /\ rules' \subseteq rules
           /\ UNCHANGED <<mem, disk>>
           /\ faults' \in 0..MaxFaults /\ calm' \in BOOLEAN
BY FailedType DEF RemovedInPart, Fault, TypeOK

\* The file has what memory has, or what it had.
LEMMA SavedType ==
    ASSUME TypeOK, mem' \in [Ids -> Policies \cup {None}], NEW n \in 0..1,
           Saved(n) \/ NotSaved(n)
    PROVE  /\ disk' \in [Ids -> Policies \cup {None}]
           /\ faults' \in 0..MaxFaults /\ calm' \in BOOLEAN
<1>1. Failed(n) \/ Failed(n + 1)
  BY DEF Saved, NotSaved
<1> QED
  BY <1>1, FailedType DEF Saved, NotSaved, TypeOK

\* The fields of the holder of the lock.
TaskType ==
    /\ job \in {"none", "apply", "refresh", "again", "release", "reconcile"}
    /\ at \in {"none", "next", "act", "remove", "install", "clean"}
    /\ cur \in Ids \cup {None} /\ seen \in Targets \cup {None}
    /\ todo \subseteq Ids

LEMMA TypeInit == Init => Inv
<1> SUFFICES ASSUME Init PROVE Inv
    OBVIOUS
<1> USE ConnLimitAssumption
<1>1. lost \in BOOLEAN /\ calm \in BOOLEAN
  BY Zenon DEF Init
<1>2. ASSUME NEW r \in [gen : {0}, ips : IpSets, run : {TRUE}]
      PROVE  r \in Targets
  <2>1. r.gen = 0 /\ r.ips \in SUBSET Addrs /\ r.run = TRUE
    BY Zenon
  <2>2. r = [gen |-> r.gen, ips |-> r.ips, run |-> r.run] /\ r.run \in BOOLEAN
    BY Zenon, <2>1
  <2> QED
    BY <2>1, <2>2 DEF Targets, Gens
<1>3. inst \in [Vms -> Targets \cup {None}]
  BY Zenon, <1>2 DEF Init
<1>4. TypeOK
  BY <1>1, <1>3 DEF Init, TypeOK
<1> QED
  BY <1>4 DEF Init, Inv, Held

LEMMA RequestType ==
    ASSUME Inv, NEW i \in Ids, NEW v \in Vms, NEW e \in 1..MaxTime, Request(i, v, e)
    PROVE  Inv'
BY ConnLimitAssumption DEF Request, Inv, TypeOK, Held, Targets, Leases, world, task

LEMMA ApplyType ==
    ASSUME Inv, NEW i \in Ids, Apply(i)
    PROVE  Inv'
<1> USE DEF Inv
<1>1. faults' \in 0..MaxFaults /\ calm' \in BOOLEAN
  <2>1. Failed(0) \/ Failed(1)
    BY DEF Apply, Renew, Enter, Fine, Saved, NotSaved
  <2> QED
    BY <2>1, FailedType
<1>2. asked[i] \in Leases
  BY DEF Apply, TypeOK
<1>3. CASE Renew(i, asked[i])
  <2>1. TypeOK'
    BY <1>1, <1>2, <1>3, PolicyType DEF Apply, Renew, Begin, TypeOK, world, task
  <2>2. Held'
    BY <1>2, <1>3, PolicyType, NoneAssumption DEF Apply, Renew, Begin, TypeOK, Held, task
  <2> QED
    BY <2>1, <2>2
<1>4. CASE Enter(i, asked[i])
  <2>1. mem' \in [Ids -> Policies \cup {None}]
    BY <1>2, <1>4, PolicyType DEF Enter, TypeOK
  <2>2. disk' \in [Ids -> Policies \cup {None}]
    BY <2>1, <1>4 DEF Enter, TypeOK, Saved, NotSaved
  <2>3. TypeOK'
    BY Zenon, <1>1, <1>4, <2>1, <2>2 DEF Apply, Enter, Begin, TypeOK, world, task
  <2>4. \A k \in Ids : mem[k] # None => mem'[k] # None
    BY <1>2, <1>4, PolicyType, NoneAssumption DEF Enter, TypeOK
  <2>5. job' = "apply" => mem'[i] # None
    BY <1>2, <1>4, PolicyType, NoneAssumption DEF Apply, Enter, TypeOK, Begin, task
  <2>6. Held'
    BY Zenon, <1>4, <2>4, <2>5 DEF Apply, Enter, Begin, TypeOK, Held, task
  <2> QED
    BY <2>3, <2>6
<1> QED
  BY <1>3, <1>4 DEF Apply

LEMMA RefreshType == ASSUME Inv, Refresh PROVE Inv'
<1> USE DEF Inv
<1>1. cur \in Ids /\ mem[cur] \in Policies /\ seen \in Targets
  BY DEF Refresh, TypeOK, Held
<1>2. CASE RemovedInPart(cur) /\ Done
  BY <1>2, RemovedInPartType DEF Refresh, Done, TypeOK, Held, world
<1>3. ASSUME NEW n \in 0..1, Removed(cur, n),
             mem' = [mem EXCEPT ![cur].ips = seen.ips],
             \/ Saved(n) /\ Goto("install")
             \/ NotSaved(n) /\ Done
      PROVE  Inv'
  <2>1. mem' \in [Ids -> Policies \cup {None}]
    BY <1>1, <1>3, PolicyType DEF TypeOK
  <2>2. mem'[cur] # None /\ todo = {}
    BY <1>1, <1>3, PolicyType, NoneAssumption DEF TypeOK, Held, Refresh
  <2>3. TypeOK'
    BY Zenon, <1>3, <2>1, SavedType, RemovedType DEF Refresh, TypeOK, Done, Goto, world
  <2>4. Held'
    BY <1>1, <1>3, <2>2 DEF Refresh, Held, Done, Goto
  <2> QED
    BY <2>3, <2>4
<1> QED
  BY <1>2, <1>3 DEF Refresh

LEMMA InstallType == ASSUME Inv, Install PROVE Inv'
<1> USE DEF Inv
<1>1. cur \in Ids /\ mem[cur] \in Policies
  BY DEF Install, TypeOK, Held
<1>2. faults' \in 0..MaxFaults /\ calm' \in BOOLEAN
  <2>1. Failed(0) \/ Failed(1)
    BY DEF Install, Fine, Fault
  <2> QED
    BY <2>1, FailedType
<1>3. UNCHANGED mem \/ mem' = [mem EXCEPT ![cur].rm = TRUE]
  BY DEF Install, PutDown
<1>4. mem' \in [Ids -> Policies \cup {None}]
  BY <1>1, <1>3, PolicyType DEF TypeOK
<1>5. disk' \in {disk, mem'}
  BY DEF Install
<1>6. rules' \subseteq rules \cup Own(cur) /\ chain' \in {"none", "ready", "bare"}
  BY DEF Install, InstalledInPart, EnsureChain, TypeOK
<1>7. Own(cur) \subseteq Ids \X Addrs
  BY <1>1 DEF Own, Policies
<1>8. TaskType'
  BY DEF Install, Done, NextPolicy, TypeOK, TaskType
<1>9. TypeOK'
  BY <1>2, <1>4, <1>5, <1>6, <1>7, <1>8 DEF Install, TypeOK, TaskType, world
<1>10. \A k \in Ids : mem[k] # None => mem'[k] # None
  BY <1>1, <1>3, PolicyType, NoneAssumption DEF TypeOK
<1>11. Held'
  BY <1>10 DEF Install, Done, NextPolicy, Held, TypeOK
<1> QED
  BY <1>9, <1>11

LEMMA ReleaseType == ASSUME Inv, NEW i \in Ids, Release(i) PROVE Inv'
<1> USE DEF Inv
<1>1. mem[i] \in Policies
  BY DEF Release, TypeOK
<1>2. mem' \in [Ids -> Policies \cup {None}]
  BY <1>1, PolicyType DEF Release, TypeOK
<1>3. \A k \in Ids : mem[k] # None => mem'[k] # None
  BY <1>1, PolicyType, NoneAssumption DEF Release, TypeOK
<1>4. /\ disk' \in [Ids -> Policies \cup {None}]
      /\ faults' \in 0..MaxFaults /\ calm' \in BOOLEAN
  BY <1>2, SavedType DEF Release
<1>5. TypeOK'
  BY <1>2, <1>4, ConnLimitAssumption DEF Release, TypeOK, Begin, world, task
<1>6. Held'
  BY <1>3 DEF Release, TypeOK, Held, Begin, task
<1> QED
  BY <1>5, <1>6

LEMMA WithdrawType == ASSUME Inv, Withdraw PROVE Inv'
<1> USE DEF Inv
<1>1. cur \in Ids /\ todo = {}
  BY DEF Withdraw, TypeOK, Held
<1>2. CASE RemovedInPart(cur) /\ Done
  BY Zenon, <1>2, RemovedInPartType DEF Withdraw, Done, TypeOK, Held, world
<1>3. ASSUME NEW n \in 0..1, Removed(cur, n),
             mem' = [mem EXCEPT ![cur] = None],
             \/ Saved(n) /\ Goto("clean")
             \/ NotSaved(n) /\ Done
      PROVE  Inv'
  <2>1. mem' \in [Ids -> Policies \cup {None}]
    BY <1>1, <1>3 DEF TypeOK
  <2>2. TypeOK'
    BY Zenon, <1>3, <2>1, SavedType, RemovedType DEF Withdraw, TypeOK, Done, Goto, world
  <2>3. Held'
    BY Zenon, <1>1, <1>3 DEF Withdraw, Held, Done, Goto
  <2> QED
    BY <2>2, <2>3
<1> QED
  BY <1>2, <1>3 DEF Withdraw

LEMMA CleanType == ASSUME Inv, Clean PROVE Inv'
<1> USE DEF Inv
<1>1. faults' \in 0..MaxFaults /\ calm' \in BOOLEAN
  <2>1. Failed(0) \/ Failed(1)
    BY DEF Clean, Fine, Fault
  <2> QED
    BY <2>1, FailedType
<1>2. rules' \subseteq rules /\ chain' \in {"none", "ready", "bare"}
  BY DEF Clean, TypeOK
<1> QED
  BY <1>1, <1>2 DEF Clean, Done, TypeOK, Held, world

LEMMA ReconcileType == ASSUME Inv, Reconcile PROVE Inv'
BY DEF Inv, Reconcile, TypeOK, Held, world

\* The loop of reconcile goes on with what is left of its list.
LEMMA SkipOneType ==
    ASSUME NEW i, NextPolicy(todo \ {i}) \/ NextPolicy(todo) \/ SkipOne(i)
    PROVE  /\ UNCHANGED job /\ at' = "next" /\ cur' = None /\ seen' = None
           /\ todo' \subseteq todo
           /\ SkipOne(i) => i \notin todo'
BY DEF SkipOne, NextPolicy

LEMMA ExpireType == ASSUME Inv, NEW i \in Ids, Expire(i) PROVE Inv'
<1> USE DEF Inv
<1>1. CASE RemovedInPart(i) /\ NextPolicy(todo \ {i})
  BY Zenon, <1>1, RemovedInPartType DEF Expire, NextPolicy, TypeOK, Held, world
<1>2. ASSUME NEW n \in 0..1, Removed(i, n),
             mem' = [mem EXCEPT ![i] = None],
             \/ Saved(n) /\ NextPolicy(todo \ {i})
             \/ NotSaved(n) /\ SkipOne(i)
      PROVE  Inv'
  <2>1. mem' \in [Ids -> Policies \cup {None}]
    BY <1>2 DEF TypeOK
  <2>2. /\ UNCHANGED job /\ at' = "next" /\ cur' = None /\ seen' = None
        /\ todo' \subseteq todo /\ i \notin todo'
    BY <1>2, SkipOneType DEF NextPolicy
  <2>3. TypeOK'
    BY Zenon, <1>2, <2>1, <2>2, SavedType, RemovedType DEF Expire, TypeOK, world
  <2>4. Held'
    BY SMTT(30), <1>2, <2>2 DEF Expire, TypeOK, Held
  <2> QED
    BY <2>3, <2>4
<1> QED
  BY <1>1, <1>2 DEF Expire

LEMMA ResolveType == ASSUME Inv, NEW i \in Ids, Resolve(i) PROVE Inv'
<1> USE DEF Inv
<1>1. faults' \in 0..MaxFaults /\ calm' \in BOOLEAN
  <2>1. Failed(0) \/ Failed(1)
    BY Zenon DEF Resolve, Fine, Fault
  <2> QED
    BY <2>1, FailedType
<1>2. mem[i] \in Policies
  BY DEF Resolve, TypeOK, Active
<1>3. inst[mem[i].vm] \in Targets \cup {None}
  BY <1>2 DEF TypeOK, Policies
<1>4. TypeOK'
  BY Zenon, <1>1, <1>3 DEF Resolve, NextPolicy, TypeOK, world
<1>5. Held'
  BY Zenon, <1>2, NoneAssumption DEF Resolve, NextPolicy, Held, TypeOK
<1> QED
  BY <1>4, <1>5

LEMMA RetireType == ASSUME Inv, Retire PROVE Inv'
<1> USE DEF Inv
<1>1. /\ cur \in Ids /\ mem[cur] \in Policies /\ job = "reconcile"
      /\ cur \notin todo
  BY DEF Retire, TypeOK, Held
<1>2. CASE RemovedInPart(cur) /\ NextPolicy(todo)
  BY <1>2, RemovedInPartType DEF Retire, NextPolicy, TypeOK, Held, world
<1>3. ASSUME NEW n \in 0..1, Removed(cur, n), Gone,
             mem' = [mem EXCEPT ![cur] = None],
             \/ Saved(n) /\ NextPolicy(todo)
             \/ NotSaved(n) /\ SkipOne(cur)
      PROVE  Inv'
  <2>1. mem' \in [Ids -> Policies \cup {None}]
    BY Zenon, <1>3 DEF TypeOK
  <2>2. /\ UNCHANGED job /\ at' = "next" /\ cur' = None /\ seen' = None
        /\ todo' \subseteq todo
    BY Zenon, <1>3, SkipOneType
  <2>3. TypeOK'
    BY Zenon, <1>3, <2>1, <2>2, SavedType, RemovedType DEF Retire, TypeOK, world
  <2>4. Held'
    BY Zenon, <1>1, <1>3, <2>2 DEF TypeOK, Held
  <2> QED
    BY <2>3, <2>4
<1>4. ASSUME NEW n \in 0..1, Removed(cur, n), Stopped,
             mem' = [mem EXCEPT ![cur].ips = {}],
             \/ mem[cur].ips = {} /\ UNCHANGED disk /\ Failed(n)
             \/ mem[cur].ips # {} /\ (Saved(n) \/ NotSaved(n)),
             NextPolicy(todo)
      PROVE  Inv'
  <2>1. mem' \in [Ids -> Policies \cup {None}]
    BY <1>1, <1>4, PolicyType DEF TypeOK
  <2>2. \A k \in Ids : mem[k] # None => mem'[k] # None
    BY <1>1, <1>4, PolicyType, NoneAssumption DEF TypeOK
  <2>3. /\ disk' \in [Ids -> Policies \cup {None}]
        /\ faults' \in 0..MaxFaults /\ calm' \in BOOLEAN
    BY <1>4, <2>1, SavedType, FailedType DEF TypeOK
  <2>4. TypeOK'
    BY <1>4, <2>1, <2>3, RemovedType DEF Retire, TypeOK, NextPolicy, world
  <2>5. Held'
    BY <1>1, <1>4, <2>2 DEF TypeOK, Held, NextPolicy
  <2> QED
    BY <2>4, <2>5
<1>5. ASSUME NEW n \in 0..1, Removed(cur, n), Moved,
             mem' = [mem EXCEPT ![cur].ips = seen.ips],
             \/ Saved(n) /\ Goto("install")
             \/ NotSaved(n) /\ NextPolicy(todo)
      PROVE  Inv'
  <2>0. seen \in Targets
    BY <1>5 DEF Moved, Gone, TypeOK
  <2>1. mem' \in [Ids -> Policies \cup {None}]
    BY <1>1, <1>5, <2>0, PolicyType DEF TypeOK
  <2>2. \A k \in Ids : mem[k] # None => mem'[k] # None
    BY <1>1, <1>5, <2>0, PolicyType, NoneAssumption DEF TypeOK
  <2>3. /\ disk' \in [Ids -> Policies \cup {None}]
        /\ faults' \in 0..MaxFaults /\ calm' \in BOOLEAN
    BY <1>5, <2>1, SavedType
  <2>4. TypeOK'
    BY Zenon, <1>5, <2>1, <2>3, RemovedType DEF Retire, TypeOK, NextPolicy, Goto, world
  <2>5. CASE Goto("install")
    <3>1. /\ at' = "install" /\ UNCHANGED <<job, cur, seen, todo>>
      BY <2>5 DEF Goto
    <3>2. Held'
      BY Zenon, <1>1, <2>2, <3>1, NoneAssumption DEF TypeOK, Held
    <3> QED
      BY <2>4, <3>2
  <2>6. CASE NextPolicy(todo)
    <3>1. Held'
      BY Zenon, <1>1, <2>2, <2>6 DEF TypeOK, Held, NextPolicy
    <3> QED
      BY <2>4, <3>1
  <2> QED
    BY <1>5, <2>5, <2>6
<1> QED
  BY <1>2, <1>3, <1>4, <1>5 DEF Retire

LEMMA WorldType ==
    ASSUME Inv, gens <= changes, Tick \/ Crash \/ \E v \in Vms : Deploy(v) \/ Change(v)
    PROVE  Inv'
<1> USE ConnLimitAssumption DEF Inv
<1>0. calm' \in BOOLEAN
  BY Zenon DEF Tick, Crash, Deploy, Change, Targeted
<1>1. CASE Tick
  BY <1>0, <1>1 DEF Tick, TypeOK, Held, task
<1>2. CASE Crash
  <2>1. lost' \in BOOLEAN
    BY <1>2, Zenon DEF Crash
  <2> QED
    BY <1>0, <1>2, <2>1 DEF Crash, Done, TypeOK, Held, world
<1>3. ASSUME NEW v \in Vms, NEW t \in Targets \cup {None}, Targeted(v, t),
             gens' \in {gens, gens + 1}
      PROVE  Inv'
  BY <1>0, <1>3 DEF Targeted, TypeOK, Held, task
<1>4. ASSUME NEW v \in Vms, Deploy(v)
      PROVE  Inv'
  <2>1. PICK s \in IpSets : /\ gens' = gens + 1
                            /\ Targeted(v, [gen |-> gens + 1, ips |-> s, run |-> TRUE])
    BY Zenon, <1>4 DEF Deploy
  <2>2. [gen |-> gens + 1, ips |-> s, run |-> TRUE] \in Targets
    BY <2>1 DEF Targeted, TypeOK, Held, Targets, Gens
  <2> QED
    BY <2>1, <2>2, <1>3
<1>5. ASSUME NEW v \in Vms, Change(v)
      PROVE  Inv'
  <2>1. inst[v] \in Targets
    BY <1>5 DEF Change, TypeOK
  <2>2. CASE Targeted(v, None)
    BY <1>5, <2>2, <1>3 DEF Change
  <2>3. CASE Targeted(v, [inst[v] EXCEPT !.run = ~@])
    <3>1. [inst[v] EXCEPT !.run = ~@] \in Targets
      BY Zenon, <2>1 DEF Targets
    <3> QED
      BY <1>5, <2>3, <3>1, <1>3 DEF Change
  <2>4. ASSUME NEW s \in IpSets, Targeted(v, [inst[v] EXCEPT !.ips = s])
        PROVE  Inv'
    <3>1. [inst[v] EXCEPT !.ips = s] \in Targets
      BY <2>1 DEF Targets
    <3> QED
      BY <1>5, <2>4, <3>1, <1>3 DEF Change
  <2> QED
    BY Zenon, <1>5, <2>2, <2>3, <2>4 DEF Change
<1> QED
  BY <1>1, <1>2, <1>4, <1>5

\* Every new generation was counted as a change.
LEMMA GensCounted ==
    ASSUME TypeOK, gens <= changes, [Next]_vars
    PROVE  gens' <= changes'
<1>1. changes' \in {changes, changes + 1}
  BY Zenon DEF Next, vars, Loop, Reconcile, Retire, Install, Refresh, Withdraw, Clean, Expire,
         Resolve, Apply, Release, Request, Tick, Deploy, Change, Targeted, Crash
<1>2. UNCHANGED gens \/ (gens' = gens + 1 /\ changes' = changes + 1)
  BY Zenon DEF Next, vars, Loop, Reconcile, Retire, Install, Refresh, Withdraw, Clean, Expire,
         Resolve, Apply, Release, Request, Tick, Deploy, Change, Targeted, Crash, world
<1> QED
  BY <1>1, <1>2 DEF TypeOK

\* The holder of the lock finds what it relies on.
Base == Inv /\ gens <= changes

LEMMA BaseInit == Init => Base
<1>1. Init => gens = 0 /\ changes = 0
  BY Zenon DEF Init
<1> QED
  BY <1>1, TypeInit DEF Base

LEMMA BaseNext == Base /\ [Next]_vars => Base'
<1> SUFFICES ASSUME Inv, gens <= changes, [Next]_vars
             PROVE  Inv'
    BY GensCounted DEF Base, Inv
<1>1. CASE UNCHANGED vars
  BY <1>1 DEF vars, Inv, TypeOK, Held
<1>2. CASE Loop
  BY <1>2, ReconcileType, RetireType, InstallType, RefreshType, WithdrawType, CleanType,
     ExpireType, ResolveType DEF Loop
<1> QED
  BY <1>1, <1>2, ApplyType, ReleaseType, RequestType, WorldType DEF Next

\* The bookkeeping of the model and of the lock's holder is right in every
\* reachable state.
THEOREM TypeCorrect == Spec => []TypeOK
<1>1. Base => TypeOK
  BY DEF Base, Inv
<1> QED
  BY <1>1, BaseInit, BaseNext, PTL DEF Spec

-----------------------------------------------------------------------------
(* ConnLimit: every rule belongs to a policy *)

\* remove_rules removes every rule of the policy, unless a check failed: the
\* policy lists the addresses of all of them.
LEMMA RemovedAll ==
    ASSUME TypeOK, RulesCovered, NEW i \in Ids, NEW n \in 0..1, Removed(i, n), ~lost'
    PROVE  /\ ~lost /\ n = 0 /\ rules' \subseteq rules
           /\ \A r \in rules' : r[1] # i
<1>0. ~lost /\ n # 1
  BY Zenon DEF Removed
<1>1. ~lost /\ n = 0 /\ rules' = rules \ (Own(i) \cap rules)
  BY <1>0 DEF Removed
<1>2. ASSUME NEW r \in rules, r[1] = i
      PROVE  r \in Own(i)
  <2>1. r = <<r[1], r[2]>> /\ r[2] \in mem[i].ips
    BY <1>1, <1>2 DEF TypeOK, RulesCovered
  <2> QED
    BY SMTT(30), <1>2, <2>1 DEF Own
<1> QED
  BY <1>1, <1>2

\* What remains of the rules after a step belongs to policies the step has not
\* touched.
LEMMA StillCovered ==
    ASSUME TypeOK, RulesCovered,
           ~lost' => ~lost /\ \A r \in rules' : r \in rules /\ mem'[r[1]] = mem[r[1]]
    PROVE  RulesCovered'
BY Zenon DEF RulesCovered

\* Rules are removed before the policy that lists them is dropped or changed.
LEMMA CoveredByRemoval ==
    ASSUME Inv, RulesCovered, Refresh \/ Withdraw \/ Retire \/ \E i \in Ids : Expire(i)
    PROVE  RulesCovered'
<1> USE DEF Inv
<1>1. ASSUME NEW i \in Ids, RemovedInPart(i)
      PROVE  RulesCovered'
  BY <1>1 DEF RemovedInPart, RulesCovered
<1>2. ASSUME NEW i \in Ids, NEW n \in 0..1, Removed(i, n), NEW p,
             mem' = [mem EXCEPT ![i] = p]
      PROVE  RulesCovered'
  <2>1. \A k \in Ids : k # i => mem'[k] = mem[k]
    BY <1>2 DEF TypeOK
  <2>2. ~lost' => ~lost /\ \A r \in rules' : r \in rules /\ r[1] \in Ids /\ r[1] # i
    BY <1>2, RemovedAll DEF TypeOK
  <2> QED
    BY <2>1, <2>2, StillCovered
<1>3. CASE Refresh
  <2>1. cur \in Ids
    BY <1>3 DEF Refresh, Held
  <2> QED
    BY <1>1, <1>2, <1>3, <2>1 DEF Refresh
<1>4. CASE Withdraw
  <2>1. cur \in Ids
    BY <1>4 DEF Withdraw, Held
  <2> QED
    BY Zenon, <1>1, <1>2, <1>4, <2>1 DEF Withdraw
<1>5. CASE Retire
  <2>1. cur \in Ids
    BY <1>5 DEF Retire, Held
  <2> QED
    BY Zenon, <1>1, <1>2, <1>5, <2>1 DEF Retire
<1>6. ASSUME NEW i \in Ids, Expire(i)
      PROVE  RulesCovered'
    BY <1>1, <1>2, <1>6 DEF Expire
<1> QED
  BY <1>3, <1>4, <1>5, <1>6

\* A policy lists its addresses before its rules are installed.
LEMMA CoveredByInstall ==
    ASSUME Inv, RulesCovered, Install
    PROVE  RulesCovered'
<1> USE DEF Inv
<1>1. cur \in Ids /\ mem[cur] \in Policies
  BY Zenon DEF Install, TypeOK, Held
<1>2. UNCHANGED mem \/ mem' = [mem EXCEPT ![cur].rm = TRUE]
  BY DEF Install, PutDown
<1>3. \A k \in Ids : mem[k] # None => mem'[k] # None /\ mem'[k].ips = mem[k].ips
  BY <1>1, <1>2, PolicyType, NoneAssumption DEF TypeOK, Policies
<1>4. rules' \subseteq rules \cup Own(cur) /\ UNCHANGED lost
  BY DEF Install, InstalledInPart, EnsureChain
<1>5. \A r \in Own(cur) : r[1] = cur /\ r[2] \in mem[cur].ips
  BY DEF Own
<1>6. \A r \in rules : r[1] \in Ids
  BY DEF TypeOK
<1> QED
  BY Zenon, <1>1, <1>3, <1>4, <1>5, <1>6, NoneAssumption DEF RulesCovered

\* The other steps install no rule and change no listed address.
LEMMA CoveredByOthers ==
    ASSUME Inv, RulesCovered,
           \/ Reconcile \/ Clean \/ Tick \/ Crash
           \/ \E i \in Ids : Apply(i) \/ Release(i) \/ Resolve(i)
           \/ \E i \in Ids, v \in Vms, e \in 1..MaxTime : Request(i, v, e)
           \/ \E v \in Vms : Deploy(v) \/ Change(v)
    PROVE  RulesCovered'
<1> USE DEF Inv
<1>1. CASE Crash
  BY ZenonT(30), <1>1 DEF Crash, RulesCovered
<1>2. ASSUME NEW i \in Ids, Release(i)
      PROVE  RulesCovered'
  <2>1. \A k \in Ids : mem[k] # None => mem'[k] # None /\ mem'[k].ips = mem[k].ips
    BY SMTT(30), <1>2, PolicyType, NoneAssumption DEF Release, TypeOK, Policies
  <2> QED
    BY <1>2, <2>1 DEF Release, RulesCovered, TypeOK
<1>3. ASSUME NEW i \in Ids, Apply(i)
      PROVE  RulesCovered'
  <2>1. \A k \in Ids : mem[k] # None => mem'[k] = mem[k]
    BY ZenonT(30), <1>3 DEF Apply, Renew, Enter, TypeOK
  <2> QED
    BY Zenon, <1>3, <2>1 DEF Apply, RulesCovered, TypeOK
<1>4. CASE Clean
  BY Zenon, <1>4 DEF Clean, RulesCovered
<1>5. CASE \/ Reconcile \/ Tick
           \/ \E i \in Ids : Resolve(i)
           \/ \E i \in Ids, v \in Vms, e \in 1..MaxTime : Request(i, v, e)
           \/ \E v \in Vms : Deploy(v) \/ Change(v)
  BY ZenonT(30), <1>5 DEF Reconcile, Tick, Resolve, Request, Deploy, Change, Targeted, RulesCovered
<1> QED
  BY <1>1, <1>2, <1>3, <1>4, <1>5

\* The two together are inductive.
LEMMA CoveredInductive ==
    /\ Init => Base /\ RulesCovered
    /\ Base /\ RulesCovered /\ [Next]_vars => Base' /\ RulesCovered'
<1>1. Init => Base /\ RulesCovered
  <2>1. Init => rules = {}
    BY Zenon DEF Init
  <2> QED
    BY <2>1, BaseInit DEF RulesCovered
<1>2. Base /\ RulesCovered /\ [Next]_vars => Base' /\ RulesCovered'
  <2> SUFFICES ASSUME Base, Inv, RulesCovered, [Next]_vars
               PROVE  RulesCovered'
      BY BaseNext DEF Base
  <2>1. CASE UNCHANGED vars
    BY Zenon, <2>1 DEF vars, RulesCovered
  <2>2. CASE Next
    BY <2>2, CoveredByRemoval, CoveredByInstall, CoveredByOthers DEF Next, Loop
  <2> QED
    BY <2>1, <2>2
<1> QED
  BY <1>1, <1>2

\* The manager never has a rule in the firewall that no policy accounts for,
\* whatever steps fail, are cut off or are overtaken, unless a restart lost an
\* unsaved change or a check failed.
THEOREM RulesAccounted == Spec => []RulesCovered
BY CoveredInductive, PTL DEF Spec

-----------------------------------------------------------------------------
(* ConnLimit: one limit for an instance *)

\* Policy i is as it was but for its addresses and remove_only, or is gone.
Kept(i) ==
    mem'[i] # None => /\ mem[i] # None /\ mem'[i].vm = mem[i].vm
                      /\ mem'[i].gen = mem[i].gen /\ mem'[i].exp = mem[i].exp

\* The file is left alone or given what memory has, and the clock moves forward.
LEMMA FileFollows ==
    ASSUME Inv, [Next]_vars
    PROVE  disk' \in {disk, mem'} /\ now' \in {now, now + 1}
<1>1. disk' \in {disk, mem'}
  BY Zenon DEF vars, Next, Loop, Reconcile, Retire, Install, Refresh, Withdraw, Clean, Expire,
     Resolve, Apply, Release, Request, Tick, Deploy, Change, Targeted, Crash, Renew, Enter,
     Saved, NotSaved, RemovedInPart, PutDown
<1>2. now' \in {now, now + 1}
  BY Zenon DEF vars, Next, Loop, Reconcile, Retire, Install, Refresh, Withdraw, Clean, Expire,
     Resolve, Apply, Release, Request, Tick, Deploy, Change, Targeted, Crash, world
<1> QED
  BY SMTT(30), <1>1, <1>2

\* Only a new policy and a restart change which instance a policy is about, or
\* until when.
LEMMA PoliciesKept ==
    ASSUME Inv, [Next]_vars
    PROVE  \/ \A k \in Ids : Kept(k)
           \/ mem' = disk
           \/ \E i \in Ids : Apply(i) /\ Enter(i, asked[i])
<1> USE DEF Inv
<1>1. ASSUME NEW i \in Ids, mem[i] \in Policies, NEW s,
             \/ UNCHANGED mem \/ mem' = [mem EXCEPT ![i] = None]
             \/ mem' = [mem EXCEPT ![i].ips = s] \/ mem' = [mem EXCEPT ![i].rm = TRUE]
      PROVE  \A k \in Ids : Kept(k)
  <2>1. mem[i] # None
    BY <1>1, NoneAssumption
  <2>2. \A k \in Ids : k # i => mem'[k] = mem[k]
    BY <1>1 DEF TypeOK
  <2>3. \/ mem'[i] = None \/ mem'[i] = mem[i]
        \/ mem'[i] = [mem[i] EXCEPT !.ips = s] \/ mem'[i] = [mem[i] EXCEPT !.rm = TRUE]
    BY Zenon, <1>1 DEF TypeOK
  <2> QED
    BY <1>1, <2>1, <2>2, <2>3 DEF Kept, Policies
<1>2. CASE UNCHANGED mem
  BY <1>2 DEF Kept
<1>3. CASE Install \/ Refresh \/ Withdraw \/ Retire
  <2>1. cur \in Ids /\ mem[cur] \in Policies
    BY Zenon, <1>3 DEF Install, Refresh, Withdraw, Retire, TypeOK, Held
  <2>2. CASE Install
    BY <1>1, <2>1, <2>2 DEF Install, PutDown
  <2>3. CASE Refresh
    BY <1>1, <2>1, <2>3 DEF Refresh, RemovedInPart
  <2>4. CASE Withdraw
    BY <1>1, <2>1, <2>4 DEF Withdraw, RemovedInPart
  <2>5. CASE Retire
    BY <1>1, <2>1, <2>5 DEF Retire, RemovedInPart
  <2> QED
    BY <1>3, <2>2, <2>3, <2>4, <2>5
<1>4. ASSUME NEW i \in Ids, Expire(i) \/ Release(i)
      PROVE  \A k \in Ids : Kept(k)
  <2>1. mem[i] \in Policies
    BY <1>4 DEF Expire, Release, TypeOK, Held
  <2> QED
    BY <1>1, <1>4, <2>1 DEF Expire, Release, RemovedInPart
<1>5. ASSUME NEW i \in Ids, Apply(i), ~Enter(i, asked[i])
      PROVE  UNCHANGED mem
  BY Zenon, <1>5 DEF Apply, Renew
<1>6. CASE Crash
  BY <1>6 DEF Crash
<1>7. CASE \/ Reconcile \/ Clean \/ Tick
           \/ \E i \in Ids : Resolve(i)
           \/ \E i \in Ids, v \in Vms, e \in 1..MaxTime : Request(i, v, e)
           \/ \E v \in Vms : Deploy(v) \/ Change(v)
  BY Zenon, <1>7, <1>2 DEF Reconcile, Clean, Tick, Resolve, Request, Deploy, Change, Targeted
<1> QED
  BY Zenon, <1>2, <1>3, <1>4, <1>5, <1>6, <1>7 DEF Next, Loop, vars

LEMMA OneLimitNext ==
    ASSUME Inv, Inv', OneLimitIn(mem), OneLimitIn(disk), [Next]_vars
    PROVE  OneLimitIn(mem)' /\ OneLimitIn(disk)'
<1> USE DEF Inv
<1>1. disk' \in {disk, mem'} /\ now' \in Nat /\ now \in Nat /\ now' >= now
  BY FileFollows, ConnLimitAssumption DEF TypeOK
<1>2. /\ \A k \in Ids : mem[k] # None => mem[k].exp \in Nat
      /\ \A k \in Ids : disk[k] # None => disk[k].exp \in Nat
  <2>1. /\ \A k \in Ids : mem[k] # None => mem[k].exp \in 1..MaxTime
        /\ \A k \in Ids : disk[k] # None => disk[k].exp \in 1..MaxTime
    BY Zenon DEF TypeOK, Policies
  <2>2. 1..MaxTime \subseteq Nat
    OBVIOUS
  <2> QED
    BY Zenon, <2>1, <2>2
<1>3. CASE \A k \in Ids : Kept(k)
  BY <1>1, <1>2, <1>3 DEF Kept, OneLimitIn
<1>4. CASE mem' = disk
  BY <1>1, <1>2, <1>4 DEF OneLimitIn
<1>5. ASSUME NEW i \in Ids, Apply(i), Enter(i, asked[i])
      PROVE  OneLimitIn(mem)' /\ OneLimitIn(disk)'
  <2>1. CASE UNCHANGED mem
    BY <1>1, <1>2, <2>1 DEF OneLimitIn
  <2>2. CASE /\ ~Clash(asked[i])
             /\ mem' = [mem EXCEPT ![i] = [vm |-> asked[i].vm, gen |-> asked[i].gen,
                                           ips |-> asked[i].ips, exp |-> asked[i].exp,
                                           rm |-> FALSE]]
    <3>1. /\ \A k \in Ids : k # i => mem'[k] = mem[k]
          /\ mem'[i].vm = asked[i].vm /\ mem'[i].gen = asked[i].gen
      BY Zenon, <2>2 DEF TypeOK
    <3>2. UNCHANGED now
      BY <1>5 DEF Apply, world
    <3>3. \A k \in Ids : /\ k # i /\ mem[k] # None /\ mem[k].exp > now
                         => <<mem[k].vm, mem[k].gen>> # <<asked[i].vm, asked[i].gen>>
      BY Zenon, <2>2 DEF Clash
    <3>4. OneLimitIn(mem)'
      BY <3>1, <3>2, <3>3 DEF OneLimitIn
    <3> QED
      BY Zenon, <1>1, <1>2, <3>2, <3>4 DEF OneLimitIn
  <2> QED
    BY Zenon, <1>5, <2>1, <2>2 DEF Enter
<1> QED
  BY Zenon, <1>3, <1>4, <1>5, PoliciesKept

\* An instance never has two unexpired limits, across requests, refreshes,
\* removals that are not finished and restarts.
THEOREM OneLimit == Spec => []OneLimitPerInstance
<1>1. Init => Base /\ OneLimitIn(mem) /\ OneLimitIn(disk)
  <2>1. Init => mem = [i \in Ids |-> None] /\ disk = mem
    BY Zenon DEF Init
  <2> QED
    BY <2>1, BaseInit DEF OneLimitIn
<1>2. Base /\ OneLimitIn(mem) /\ OneLimitIn(disk) /\ [Next]_vars
        => Base' /\ OneLimitIn(mem)' /\ OneLimitIn(disk)'
  BY BaseNext, OneLimitNext DEF Base
<1>3. OneLimitIn(mem) => OneLimitPerInstance
  BY Zenon DEF OneLimitIn, OneLimitPerInstance
<1> QED
  BY <1>1, <1>2, <1>3, PTL DEF Spec

-----------------------------------------------------------------------------
(* ConnLimit: what an undisturbed round leaves behind *)

\* A policy stays settled while nothing that concerns it changes.
LEMMA StaysSettled ==
    ASSUME NEW k \in Ids, Settled(k), UNCHANGED <<now, inst>>, mem'[k] = mem[k],
           UNCHANGED chain \/ chain # "bare", lost => lost',
           \A a \in Addrs : <<k, a>> \in rules' <=> <<k, a>> \in rules
    PROVE  Settled(k)'
BY Zenon DEF Settled, ExpectedAt, Active

\* remove_rules touches the rules of its policy only.
LEMMA RemovedOwn ==
    ASSUME NEW i, NEW n, Removed(i, n), NEW k, k # i, NEW a
    PROVE  <<k, a>> \in rules' <=> <<k, a>> \in rules
BY Zenon DEF Removed, Own

\* A policy that is not active and has no rules is settled.
LEMMA SettledWithout ==
    ASSUME NEW k \in Ids, \A a \in Addrs : ~ExpectedAt(k, a),
           ~lost => \A a \in Addrs : <<k, a>> \notin rules
    PROVE  Settled(k)
BY DEF Settled

\* The round starts with nothing settled but the policies there are not.
LEMMA RoundBegins ==
    ASSUME Inv, RulesCovered, Reconcile
    PROVE  RoundInv'
<1>1. ASSUME NEW k \in Ids, mem[k] = None
      PROVE  Settled(k)'
  <2>1. \A a \in Addrs : ~ExpectedAt(k, a)'
    BY Zenon, <1>1 DEF ExpectedAt, Active, Reconcile
  <2>2. ~lost => \A a \in Addrs : <<k, a>> \notin rules
    BY Zenon, <1>1 DEF RulesCovered
  <2> QED
    BY <2>1, <2>2 DEF Reconcile, Settled
<1> QED
  BY Zenon, <1>1 DEF RoundInv, Reconcile

\* A step after which the round is still undisturbed has not failed in any part.
LEMMA CalmStep ==
    /\ \A n : Failed(n) /\ calm' => calm /\ n = 0
    /\ \A n \in 0..1 : Saved(n) /\ calm' => calm /\ n = 0
    /\ \A n \in 0..1 : ~(NotSaved(n) /\ calm')
    /\ \A i : ~(RemovedInPart(i) /\ calm')
<1>1. \A n : Failed(n) /\ calm' => calm /\ n = 0
  BY Zenon DEF Failed
<1> QED
  BY <1>1 DEF Saved, NotSaved, RemovedInPart, Fault

\* A policy that is dropped is gone with its rules.
LEMMA DroppedSettled ==
    ASSUME Inv, RulesCovered, NEW i \in Ids, Removed(i, 0), mem'[i] = None
    PROVE  Settled(i)'
<1>1. \A a \in Addrs : ~ExpectedAt(i, a)'
  BY DEF ExpectedAt, Active
<1>2. ~lost' => \A a \in Addrs : <<i, a>> \notin rules'
  BY RemovedAll DEF Inv
<1> QED
  BY <1>1, <1>2 DEF Settled

\* Removal of the rules of one policy leaves the others settled.
LEMMA OthersSettled ==
    ASSUME Inv, NEW i \in Ids, NEW n \in 0..1, Removed(i, n), UNCHANGED <<chain, world>>,
           NEW k \in Ids, k # i, Settled(k), mem'[k] = mem[k]
    PROVE  Settled(k)'
<1>1. \A a \in Addrs : <<k, a>> \in rules' <=> <<k, a>> \in rules
  BY Zenon, RemovedOwn
<1>2. lost => lost'
  BY Zenon DEF Removed
<1> QED
  BY Zenon, <1>1, <1>2, StaysSettled DEF world

LEMMA RoundExpires ==
    ASSUME Inv, RulesCovered, RoundInv, NEW i \in Ids, Expire(i), calm'
    PROVE  RoundInv'
<1> USE DEF Inv
<1>1. PICK n \in 0..1 : /\ Removed(i, n)
                        /\ mem' = [mem EXCEPT ![i] = None]
                        /\ Saved(n) /\ NextPolicy(todo \ {i})
  BY Zenon, CalmStep DEF Expire
<1>2. n = 0 /\ calm /\ job = "reconcile" /\ at = "next" /\ UNCHANGED <<chain, world>>
  BY Zenon, <1>1, CalmStep DEF Expire
<1>3. mem'[i] = None /\ \A k \in Ids : k # i => mem'[k] = mem[k]
  BY Zenon, <1>1 DEF TypeOK
<1>4. Settled(i)'
  BY SMTT(30), <1>1, <1>2, <1>3, DroppedSettled
<1>5. \A k \in Ids \ todo : k # i => Settled(k)'
  BY Zenon, <1>1, <1>2, <1>3, OthersSettled DEF RoundInv
<1> QED
  BY Zenon, <1>1, <1>4, <1>5 DEF RoundInv, NextPolicy

\* The target is resolved.
LEMMA RoundResolves ==
    ASSUME Inv, RoundInv, NEW i \in Ids, Resolve(i), calm'
    PROVE  RoundInv'
<1>1. /\ at' = "act" /\ cur' = i /\ seen' = inst[mem[i].vm] /\ todo' = todo \ {i}
      /\ calm /\ job = "reconcile" /\ at = "next" /\ Active(i)
      /\ UNCHANGED <<job, mem, rules, chain, now, inst, lost>>
  BY CalmStep DEF Resolve, Fine, Fault, world
<1>2. Active(i)'
  BY Zenon, <1>1 DEF Active
<1>3. \A k \in Ids \ todo : Settled(k)'
  BY Zenon, <1>1, StaysSettled DEF RoundInv
<1> QED
  BY Zenon, <1>1, <1>2, <1>3 DEF RoundInv

\* A policy whose instance is gone is dropped; one whose instance is stopped has
\* no rules; one that has moved has none yet.
LEMMA RoundRetires ==
    ASSUME Inv, RulesCovered, RoundInv, Retire, calm'
    PROVE  RoundInv'
<1> USE DEF Inv
<1>0. PICK c : c = cur
  OBVIOUS
<1>1. c \in Ids /\ mem[c] \in Policies /\ job = "reconcile"
  BY <1>0 DEF Retire, TypeOK, Held
<1>2. PICK n \in 0..1 :
          /\ Removed(c, n)
          /\ \/ Gone /\ mem' = [mem EXCEPT ![c] = None] /\ Saved(n) /\ NextPolicy(todo)
             \/ /\ Stopped /\ mem' = [mem EXCEPT ![c].ips = {}]
                /\ Failed(n) /\ NextPolicy(todo)
             \/ /\ Moved /\ mem' = [mem EXCEPT ![c].ips = seen.ips]
                /\ Saved(n) /\ Goto("install")
  BY <1>0, CalmStep DEF Retire, Saved
<1>3. n = 0 /\ calm /\ UNCHANGED <<chain, world>> /\ at = "act"
  BY <1>2, CalmStep DEF Retire
<1>4. Active(c) /\ seen = inst[mem[c].vm]
  BY Zenon, <1>0, <1>1, <1>3 DEF RoundInv
<1>5. \A k \in Ids : k # c => mem'[k] = mem[k]
  BY <1>2 DEF TypeOK
<1>6. \A k \in Ids \ todo : k # c => Settled(k)'
  BY <1>0, <1>1, <1>2, <1>3, <1>5, OthersSettled DEF RoundInv
<1>7. ~lost' => \A a \in Addrs : <<c, a>> \notin rules'
  BY SMTT(30), <1>1, <1>2, <1>3, RemovedAll
<1>8. CASE Gone /\ mem' = [mem EXCEPT ![c] = None] /\ NextPolicy(todo)
  <2>1. Settled(c)'
    BY <1>1, <1>2, <1>3, <1>8, DroppedSettled DEF TypeOK
  <2> QED
    BY Zenon, <1>6, <1>8, <2>1 DEF RoundInv, NextPolicy
<1>9. CASE Stopped /\ mem' = [mem EXCEPT ![c].ips = {}] /\ NextPolicy(todo)
  <2>1. mem'[c].vm = mem[c].vm
    BY <1>1, <1>9 DEF TypeOK, Policies
  <2>2. seen = inst'[mem'[c].vm] /\ seen \in Targets /\ ~(seen.run /\ seen.ips # {})
    BY Zenon, <1>3, <1>4, <1>9, <2>1 DEF Stopped, Gone, world, TypeOK
  <2>3. \A a \in Addrs : ~ExpectedAt(c, a)'
    BY Zenon, <2>2 DEF ExpectedAt
  <2>4. Settled(c)'
    BY SMTT(30), <1>7, <2>3 DEF Settled
  <2> QED
    BY <1>6, <1>9, <2>4 DEF RoundInv, NextPolicy
<1>10. CASE Moved /\ mem' = [mem EXCEPT ![c].ips = seen.ips] /\ Goto("install")
  <2>1. mem'[c] = [mem[c] EXCEPT !.ips = seen.ips]
    BY <1>1, <1>10 DEF TypeOK
  <2>2. /\ mem'[c].vm = mem[c].vm /\ mem'[c].gen = mem[c].gen /\ mem'[c].exp = mem[c].exp
        /\ mem'[c].rm = mem[c].rm /\ mem'[c].ips = seen.ips
    BY <1>1, <2>1 DEF Policies
  <2>3. seen \in Targets /\ mem'[c] # None
    BY <1>1, <1>10, <2>1, PolicyType, NoneAssumption DEF Moved, Gone, TypeOK
  <2>4. cur' = c /\ seen' = seen /\ todo' = todo /\ at' = "install"
    BY SMTT(30), <1>0, <1>10 DEF Goto
  <2>5. Active(c)' /\ seen = inst'[mem'[c].vm]
    BY Zenon, <1>3, <1>4, <2>2, <2>3 DEF Active, world
  <2>6. seen # None /\ seen.gen = mem'[c].gen /\ seen.run
    BY SMTT(30), <1>0, <1>10, <2>2 DEF Moved, Gone, Stopped
  <2> QED
    BY Zenon, <1>6, <1>7, <2>2, <2>4, <2>5, <2>6 DEF RoundInv
<1> QED
  BY <1>2, <1>8, <1>9, <1>10

\* The rules of a policy whose target is as its addresses say are installed.
LEMMA RoundInstalls ==
    ASSUME Inv, RulesCovered, RoundInv, Install, calm', job' = "reconcile"
    PROVE  RoundInv'
<1> USE DEF Inv
<1>0. PICK c : c = cur
  BY SMTT(30)
<1>1. c \in Ids /\ mem[c] \in Policies /\ job = "reconcile"
  BY Zenon, <1>0 DEF Install, TypeOK, Held, Done
<1>2. /\ calm /\ UNCHANGED <<mem, now, inst, lost>> /\ NextPolicy(todo)
      /\ \/ chain # "bare" /\ chain' = "ready" /\ rules' = rules \cup Own(c)
         \/ chain = "bare" /\ UNCHANGED <<chain, rules>>
  BY SMTT(30), <1>0, <1>1, CalmStep DEF Install, Fine, Fault, EnsureChain, PutDown, world
<1>3. /\ Active(c) /\ seen = inst[mem[c].vm]
      /\ seen # None /\ seen.gen = mem[c].gen /\ seen.run /\ seen.ips = mem[c].ips
  BY Zenon, <1>0, <1>1, <1>2 DEF RoundInv, Install, Same, Gone, Stopped, Moved
<1>4. \A a \in Addrs : ExpectedAt(c, a)' <=> a \in mem[c].ips
  BY Zenon, <1>2, <1>3 DEF ExpectedAt, Active
<1>5. \A a \in Addrs : <<c, a>> \in Own(c) <=> a \in mem[c].ips
  BY Zenon DEF Own
<1>6. ~lost => \A a \in Addrs : <<c, a>> \in rules' => a \in mem[c].ips
  BY <1>2, <1>5 DEF RulesCovered
<1>7. Settled(c)'
  BY Zenon, <1>2, <1>4, <1>5, <1>6 DEF Settled
<1>8. ASSUME NEW k \in Ids \ todo, k # c
      PROVE  Settled(k)'
  <2>1. Settled(k)
    BY Zenon, <1>0, <1>1, <1>2, <1>8 DEF RoundInv
  <2>2. \A a \in Addrs : <<k, a>> \in rules' <=> <<k, a>> \in rules
    BY <1>2, <1>8 DEF Own
  <2> QED
    BY SMTT(30), <1>2, <2>1, <2>2, StaysSettled
<1> QED
  BY Zenon, <1>2, <1>7, <1>8 DEF RoundInv, NextPolicy

\* The other steps disturb the round, belong to another holder of the lock, or
\* change nothing that concerns it.
LEMMA RoundElse ==
    ASSUME Inv, RoundInv, calm', job' = "reconcile",
           \/ UNCHANGED vars \/ Refresh \/ Withdraw \/ Clean \/ Tick \/ Crash
           \/ \E i \in Ids : Apply(i) \/ Release(i)
           \/ \E i \in Ids, v \in Vms, e \in 1..MaxTime : Request(i, v, e)
           \/ \E v \in Vms : Deploy(v) \/ Change(v)
    PROVE  RoundInv'
<1>1. CASE UNCHANGED vars \/ \E i \in Ids, v \in Vms, e \in 1..MaxTime : Request(i, v, e)
  <2>1. UNCHANGED <<mem, rules, chain, now, inst, job, at, cur, seen, todo, lost, calm>>
    BY Zenon, <1>1 DEF vars, Request, world, task
  <2> QED
    BY ZenonT(30), <2>1 DEF RoundInv, Settled, ExpectedAt, Active
<1>2. CASE Refresh \/ Withdraw \/ Clean
  BY Zenon, <1>2 DEF Refresh, Withdraw, Clean, Done, Goto
<1>3. CASE Tick \/ Crash \/ \E v \in Vms : Deploy(v) \/ Change(v)
  BY <1>3, Zenon DEF Tick, Crash, Deploy, Change, Targeted
<1>4. CASE \E i \in Ids : Apply(i) \/ Release(i)
  BY Zenon, <1>4 DEF Apply, Renew, Enter, Release, Begin, task
<1> QED
  BY SMTT(30), <1>1, <1>2, <1>3, <1>4

LEMMA RoundNext ==
    ASSUME Inv, RulesCovered, RoundInv, [Next]_vars
    PROVE  RoundInv'
<1> SUFFICES ASSUME calm', job' = "reconcile"
             PROVE  RoundInv'
    BY Zenon DEF RoundInv
<1> QED
  BY Zenon, RoundBegins, RoundExpires, RoundResolves, RoundRetires, RoundInstalls, RoundElse
     DEF Next, Loop

\* A round of reconcile in which nothing fails or changes ends with the rules of
\* exactly the active policies on the current addresses of their instances.
THEOREM RoundsAreExact == Spec => []RoundExact
<1>1. Init => RoundInv
  <2>1. Init => job = "none"
    BY Zenon DEF Init
  <2> QED
    BY Zenon, <2>1 DEF RoundInv
<1>2. Base /\ RulesCovered /\ RoundInv /\ [Next]_vars => RoundInv'
  BY RoundNext DEF Base
<1>3. Base /\ RoundInv => RoundExact
  <2> SUFFICES ASSUME Base, RoundInv, EndOfRound, calm
               PROVE  /\ Expected \subseteq rules \/ chain = "bare"
                      /\ rules \subseteq Expected \/ lost
      BY DEF RoundExact
  <2>1. \A i \in Ids : Settled(i)
    BY SMTT(30) DEF RoundInv, EndOfRound
  <2>2. \A i \in Ids, a \in Addrs : <<i, a>> \in Expected <=> ExpectedAt(i, a)
    BY Zenon DEF Expected, ExpectedAt
  <2>3. rules \subseteq Ids \X Addrs /\ Expected \subseteq Ids \X Addrs
    BY Zenon DEF Base, Inv, TypeOK, Expected
  <2> QED
    BY <2>1, <2>2, <2>3 DEF Settled
<1> QED
  BY <1>1, <1>2, <1>3, CoveredInductive, PTL DEF Spec

-----------------------------------------------------------------------------
(* Panel: the inductive invariant *)

\* The lock's holder is the one request between writing the file and committing it, and
\* the file is what it will commit.
Writing ==
    /\ writer = Absent => file = cfg
    /\ \A r \in Procs : At(r, "commit") => writer = r
    /\ \A r \in Procs :
        At(r, "commit") => file = [cfg EXCEPT ![req[r].field] = req[r].value]

\* The file is always what was written last.
FileLast == file = last

\* From a committed change of the password on, until the sessions are signed out.
Changing == \E r \in Procs : At(r, "retain")

\* A session was opened with the current password, made the last change, or was opened by
\* a login that a change overtook.
MayStay(s) == opened[s].password = cfg.password \/ s = changer \/ opened[s].late
Sessions == Changing \/ \A s \in sessions : MayStay(s)

\* So will be the session that a login in progress opens.
Logging ==
    Changing \/ \A r \in Procs : At(r, "login") =>
                    req[r].password = cfg.password \/ req[r].overtaken

\* A request owes the host a round: it has one to start, or in progress.
Owes(q) == q.at \in {"apply", "applying"} \/ (q.at = "notify" /\ q.value = Absent)

\* A round that nothing disturbed has the stored list.
CleanRounds == \A r \in Procs : At(r, "applying") /\ req[r].clean => req[r].list = binds

\* Without a token, the host has the stored bindings unless a round is owed.
Applies ==
    (sure /\ cfg.token = Absent /\ \A r \in Procs : ~Owes(req[r])) => host = binds

IInv == PanelTypeOK /\ Writing /\ FileLast /\ Sessions /\ Logging /\ CleanRounds /\ Applies

-----------------------------------------------------------------------------
(* Panel: requests *)

\* What a request carries follows from the point it has reached.
LEMMA Carried ==
    ASSUME NEW q \in Requests
    PROVE  /\ q.at = "login" => q \in Logins
           /\ q.at = "hash" => q \in PasswordChanges
           /\ q.at \in {"update", "commit"} =>
                q \in LimitChanges \/ q \in PasswordChanges \/ q \in TokenChanges
           /\ q.at = "retain" => q \in PasswordChanges
           /\ q.at = "notify" => q \in TokenChanges
           /\ q.at = "bind" => q \in Binds
           /\ q.at = "applying" => q \in Rounds
           /\ q.at = "delete" => q \in Simple
  BY Zenon DEF Requests, Simple, Logins, LimitChanges, PasswordChanges, TokenChanges, Binds, Rounds

\* Going on to the next point keeps what it carries.
LEMMA MovedOn ==
    ASSUME NEW q \in Requests, NEW pc
    PROVE  /\ q \in PasswordChanges /\ pc \in {"update", "commit", "retain"} =>
                [q EXCEPT !.at = pc] \in PasswordChanges
           /\ q \in LimitChanges /\ pc = "commit" => [q EXCEPT !.at = pc] \in LimitChanges
           /\ q \in TokenChanges /\ pc \in {"commit", "notify", "apply"} =>
                [q EXCEPT !.at = pc] \in TokenChanges
           /\ q \in Simple /\ pc = "unbind" => [q EXCEPT !.at = pc] \in Simple
  BY DEF Simple, LimitChanges, PasswordChanges, TokenChanges

\* The kinds of request are requests.
LEMMA Kinds ==
    /\ Simple \subseteq Requests /\ Logins \subseteq Requests
    /\ LimitChanges \subseteq Requests /\ PasswordChanges \subseteq Requests
    /\ TokenChanges \subseteq Requests /\ Binds \subseteq Requests
    /\ Rounds \subseteq Requests
  BY DEF Requests

-----------------------------------------------------------------------------
(* Panel: kinds of step, what a step does to the state that the invariants relate. *)

\* One request goes on to q, alone; it writes, signs out and applies nothing, and owes a
\* round afterwards if it did before, unless the round failed or there is a token.
OwnStep(r) ==
    /\ ~At(r, "retain")
    /\ \E q \in Requests :
        /\ req' = [req EXCEPT ![r] = q]
        /\ r = Init0 => q.at \in {"idle", "apply", "applying"}
        /\ q.at \notin {"commit", "retain"}
        /\ q.at = "login" => q.password = cfg.password
        /\ q.at = "applying" => q.list = binds
        /\ Owes(req[r]) => Owes(q) \/ sure' = FALSE \/ cfg.token # Absent
    /\ sure' \in {sure, FALSE}
    /\ UNCHANGED <<store, sessions, opened, changer, binds, host>>

\* No request goes on; sessions may end.
Quiet ==
    /\ sessions' \subseteq sessions
    /\ UNCHANGED <<store, opened, changer, binds, host, sure, req>>

\* A login succeeds.
LoggedIn(r) ==
    /\ At(r, "login")
    /\ sessions' = sessions \cup {Len(opened) + 1}
    /\ opened' = Append(opened, [password |-> req[r].password, late |-> req[r].overtaken])
    /\ End(r)
    /\ UNCHANGED <<store, changer, binds, host, sure>>

\* A setting is written to the file.
Written(r) ==
    /\ At(r, "update") /\ writer = Absent
    /\ writer' = r
    /\ file' = [cfg EXCEPT ![req[r].field] = req[r].value]
    /\ last' = [last EXCEPT ![req[r].field] = req[r].value]
    /\ GoOn(r, "commit")
    /\ UNCHANGED <<cfg, sessions, opened, changer, binds, host, sure>>

\* The stored bindings change.
Rebound(r) ==
    /\ r \in Reqs /\ req[r].at \in {"idle", "bind", "unbind"}
    /\ binds' \subseteq Bindings
    /\ req' = [Disturbed EXCEPT ![r] = [at |-> "apply"]]
    /\ UNCHANGED <<store, sessions, opened, changer, host, sure>>

\* A round ends.
Round(r) ==
    /\ At(r, "applying")
    /\ End(r)
    /\ host' = req[r].list
    /\ sure' = (req[r].clean /\ ~sync /\ \A p \in Procs \ {r} : ~At(p, "applying"))
    /\ UNCHANGED <<store, sessions, opened, changer, binds>>

Kind ==
    \/ \E r \in Procs :
        OwnStep(r) \/ LoggedIn(r) \/ Written(r) \/ Commit(r) \/ Retain(r) \/ Rebound(r) \/ Round(r)
    \/ Quiet \/ SyncApply \/ Restart

LEMMA ArriveKinds ==
    ASSUME PanelTypeOK, NEW r \in Reqs, Arrive(r)
    PROVE  OwnStep(r) \/ Rebound(r)
PROOF
  <1>1. r \in Procs /\ r # Init0 /\ req \in [Procs -> Requests]
    BY ReqsAssumption DEF Procs, PanelTypeOK
  <1>2. At(r, "idle") /\ ops' = ops + 1 /\ ops' \in Nat
    <2>1. Operation(r)
      BY Zenon DEF Arrive, Login, PutSettings, Create, Reinstall, Delete, ChangePassword, SetToken,
             AddWg, DeleteWg, Accept
    <2> QED
      BY <2>1 DEF Operation, PanelTypeOK
  <1>3. ~At(r, "retain") /\ ~Owes(req[r])
    BY <1>2 DEF At, Owes
  <1>4. ASSUME NEW q \in Requests, req' = [req EXCEPT ![r] = q],
               q.at \in {"idle", "login", "update", "hash", "create", "delete", "bind"},
               q.at = "login" => q.password = cfg.password,
               UNCHANGED <<store, access, binds, host, sure>>
        PROVE  OwnStep(r)
    BY Zenon, <1>1, <1>3, <1>4 DEF OwnStep, access
  <1>5. ASSUME NEW good \in BOOLEAN, Login(r, good)
        PROVE  OwnStep(r)
    <2> DEFINE q == [at |-> "login", password |-> cfg.password, good |-> good,
                     overtaken |-> FALSE]
    <2>1. q \in Requests
      BY Zenon, Kinds DEF PanelTypeOK, Settings, Logins
    <2> QED
      BY Zenon, <1>4, <1>5, <2>1 DEF Login, local
  <1>6. ASSUME NEW s \in sessions, PutSettings(r, s)
        PROVE  OwnStep(r)
    <2> DEFINE q == [at |-> "update", session |-> s, field |-> "limit", value |-> ops']
    <2>2. s \in Nat
      BY DEF PanelTypeOK
    <2>1. q \in Requests
      BY Zenon, <1>2, <2>2, Kinds DEF LimitChanges
    <2> QED
      BY Zenon, <1>4, <1>6, <2>1 DEF PutSettings, Accept, local
  <1>7. ASSUME NEW s \in sessions, Create(r, s) \/ Reinstall(r, s) \/ Delete(r, s)
        PROVE  OwnStep(r)
    <2>1. [at |-> "create"] \in Requests /\ [at |-> "delete"] \in Requests
      BY Kinds DEF Simple
    <2> QED
      BY Zenon, <1>4, <1>7, <2>1 DEF Create, Reinstall, Delete, Accept, local
  <1>8. ASSUME NEW s \in sessions, NEW good \in BOOLEAN, ChangePassword(r, s, good)
        PROVE  OwnStep(r)
    <2> DEFINE q == [at |-> "hash", session |-> s, field |-> "password", value |-> ops',
                     good |-> good]
    <2>4. s \in 1..Len(opened)
      BY Zenon DEF PanelTypeOK
    <2>2. s \in Nat
      BY <2>4
    <2>3. q \in PasswordChanges
      BY Zenon, <1>2, <2>2 DEF PasswordChanges
    <2>1. q \in Requests
      BY Zenon, <2>3, Kinds
    <2> QED
      BY Zenon, <1>4, <1>8, <2>1 DEF ChangePassword, Accept, local
  <1>9. ASSUME NEW s \in sessions, NEW token \in {Absent, Token}, NEW confirm \in BOOLEAN,
               SetToken(r, s, token, confirm)
        PROVE  OwnStep(r)
    <2> DEFINE q == [at |-> "update", session |-> s, field |-> "token", value |-> token]
    <2>1. q \in Requests
      BY Kinds DEF PanelTypeOK, TokenChanges
    <2> QED
      BY Zenon, <1>4, <1>9, <2>1 DEF SetToken, Accept, local
  <1>10. ASSUME NEW s \in sessions, NEW b \in Bindings, AddWg(r, s, b)
         PROVE  OwnStep(r)
    <2> DEFINE q == [at |-> "bind", binding |-> b]
    <2>1. q \in Requests
      BY Kinds DEF Binds
    <2> QED
      BY Zenon, <1>4, <1>10, <2>1 DEF AddWg, Accept, local
  <1>11. ASSUME NEW s \in sessions, NEW b \in Bindings, DeleteWg(r, s, b)
         PROVE  OwnStep(r) \/ Rebound(r)
    <2>1. /\ Rebind(r, binds \ {b}) /\ binds \ {b} \subseteq Bindings
          /\ UNCHANGED <<store, access, host, sure>>
      BY Zenon, <1>11 DEF DeleteWg, PanelTypeOK
    <2>2. CASE binds \ {b} = binds
      <3>1. Idle \in Requests /\ Idle.at = "idle"
        BY Kinds DEF Simple, Idle
      <3>2. req' = [req EXCEPT ![r] = Idle] /\ binds' = binds
        BY <2>1, <2>2 DEF Rebind
      <3> QED
        BY Zenon, <1>4, <2>1, <3>1, <3>2
    <2>3. CASE binds \ {b} # binds
      BY Zenon, <1>1, <1>2, <2>1, <2>3 DEF Rebind, Rebound, At, access
    <2> QED
      BY <2>2, <2>3
  <1> QED
    BY Zenon, <1>5, <1>6, <1>7, <1>8, <1>9, <1>10, <1>11 DEF Arrive

LEMMA ServeKinds ==
    ASSUME PanelTypeOK, NEW r \in Procs, Serve(r) \/ (r \in Reqs /\ Disconnect(r))
    PROVE  Kind
PROOF
  <1>1. /\ req \in [Procs -> Requests] /\ req[r] \in Requests
        /\ req[Init0].at \in {"idle", "apply", "applying"}
    BY DEF PanelTypeOK
  <1>2. Idle \in Requests /\ Idle.at = "idle"
    BY Kinds DEF Simple, Idle
  <1>3. ASSUME ~At(r, "retain"),
               NEW q \in Requests, req' = [req EXCEPT ![r] = q],
               r = Init0 => q.at \in {"idle", "apply", "applying"},
               q.at \notin {"commit", "retain"},
               q.at = "login" => q.password = cfg.password,
               q.at = "applying" => q.list = binds,
               Owes(req[r]) => Owes(q) \/ sure' = FALSE \/ cfg.token # Absent,
               sure' \in {sure, FALSE},
               UNCHANGED <<store, sessions, opened, changer, binds, host>>
        PROVE  Kind
    <2>1. OwnStep(r)
      BY Zenon, <1>3 DEF OwnStep
    <2> QED
      BY <2>1 DEF Kind
  <1>4. ASSUME ~At(r, "retain"), End(r),
               Owes(req[r]) => sure' = FALSE \/ cfg.token # Absent,
               sure' \in {sure, FALSE},
               UNCHANGED <<store, sessions, opened, changer, binds, host>>
        PROVE  Kind
    <2>1. req' = [req EXCEPT ![r] = Idle]
      BY <1>4 DEF End
    <2> QED
      BY Zenon, <1>2, <1>3, <1>4, <2>1
  <1>5. CASE LoginDone(r)
    <2>1. CASE req[r].good
      <3>1. LoggedIn(r)
        BY Zenon, <1>5, <2>1 DEF LoginDone, LoggedIn, local
      <3> QED
        BY <3>1 DEF Kind
    <2>2. CASE ~req[r].good
      BY Zenon, <1>4, <1>5, <2>2 DEF LoginDone, At, Owes, local
    <2> QED
      BY <2>1, <2>2
  <1>6. CASE PasswordVerified(r)
    <2>1. req[r] \in PasswordChanges
      BY Zenon, <1>1, <1>6, Carried DEF PasswordVerified, At
    <2>2. CASE GoOn(r, "update")
      <3> DEFINE q == [req[r] EXCEPT !.at = "update"]
      <3>1. q \in Requests /\ q.at = "update"
        BY <1>1, <2>1, MovedOn, Kinds DEF PasswordChanges
      <3>2. req' = [req EXCEPT ![r] = q]
        BY <1>1, <2>2 DEF GoOn
      <3>3. r # Init0
        BY <1>1, <1>6 DEF PasswordVerified, At
      <3> QED
        BY Zenon, <1>3, <1>6, <3>1, <3>2, <3>3 DEF PasswordVerified, At, Owes, local, access
    <2>3. CASE End(r)
      BY Zenon, <1>4, <1>6, <2>3 DEF PasswordVerified, At, Owes, local, access
    <2> QED
      BY <1>6, <2>2, <2>3 DEF PasswordVerified
  <1>7. CASE Update(r)
    <2>1. CASE writer' = r /\ GoOn(r, "commit")
      <3>1. r # Absent
        BY ReqsAssumption DEF Procs, Absent, Init0
      <3>2. Written(r)
        BY Zenon, <1>7, <2>1, <3>1 DEF Update, Written, local, access
      <3> QED
        BY <3>2 DEF Kind
    <2>2. CASE End(r) /\ UNCHANGED <<writer, file, last>>
      BY Zenon, <1>4, <1>7, <2>2 DEF Update, At, Owes, local, access, store
    <2> QED
      BY <1>7, <2>1, <2>2 DEF Update
  <1>8. CASE Commit(r) \/ Retain(r)
    BY <1>8 DEF Kind
  <1>9. CASE Notify(r)
    <2>1. req[r] \in TokenChanges
      BY Zenon, <1>1, <1>9, Carried DEF Notify, At
    <2>2. CASE req[r].value = Absent
      <3> DEFINE q == [req[r] EXCEPT !.at = "apply"]
      <3>1. q \in Requests /\ q.at = "apply"
        BY <1>1, <2>1, MovedOn, Kinds DEF TokenChanges
      <3>2. req' = [req EXCEPT ![r] = q]
        BY <1>1, <1>9, <2>2 DEF Notify, GoOn
      <3> QED
        BY Zenon, <1>3, <1>9, <3>1, <3>2 DEF Notify, At, Owes, local, access
    <2>3. CASE req[r].value # Absent
      BY Zenon, <1>4, <1>9, <2>3 DEF Notify, At, Owes, local, access
    <2> QED
      BY <2>2, <2>3
  <1>10. CASE Created(r)
    BY Zenon, <1>4, <1>10 DEF Created, At, Owes, access
  <1>11. CASE Deleted(r)
    <2>1. req[r] \in Simple
      BY Zenon, <1>1, <1>11, Carried DEF Deleted, At
    <2> DEFINE q == [req[r] EXCEPT !.at = "unbind"]
    <2>2. q \in Requests /\ q.at = "unbind"
      BY <1>1, <2>1, MovedOn, Kinds DEF Simple
    <2>3. req' = [req EXCEPT ![r] = q]
      BY <1>1, <1>11 DEF Deleted, GoOn
    <2>4. r # Init0
      BY <1>1, <1>11 DEF Deleted, At
    <2> QED
      BY Zenon, <1>3, <1>11, <2>2, <2>3, <2>4 DEF Deleted, At, Owes, access
  <1>12. ASSUME req[r].at \in {"unbind", "bind"}, NEW next \in SUBSET Bindings, Rebind(r, next),
                UNCHANGED <<store, access, host, sure>>
         PROVE  Kind
    <2>1. r \in Reqs
      BY <1>1, <1>12 DEF Procs
    <2>2. CASE next = binds
      BY Zenon, <1>4, <1>12, <2>2 DEF Rebind, End, At, Owes, access
    <2>3. CASE next # binds
      <3>1. Rebound(r)
        BY Zenon, <1>12, <2>1, <2>3 DEF Rebind, Rebound, access
      <3> QED
        BY <3>1 DEF Kind
    <2> QED
      BY <2>2, <2>3
  <1>13. CASE Unbind(r)
    <2>1. CASE Rebind(r, {})
      BY Zenon, <1>12, <1>13, <2>1 DEF Unbind, At
    <2>2. CASE End(r) /\ UNCHANGED binds
      BY Zenon, <1>4, <1>13, <2>2 DEF Unbind, At, Owes, access
    <2> QED
      BY <1>13, <2>1, <2>2 DEF Unbind
  <1>14. CASE Bind(r)
    <2>1. req[r].binding \in Bindings
      BY Zenon, <1>1, <1>14, Carried DEF Bind, At, Binds
    <2>2. binds \cup {req[r].binding} \in SUBSET Bindings
      BY Zenon, <2>1 DEF PanelTypeOK
    <2> QED
      BY Zenon, <1>12, <1>14, <2>2 DEF Bind, At
  <1>15. CASE ApplyRound(r)
    <2>1. CASE r = Init0 /\ ~(Standalone)
      BY Zenon, <1>4, <1>15, <2>1 DEF ApplyRound, Standalone, At, local, access
    <2>2. CASE ~(r = Init0 /\ ~(Standalone))
      <3> DEFINE q == [at |-> "applying", list |-> binds, clean |-> TRUE]
      <3>1. q \in Requests
        BY Zenon, Kinds DEF Rounds, PanelTypeOK
      <3>2. req' = [req EXCEPT ![r] = q]
        BY Zenon, <1>15, <2>2 DEF ApplyRound
      <3> QED
        BY Zenon, <1>3, <1>15, <3>1, <3>2 DEF ApplyRound, At, Owes, local, access
    <2> QED
      BY <2>1, <2>2
  <1>16. CASE Applied(r)
    <2>1. CASE /\ host' = req[r].list
               /\ sure' = (req[r].clean /\ ~sync /\ \A p \in Procs \ {r} : ~At(p, "applying"))
      <3>1. Round(r)
        BY Zenon, <1>16, <2>1 DEF Applied, Round, access
      <3> QED
        BY <3>1 DEF Kind
    <2>2. CASE Mishap /\ sure' = FALSE /\ UNCHANGED host
      BY Zenon, <1>4, <1>16, <2>2 DEF Applied, At, access
    <2> QED
      BY Zenon, <1>16, <2>1, <2>2 DEF Applied
  <1>17. CASE r \in Reqs /\ Disconnect(r)
    <2>1. sure' = (sure /\ ~At(r, "applying"))
      BY Zenon, <1>17 DEF Disconnect
    <2>2. sure' \in {sure, FALSE} /\ (At(r, "applying") => sure' = FALSE)
      BY Zenon, <2>1 DEF PanelTypeOK
    <2> QED
      BY Zenon, <1>4, <1>17, <2>2 DEF Disconnect, At, Owes, access
  <1> QED
    BY <1>5, <1>6, <1>7, <1>8, <1>9, <1>10, <1>11, <1>13, <1>14, <1>15, <1>16, <1>17 DEF Serve

LEMMA Classified ==
    ASSUME PanelTypeOK, [PanelNext]_panelVars
    PROVE  Kind
PROOF
  <1>1. CASE \E r \in Reqs : Arrive(r)
    BY <1>1, ArriveKinds DEF Kind, Procs
  <1>2. CASE \/ \E r \in Reqs : Disconnect(r)
             \/ \E r \in Procs : Serve(r)
    BY <1>2, ServeKinds DEF Procs
  <1>3. CASE \E s \in sessions : Logout(s)
    BY <1>3 DEF Logout, Kind, Quiet, local
  <1>4. CASE ForgetFailure
    BY <1>4 DEF ForgetFailure, Kind, Quiet, local
  <1>5. CASE AgentStep \/ StreamEnds \/ SyncReply
    BY Zenon, <1>5 DEF AgentStep, ReadConfig, Connect, Wake, WaitOver, StreamEnds, SyncReply, Kind,
                Quiet, local, access
  <1>6. CASE SyncApply \/ Restart
    BY <1>6 DEF Kind
  <1>7. CASE UNCHANGED panelVars
    BY <1>7 DEF panelVars, Kind, Quiet, local, access
  <1> QED
    BY <1>1, <1>2, <1>3, <1>4, <1>5, <1>6, <1>7 DEF PanelNext

-----------------------------------------------------------------------------
(* Panel: types *)

\* Writing one setting leaves the others alone.
LEMMA Written1 ==
    ASSUME NEW c \in Settings, NEW q \in Requests, q.at \in {"update", "commit"},
           NEW d, d = [c EXCEPT ![q.field] = q.value]
    PROVE  /\ d \in Settings
           /\ q.field # "password" => d.password = c.password
           /\ q.field # "token" => d.token = c.token
           /\ q.field = "token" => d.token = q.value
PROOF
  <1>1. q \in LimitChanges \/ q \in PasswordChanges \/ q \in TokenChanges
    BY Carried
  <1>2. CASE q \in LimitChanges
    BY <1>2 DEF LimitChanges, Settings
  <1>3. CASE q \in PasswordChanges
    BY <1>3 DEF PasswordChanges, Settings
  <1>4. CASE q \in TokenChanges
    BY Zenon, <1>4 DEF TokenChanges, Settings
  <1> QED
    BY Zenon, <1>1, <1>2, <1>3, <1>4

\* A round that is disturbed goes on; everything else is as it was.
LEMMA Disturbance ==
    ASSUME PanelTypeOK
    PROVE  /\ Disturbed \in [Procs -> Requests]
           /\ \A p \in Procs : ~At(p, "applying") => Disturbed[p] = req[p]
           /\ \A p \in Procs : At(p, "applying") =>
                Disturbed[p].at = "applying" /\ Disturbed[p].clean = FALSE
PROOF
  <1>1. ASSUME NEW p \in Procs, At(p, "applying")
        PROVE  /\ [req[p] EXCEPT !.clean = FALSE] \in Requests
               /\ [req[p] EXCEPT !.clean = FALSE].at = "applying"
               /\ [req[p] EXCEPT !.clean = FALSE].clean = FALSE
    <2>1. req[p] \in Rounds
      BY Zenon, <1>1, Carried DEF At, PanelTypeOK
    <2> QED
      BY Zenon, <2>1, Kinds DEF Rounds
  <1> QED
    BY Zenon, <1>1 DEF Disturbed, PanelTypeOK

\* What the kinds of step say of the store, the sessions, the requests and the bindings.
StateOK ==
    /\ cfg \in Settings /\ file \in Settings /\ last \in Settings
    /\ writer \in Reqs \cup {Absent}
    /\ opened \in Seq([password : Nat, late : BOOLEAN])
    /\ sessions \subseteq 1..Len(opened) /\ changer \in Nat
    /\ req \in [Procs -> Requests]
    /\ req[Init0].at \in {"idle", "apply", "applying"}
    /\ sure \in BOOLEAN
    /\ binds \subseteq Bindings /\ host \subseteq Bindings

LEMMA StateNext ==
    ASSUME PanelTypeOK, Kind
    PROVE  StateOK'
PROOF
  <1>1. StateOK
    BY Zenon DEF PanelTypeOK, StateOK
  <1>2. Init0 \in Procs /\ \A r \in Procs : r # Init0 => r \in Reqs
    BY DEF Procs
  <1>3. Idle \in Requests /\ Idle.at = "idle"
    BY Kinds DEF Simple, Idle
  <1>4. ASSUME NEW r \in Procs, OwnStep(r)
        PROVE  StateOK'
    <2>1. PICK q \in Requests : /\ req' = [req EXCEPT ![r] = q]
                                /\ r = Init0 => q.at \in {"idle", "apply", "applying"}
      BY Zenon, <1>4 DEF OwnStep
    <2>2. req' \in [Procs -> Requests] /\ req'[Init0].at \in {"idle", "apply", "applying"}
      BY Zenon, <1>1, <1>2, <2>1 DEF StateOK
    <2>3. sure' \in BOOLEAN
      BY Zenon, <1>1, <1>4 DEF OwnStep, StateOK
    <2> QED
      BY Zenon, <1>1, <1>4, <2>2, <2>3 DEF OwnStep, StateOK, store
  <1>5. ASSUME NEW r \in Procs, LoggedIn(r)
        PROVE  StateOK'
    <2>1. req[r] \in Logins
      BY Zenon, <1>1, <1>5, Carried DEF LoggedIn, At, StateOK
    <2>2. [password |-> req[r].password, late |-> req[r].overtaken]
            \in [password : Nat, late : BOOLEAN]
      BY Zenon, <2>1 DEF Logins
    <2>3. /\ opened' \in Seq([password : Nat, late : BOOLEAN])
          /\ sessions' \subseteq 1..Len(opened')
      <3>1. opened \in Seq([password : Nat, late : BOOLEAN]) /\ sessions \subseteq 1..Len(opened)
        BY <1>1 DEF StateOK
      <3>7. PICK e \in [password : Nat, late : BOOLEAN] :
                /\ opened' = Append(opened, e)
                /\ sessions' = sessions \cup {Len(opened) + 1}
        BY Zenon, <1>5, <2>2 DEF LoggedIn
      <3>2. opened' \in Seq([password : Nat, late : BOOLEAN]) /\ Len(opened') = Len(opened) + 1
        BY <3>1, <3>7
      <3>3. Len(opened) \in Nat
        BY <3>1
      <3>4. sessions' = sessions \cup {Len(opened')}
        BY Zenon, <3>2, <3>7
      <3>5. \A x \in 1..Len(opened) : x \in 1..Len(opened')
        BY <3>2, <3>3
      <3>6. Len(opened') \in 1..Len(opened')
        BY <3>2, <3>3
      <3> QED
        BY Zenon, <3>1, <3>2, <3>4, <3>5, <3>6
    <2>4. req' \in [Procs -> Requests] /\ req'[Init0].at \in {"idle", "apply", "applying"}
      BY Zenon, <1>1, <1>2, <1>3, <1>5 DEF LoggedIn, End, StateOK
    <2> QED
      BY Zenon, <1>1, <1>5, <2>3, <2>4 DEF LoggedIn, StateOK, store
  <1>6. ASSUME NEW r \in Procs, Written(r)
        PROVE  StateOK'
    <2>1. req[r] \in Requests /\ req[r].at = "update" /\ r # Init0
      BY Zenon, <1>1, <1>6 DEF Written, At, StateOK
    <2>2. file' \in Settings /\ last' \in Settings
      BY Zenon, <1>1, <1>6, <2>1, Written1 DEF Written, StateOK
    <2>3. [req[r] EXCEPT !.at = "commit"] \in Requests
      BY <2>1, Carried, MovedOn, Kinds
    <2>4. req' \in [Procs -> Requests] /\ req'[Init0].at \in {"idle", "apply", "applying"}
      BY <1>1, <1>2, <1>6, <2>1, <2>3 DEF Written, GoOn, StateOK
    <2> QED
      BY Zenon, <1>1, <1>2, <1>6, <2>1, <2>2, <2>4 DEF Written, StateOK
  <1>7. ASSUME NEW r \in Procs, Commit(r)
        PROVE  StateOK'
    <2>1. req[r] \in Requests /\ req[r].at = "commit" /\ r # Init0
      BY <1>1, <1>7 DEF Commit, At, StateOK
    <2>2. \E q \in Requests : req' = [req EXCEPT ![r] = q]
      <3>1. CASE req[r] \in LimitChanges
        BY Zenon, <1>3, <1>7, <3>1 DEF Commit, End, LimitChanges
      <3>2. CASE req[r] \in PasswordChanges
        BY ZenonT(30), <1>1, <1>7, <2>1, <3>2, MovedOn, Kinds DEF Commit, GoOn, PasswordChanges, StateOK
      <3>3. CASE req[r] \in TokenChanges
        BY <1>1, <1>7, <2>1, <3>3, MovedOn, Kinds DEF Commit, GoOn, TokenChanges, StateOK
      <3> QED
        BY Zenon, <2>1, <3>1, <3>2, <3>3, Carried
    <2>3. req' \in [Procs -> Requests] /\ req'[Init0].at \in {"idle", "apply", "applying"}
      BY <1>1, <1>2, <2>1, <2>2 DEF StateOK
    <2> QED
      BY <1>1, <1>7, <2>3 DEF Commit, StateOK, access, local
  <1>8. ASSUME NEW r \in Procs, Retain(r)
        PROVE  StateOK'
    <2>1. req[r] \in PasswordChanges
      BY <1>1, <1>8, Carried DEF Retain, At, StateOK
    <2>2. ASSUME NEW p \in Procs
          PROVE  req'[p] \in Requests /\ (~At(p, "login") /\ p # r => req'[p] = req[p])
      <3>1. CASE p = r
        BY <1>3, <1>8, <3>1 DEF Retain
      <3>2. CASE p # r /\ At(p, "login")
        <4>1. req[p] \in Logins
          BY <1>1, <3>2, Carried DEF At, StateOK
        <4>2. [req[p] EXCEPT !.overtaken = TRUE] \in Requests
          BY Zenon, <4>1, Kinds DEF Logins
        <4> QED
          BY <1>8, <3>2, <4>2 DEF Retain
      <3>3. CASE p # r /\ ~At(p, "login")
        BY <1>1, <1>8, <3>3 DEF Retain, StateOK
      <3> QED
        BY Zenon, <3>1, <3>2, <3>3
    <2>3. req' \in [Procs -> Requests]
      BY <1>8, <2>2 DEF Retain
    <2>4. req'[Init0].at \in {"idle", "apply", "applying"}
      BY <1>1, <1>2, <1>8, <2>2 DEF Retain, At, StateOK
    <2> QED
      BY <1>1, <1>8, <2>1, <2>3, <2>4 DEF Retain, StateOK, PasswordChanges, store, local
  <1>9. ASSUME NEW r \in Procs, Rebound(r)
        PROVE  StateOK'
    <2>1. [at |-> "apply"] \in Requests
      BY Kinds DEF Simple
    <2>2. Disturbed[Init0].at \in {"idle", "apply", "applying"}
      BY Zenon, <1>1, <1>2, Disturbance DEF StateOK
    <2>3. req' \in [Procs -> Requests] /\ req'[Init0].at \in {"idle", "apply", "applying"}
      BY Zenon, <1>2, <1>9, <2>1, <2>2, Disturbance DEF Rebound
    <2> QED
      BY Zenon, <1>1, <1>9, <2>3 DEF Rebound, StateOK, store
  <1>10. ASSUME NEW r \in Procs, Round(r)
         PROVE  StateOK'
    <2>1. req[r] \in Rounds
      BY Zenon, <1>1, <1>10, Carried DEF Round, At, StateOK
    <2>2. req' \in [Procs -> Requests] /\ req'[Init0].at \in {"idle", "apply", "applying"}
      BY Zenon, <1>1, <1>2, <1>3, <1>10 DEF Round, End, StateOK
    <2>3. sure' \in BOOLEAN
      BY <1>10 DEF Round
    <2>4. host' \subseteq Bindings
      BY Zenon, <1>10, <2>1 DEF Round, Rounds
    <2> QED
      BY Zenon, <1>1, <1>10, <2>2, <2>3, <2>4 DEF Round, StateOK, store
  <1>11. CASE Quiet
    BY Zenon, <1>1, <1>11 DEF Quiet, StateOK, store
  <1>12. CASE SyncApply
    <2>1. Disturbed[Init0].at \in {"idle", "apply", "applying"}
      BY Zenon, <1>1, <1>2, Disturbance DEF StateOK
    <2>2. req' \in [Procs -> Requests] /\ req'[Init0].at \in {"idle", "apply", "applying"}
      BY Zenon, <1>12, <2>1, Disturbance DEF SyncApply
    <2>3. sure' \in BOOLEAN
      BY <1>12 DEF SyncApply
    <2> QED
      BY Zenon, <1>1, <1>12, <2>2, <2>3 DEF SyncApply, StateOK, store, access
  <1>13. CASE Restart
    <2>1. [at |-> "apply"] \in Requests
      BY Kinds DEF Simple
    <2>2. req' \in [Procs -> Requests] /\ req'[Init0].at \in {"idle", "apply", "applying"}
      BY Zenon, <1>2, <1>3, <1>13, <2>1 DEF Restart
    <2> QED
      BY Zenon, <1>1, <1>13, <2>2 DEF Restart, StateOK
  <1> QED
    BY <1>4, <1>5, <1>6, <1>7, <1>8, <1>9, <1>10, <1>11, <1>12, <1>13 DEF Kind

\* The rest of the state: the counters,
LEMMA CountersNext ==
    ASSUME PanelTypeOK, [PanelNext]_panelVars
    PROVE  failures' \in Nat /\ ops' \in Nat /\ mishaps' \in Nat
PROOF
  <1>0. failures \in Nat /\ ops \in Nat /\ mishaps \in Nat
    BY DEF PanelTypeOK
  <1>1. ASSUME NEW r \in Reqs, Arrive(r)
        PROVE  failures' = failures /\ ops' = ops + 1 /\ mishaps' = mishaps
    BY Zenon, <1>1 DEF Arrive, Login, PutSettings, Create, Reinstall, Delete, ChangePassword,
                SetToken, AddWg, DeleteWg, Accept, Operation, access
  <1>2. ASSUME NEW r \in Reqs, Disconnect(r)
        PROVE  failures' = failures /\ ops' = ops /\ mishaps' = mishaps + 1
    BY Zenon, <1>2 DEF Disconnect, Mishap, access
  <1>3. ASSUME NEW r \in Procs, LoginDone(r)
        PROVE  failures' \in {0, failures + 1} /\ ops' = ops /\ mishaps' = mishaps
    BY Zenon, <1>3 DEF LoginDone, bounds
  <1>4. ASSUME NEW r \in Procs, \/ PasswordVerified(r) \/ Commit(r) \/ Retain(r) \/ Notify(r)
                                \/ Created(r) \/ Deleted(r) \/ Bind(r) \/ ApplyRound(r)
        PROVE  failures' = failures /\ ops' = ops /\ mishaps' = mishaps
    BY Zenon, <1>4 DEF PasswordVerified, Commit, Retain, Notify, Created, Deleted, Bind, ApplyRound,
                access, bounds
  <1>5. ASSUME NEW r \in Procs, Update(r) \/ Unbind(r) \/ Applied(r)
        PROVE  failures' = failures /\ ops' = ops /\ mishaps' \in {mishaps, mishaps + 1}
    BY Zenon, <1>5 DEF Update, Unbind, Applied, Mishap, access, bounds
  <1>6. CASE \E r \in Procs : Serve(r)
    <2>1. PICK r \in Procs : Serve(r)
      BY Zenon, <1>6
    <2>2. /\ failures' \in {0, failures, failures + 1} /\ ops' = ops
          /\ mishaps' \in {mishaps, mishaps + 1}
      BY Zenon, <1>3, <1>4, <1>5, <2>1 DEF Serve
    <2> QED
      BY <1>0, <2>2
  <1>7. CASE (\E s \in sessions : Logout(s)) \/ ForgetFailure
    BY <1>0, <1>7 DEF Logout, ForgetFailure, bounds
  <1>8. CASE ReadConfig \/ Connect \/ Wake \/ WaitOver \/ StreamEnds \/ SyncReply \/ SyncApply
    <2>1. failures' = failures /\ ops' = ops /\ mishaps' \in {mishaps, mishaps + 1}
      BY Zenon, <1>8 DEF ReadConfig, Connect, Wake, WaitOver, StreamEnds, SyncReply, SyncApply,
                         Mishap, access, bounds
    <2> QED
      BY <1>0, <2>1
  <1>9. CASE Restart
    BY <1>0, <1>9 DEF Restart, Mishap
  <1>10. CASE UNCHANGED panelVars
    BY Zenon, <1>0, <1>10 DEF panelVars, access, bounds
  <1> QED
    BY <1>0, <1>1, <1>2, <1>6, <1>7, <1>8, <1>9, <1>10 DEF PanelNext, AgentStep

\* and the agent's loop and the flags.
LEMMA FlagsNext ==
    ASSUME PanelTypeOK, [PanelNext]_panelVars
    PROVE  /\ agent' \in [pc : {"read", "connect", "open", "wait"}, token : {Absent, Token}]
           /\ permit' \in BOOLEAN /\ sync' \in BOOLEAN /\ hasInst' \in BOOLEAN
PROOF
  <1> DEFINE Flags == <<agent, permit, sync, hasInst>>
             Loops == [pc : {"read", "connect", "open", "wait"}, token : {Absent, Token}]
  <1>0. /\ agent \in Loops /\ permit \in BOOLEAN /\ sync \in BOOLEAN /\ hasInst \in BOOLEAN
        /\ agent.token \in {Absent, Token} /\ cfg.token \in {Absent, Token}
    BY Zenon DEF PanelTypeOK, Settings
  <1>1. ASSUME NEW r \in Reqs, Arrive(r) \/ Disconnect(r)
        PROVE  UNCHANGED Flags
    BY Zenon, <1>1 DEF Arrive, Login, PutSettings, Create, Reinstall, Delete, ChangePassword,
                SetToken, AddWg, DeleteWg, Disconnect, platform, local
  <1>2. ASSUME NEW r \in Procs, \/ LoginDone(r) \/ PasswordVerified(r) \/ Update(r) \/ Commit(r)
                                \/ Retain(r) \/ Unbind(r) \/ Bind(r) \/ ApplyRound(r) \/ Applied(r)
        PROVE  UNCHANGED Flags
    BY Zenon, <1>2 DEF LoginDone, PasswordVerified, Update, Commit, Retain, Unbind, Bind, ApplyRound,
                Applied, platform, local
  <1>3. ASSUME NEW r \in Procs, Notify(r) \/ Created(r) \/ Deleted(r)
        PROVE  /\ agent' = agent /\ sync' = sync
               /\ permit' = TRUE \/ permit' = permit
               /\ hasInst' = TRUE \/ hasInst' = FALSE \/ hasInst' = hasInst
    BY Zenon, <1>3 DEF Notify, Created, Deleted, platform, local
  <1>4. CASE \/ \E r \in Procs : Serve(r)
             \/ \E r \in Reqs : Arrive(r) \/ Disconnect(r)
    BY <1>0, <1>1, <1>2, <1>3, <1>4, Zenon DEF Serve
  <1>5. CASE (\E s \in sessions : Logout(s)) \/ ForgetFailure \/ UNCHANGED panelVars
    BY Zenon, <1>0, <1>5 DEF Logout, ForgetFailure, panelVars, platform, local
  <1>6. CASE ReadConfig \/ Connect \/ Wake \/ WaitOver \/ StreamEnds
    <2>1. sync' = sync /\ hasInst' = hasInst /\ (permit' = permit \/ permit' = FALSE)
      BY Zenon, <1>6 DEF ReadConfig, Connect, Wake, WaitOver, StreamEnds, local
    <2>2. \E pc \in {"read", "connect", "open", "wait"}, t \in {Absent, Token} :
            agent' = [pc |-> pc, token |-> t]
      BY Zenon, <1>0, <1>6 DEF ReadConfig, Connect, Wake, WaitOver, StreamEnds, Agent
    <2>3. agent' \in Loops
      BY <2>2
    <2> QED
      BY <1>0, <2>1, <2>3, Zenon
  <1>7. CASE SyncReply \/ SyncApply
    <2>1. agent' = agent /\ permit' = permit /\ hasInst' = hasInst
      BY Zenon, <1>7 DEF SyncReply, SyncApply, local
    <2>2. sync' = TRUE \/ sync' = FALSE
      BY Zenon, <1>7 DEF SyncReply, SyncApply
    <2> QED
      BY <1>0, <2>1, <2>2, Zenon
  <1>8. CASE Restart
    <2>1. permit' \in BOOLEAN /\ sync' \in BOOLEAN
      BY <1>8, Zenon DEF Restart
    <2>2. agent' \in Loops /\ hasInst' = hasInst
      BY Zenon, <1>8 DEF Restart
    <2> QED
      BY <1>0, <2>1, <2>2, Zenon
  <1> QED
    BY Zenon, <1>4, <1>5, <1>6, <1>7, <1>8 DEF PanelNext, AgentStep

LEMMA TypesNext ==
    ASSUME PanelTypeOK, [PanelNext]_panelVars
    PROVE  PanelTypeOK'
  BY Zenon, Classified, StateNext, CountersNext, FlagsNext DEF StateOK, PanelTypeOK

-----------------------------------------------------------------------------
(* Panel: settings *)

\* A commit ends the request's hold on the lock and moves it on.
LEMMA CommitMoves ==
    ASSUME PanelTypeOK, NEW r \in Procs, Commit(r)
    PROVE  /\ req[r] \in Requests /\ req[r].at = "commit"
           /\ req'[r].at \in {"idle", "retain", "notify"}
           /\ req'[r].at = "retain" <=> req[r].field = "password"
           /\ req[r].field = "token" => req'[r].at = "notify" /\ req'[r].value = req[r].value
           /\ \A p \in Procs \ {r} : req'[p] = req[p]
PROOF
  <1>1. req \in [Procs -> Requests] /\ req[r] \in Requests /\ req[r].at = "commit"
    BY DEF PanelTypeOK, Commit, At
  <1>2. CASE req[r] \in LimitChanges
    <2>1. req[r].field = "limit"
      BY Zenon, <1>2 DEF LimitChanges
    <2>2. req' = [req EXCEPT ![r] = Idle] /\ Idle.at = "idle"
      BY <2>1 DEF Commit, End, Idle
    <2> QED
      BY Zenon, <1>1, <2>1, <2>2
  <1>3. CASE req[r] \in PasswordChanges
    BY Zenon, <1>1, <1>3 DEF Commit, GoOn, PasswordChanges
  <1>4. CASE req[r] \in TokenChanges
    BY <1>1, <1>4 DEF Commit, GoOn, TokenChanges
  <1> QED
    BY Zenon, <1>1, <1>2, <1>3, <1>4, Carried

LEMMA WritingNext ==
    ASSUME PanelTypeOK, Writing, FileLast, Kind
    PROVE  Writing' /\ FileLast'
PROOF
  <1>1. req \in [Procs -> Requests]
    BY Zenon DEF PanelTypeOK
  <1>2. ASSUME UNCHANGED store,
               \A p \in Procs : req'[p].at = "commit" => req'[p] = req[p]
        PROVE  Writing' /\ FileLast'
    BY Zenon, <1>2 DEF store, Writing, FileLast, At
  <1>3. ASSUME NEW r \in Procs, OwnStep(r)
        PROVE  Writing' /\ FileLast'
    BY Zenon, <1>1, <1>2, <1>3 DEF OwnStep
  <1>4. ASSUME NEW r \in Procs, LoggedIn(r) \/ Round(r)
        PROVE  Writing' /\ FileLast'
    <2>1. Idle.at # "commit"
      BY Zenon DEF Idle
    <2>2. UNCHANGED store /\ req' = [req EXCEPT ![r] = Idle]
      BY Zenon, <1>4 DEF LoggedIn, Round, End
    <2> QED
      BY Zenon, <1>1, <1>2, <2>1, <2>2
  <1>5. ASSUME NEW r \in Procs, Rebound(r)
        PROVE  Writing' /\ FileLast'
    BY Zenon, <1>1, <1>2, <1>5, Disturbance DEF Rebound
  <1>6. ASSUME NEW r \in Procs, Retain(r)
        PROVE  Writing' /\ FileLast'
    <2>1. ASSUME NEW p \in Procs, req'[p].at = "commit"
          PROVE  req'[p] = req[p]
      <3>1. CASE p # r /\ At(p, "login")
        BY <1>1, <1>6, <2>1, <3>1, Carried DEF Retain, Logins, At
      <3>2. CASE p = r \/ ~At(p, "login")
        BY <1>6, <2>1, <3>2 DEF Retain, Idle
      <3> QED
        BY Zenon, <3>1, <3>2
    <2> QED
      BY <1>2, <1>6, <2>1 DEF Retain
  <1>7. CASE Quiet
    BY Zenon, <1>2, <1>7 DEF Quiet
  <1>8. CASE SyncApply
    BY Zenon, <1>2, <1>8, Disturbance DEF SyncApply
  <1>9. CASE Restart
    BY Zenon, <1>9 DEF Restart, Writing, FileLast, At, Idle
  <1>10. ASSUME NEW r \in Procs, Written(r)
         PROVE  Writing' /\ FileLast'
    <2>1. writer = Absent /\ file = cfg /\ file = last
      BY Zenon, <1>10 DEF Written, Writing, FileLast
    <2>2. file' = last'
      BY Zenon, <1>10, <2>1 DEF Written
    <2>3. \A p \in Procs : ~At(p, "commit")
      BY Zenon, <2>1, ReqsAssumption DEF Writing, Procs, Absent, Init0
    <2>4. req[r] \in Requests /\ req[r].at = "update"
      BY Zenon, <1>1, <1>10 DEF Written, At
    <2>5. req'[r].field = req[r].field /\ req'[r].value = req[r].value
      <3>1. req'[r] = [req[r] EXCEPT !.at = "commit"]
        BY <1>1, <1>10 DEF Written, GoOn
      <3> QED
        BY <2>4, <3>1, Carried DEF LimitChanges, PasswordChanges, TokenChanges
    <2>6. \A p \in Procs \ {r} : req'[p] = req[p]
      BY <1>1, <1>10 DEF Written, GoOn
    <2>7. writer' = r /\ r # Absent /\ cfg' = cfg
          /\ file' = [cfg EXCEPT ![req[r].field] = req[r].value]
      BY Zenon, <1>10, ReqsAssumption DEF Written, Procs, Absent, Init0
    <2> QED
      BY Zenon, <2>2, <2>3, <2>5, <2>6, <2>7 DEF Writing, FileLast, At
  <1>11. ASSUME NEW r \in Procs, Commit(r)
         PROVE  Writing' /\ FileLast'
    <2>1. cfg' = file /\ file' = file /\ last' = last /\ writer' = Absent
      BY <1>11 DEF Commit
    <2>2. \A p \in Procs : ~At(p, "commit")'
      BY ZenonT(30), <1>11, CommitMoves DEF Writing, Commit, At
    <2> QED
      BY Zenon, <2>1, <2>2 DEF Writing, FileLast
  <1> QED
    BY Zenon, <1>3, <1>4, <1>5, <1>6, <1>7, <1>8, <1>9, <1>10, <1>11 DEF Kind

-----------------------------------------------------------------------------
(* Panel: sessions *)

\* Sessions and logins stay as they are when no password is committed or retained.
LEMMA SameSessions ==
    ASSUME Sessions, Logging,
           cfg'.password = cfg.password, changer' = changer, opened' = opened,
           sessions' \subseteq sessions,
           \A p \in Procs : At(p, "retain") => At(p, "retain")',
           \A p \in Procs : At(p, "login")' =>
                \/ req'[p] = req[p]
                \/ req'[p].password = cfg.password
    PROVE  Sessions' /\ Logging'
PROOF
  <1>1. Changing => Changing'
    BY Zenon DEF Changing
  <1>2. \A s \in sessions' : MayStay(s) => MayStay(s)'
    BY Zenon DEF MayStay
  <1> QED
    BY Zenon, <1>1, <1>2 DEF Sessions, Logging, At

LEMMA SessionsNext ==
    ASSUME PanelTypeOK, Writing, Sessions, Logging, Kind
    PROVE  Sessions' /\ Logging'
PROOF
  <1>1. req \in [Procs -> Requests]
    BY Zenon DEF PanelTypeOK
  <1>2. ASSUME NEW r \in Procs, OwnStep(r)
        PROVE  Sessions' /\ Logging'
    <2>1. PICK q \in Requests :
            req' = [req EXCEPT ![r] = q] /\ (q.at = "login" => q.password = cfg.password)
      BY Zenon, <1>2 DEF OwnStep
    <2>2. \A p \in Procs : req'[p] = IF p = r THEN q ELSE req[p]
      BY Zenon, <1>1, <2>1
    <2> QED
      BY ZenonT(30), <1>2, <2>1, <2>2, SameSessions DEF OwnStep, store, At
  <1>3. ASSUME NEW r \in Procs, Round(r)
        PROVE  Sessions' /\ Logging'
    <2>1. \A p \in Procs : req'[p] = IF p = r THEN Idle ELSE req[p]
      BY Zenon, <1>1, <1>3 DEF Round, End
    <2>2. Idle.at # "login" /\ req[r].at # "retain"
      <3>1. req[r].at = "applying"
        BY Zenon, <1>3 DEF Round, At
      <3> QED
        BY Zenon, <3>1 DEF Idle
    <2>3. cfg' = cfg /\ changer' = changer /\ opened' = opened /\ sessions' = sessions
      BY Zenon, <1>3 DEF Round, store
    <2>4. \A p \in Procs : At(p, "retain") => At(p, "retain")'
      BY Zenon, <2>1, <2>2 DEF At
    <2>5. \A p \in Procs : At(p, "login")' => req'[p] = req[p]
      BY Zenon, <2>1, <2>2 DEF At
    <2> QED
      BY Zenon, <2>3, <2>4, <2>5, SameSessions
  <1>4. ASSUME NEW r \in Procs, Rebound(r)
        PROVE  Sessions' /\ Logging'
    <2>1. \A p \in Procs : req'[p] = IF p = r THEN [at |-> "apply"] ELSE Disturbed[p]
      BY Zenon, <1>4, Disturbance DEF Rebound
    <2>2. \A p \in Procs : At(p, "retain") => At(p, "retain")'
      BY Zenon, <1>4, <2>1, Disturbance DEF Rebound, At
    <2>3. ASSUME NEW p \in Procs, req'[p].at = "login"
          PROVE  req'[p] = req[p]
      <3>1. p # r
        BY <2>1, <2>3
      <3>2. req'[p] = Disturbed[p]
        BY Zenon, <2>1, <3>1
      <3> QED
        BY Zenon, <2>3, <3>2, Disturbance
    <2> QED
      BY Zenon, <1>4, <2>2, <2>3, SameSessions DEF Rebound, store, At
  <1>5. CASE Quiet
    BY Zenon, <1>5, SameSessions DEF Quiet, store, At
  <1>6. CASE SyncApply
    BY Zenon, <1>6, SameSessions, Disturbance DEF SyncApply, store, access, At
  <1>7. CASE Restart
    BY Zenon, <1>7 DEF Restart, Sessions, Logging, At, Idle
  <1>8. ASSUME NEW r \in Procs, Written(r)
        PROVE  Sessions' /\ Logging'
    <2>1. \A p \in Procs : req'[p] = IF p = r THEN [req[r] EXCEPT !.at = "commit"] ELSE req[p]
      BY <1>1, <1>8 DEF Written, GoOn
    <2>2. [req[r] EXCEPT !.at = "commit"].at = "commit"
      BY <1>1, <1>8, Carried DEF Written, At, LimitChanges, PasswordChanges, TokenChanges
    <2> QED
      BY Zenon, <1>8, <2>1, <2>2, SameSessions DEF Written, At
  <1>9. ASSUME NEW r \in Procs, Commit(r)
        PROVE  Sessions' /\ Logging'
    <2>1. CASE req[r].field = "password"
      <3>1. Changing'
        BY Zenon, <1>9, <2>1, CommitMoves DEF Changing, At
      <3> QED
        BY Zenon, <3>1 DEF Sessions, Logging
    <2>2. CASE req[r].field # "password"
      <3>1. cfg'.password = cfg.password
        <4>1. req[r] \in Requests /\ req[r].at = "commit"
          BY Zenon, <1>9, CommitMoves
        <4>2. cfg \in Settings /\ cfg' = [cfg EXCEPT ![req[r].field] = req[r].value]
          BY Zenon, <1>9, <4>1 DEF Commit, Writing, PanelTypeOK, At
        <4> QED
          BY Zenon, <2>2, <4>1, <4>2, Written1
      <3> QED
        BY Zenon, <1>9, <3>1, CommitMoves, SameSessions DEF Commit, access, At
    <2> QED
      BY Zenon, <2>1, <2>2
  <1>10. ASSUME NEW r \in Procs, LoggedIn(r)
         PROVE  Sessions' /\ Logging'
    <2>1. \A p \in Procs : req'[p] = IF p = r THEN Idle ELSE req[p]
      BY Zenon, <1>1, <1>10 DEF LoggedIn, End
    <2>2. Changing => Changing'
      BY Zenon, <1>10, <2>1 DEF LoggedIn, Changing, At
    <2>3. Logging'
      <3>1. Idle.at # "login"
        BY DEF Idle
      <3>2. cfg' = cfg
        BY Zenon, <1>10 DEF LoggedIn, store
      <3> QED
        BY Zenon, <2>1, <2>2, <3>1, <3>2 DEF Logging, At
    <2>4. ASSUME ~Changing', NEW s \in sessions'
          PROVE  MayStay(s)'
      <3>1. /\ opened \in Seq([password : Nat, late : BOOLEAN])
            /\ sessions \subseteq 1..Len(opened) /\ Len(opened) \in Nat
        BY DEF PanelTypeOK
      <3>2. CASE s \in sessions
        <4>3. PICK e : opened' = Append(opened, e)
          BY Zenon, <1>10 DEF LoggedIn
        <4>1. opened'[s] = opened[s]
          BY <3>1, <3>2, <4>3
        <4>2. MayStay(s)
          BY <2>2, <2>4, <3>2 DEF Sessions
        <4> QED
          BY Zenon, <1>10, <4>1, <4>2 DEF MayStay, LoggedIn, store
      <3>3. CASE s = Len(opened) + 1
        <4> DEFINE e == [password |-> req[r].password, late |-> req[r].overtaken]
        <4>5. e.password = req[r].password /\ e.late = req[r].overtaken
          BY Zenon
        <4>6. opened' = Append(opened, e)
          BY Zenon, <1>10 DEF LoggedIn
        <4> HIDE DEF e
        <4>1. opened'[s] = e
          BY <3>1, <3>3, <4>6
        <4>2. req[r].password = cfg.password \/ req[r].overtaken
          BY Zenon, <1>10, <2>2, <2>4 DEF Logging, LoggedIn
        <4>3. opened'[s].password = req[r].password /\ opened'[s].late = req[r].overtaken
          BY Zenon, <4>1, <4>5
        <4>4. cfg' = cfg
          BY Zenon, <1>10 DEF LoggedIn, store
        <4> QED
          BY <4>2, <4>3, <4>4, Zenon DEF MayStay
      <3> QED
        BY Zenon, <1>10, <2>4, <3>2, <3>3 DEF LoggedIn
    <2> QED
      BY <2>3, <2>4 DEF Sessions
  <1>11. ASSUME NEW r \in Procs, Retain(r)
         PROVE  Sessions' /\ Logging'
    <2>1. \A s \in sessions' : s = changer'
      BY <1>11 DEF Retain
    <2>2. ASSUME NEW p \in Procs, At(p, "login")'
          PROVE  req'[p].overtaken = TRUE
      <3>1. p # r
        BY <1>11, <2>2 DEF Retain, Idle, At
      <3>2. At(p, "login")
        BY <1>11, <2>2, <3>1 DEF Retain, At
      <3>3. req[p] \in Logins
        BY Zenon, <1>1, <3>2, Carried DEF At
      <3> QED
        BY <1>11, <3>1, <3>2, <3>3 DEF Retain, Logins
    <2> QED
      BY Zenon, <2>1, <2>2 DEF Sessions, Logging, MayStay
  <1> QED
    BY Zenon, <1>2, <1>3, <1>4, <1>5, <1>6, <1>7, <1>8, <1>9, <1>10, <1>11 DEF Kind

-----------------------------------------------------------------------------
(* Panel: bindings *)

\* Rounds stay clean when the bindings stay and no round starts with another list.
LEMMA SameRounds ==
    ASSUME CleanRounds, binds' = binds,
           \A p \in Procs : req'[p].at = "applying" => req'[p] = req[p] \/ req'[p].list = binds
    PROVE  CleanRounds'
  BY Zenon DEF CleanRounds, At

\* A round that was disturbed is not clean.
LEMMA NoneClean ==
    ASSUME PanelTypeOK, \A p \in Procs : req'[p] = Disturbed[p] \/ req'[p].at = "apply"
    PROVE  CleanRounds'
PROOF
  <1>1. ASSUME NEW p \in Procs, req'[p].at = "applying"
        PROVE  req'[p].clean = FALSE
    <2>1. req'[p] = Disturbed[p]
      BY Zenon, <1>1
    <2>2. At(p, "applying")
      BY Zenon, <1>1, <2>1, Disturbance DEF At
    <2> QED
      BY Zenon, <2>1, <2>2, Disturbance
  <1> QED
    BY Zenon, <1>1 DEF CleanRounds, At

LEMMA CleanNext ==
    ASSUME PanelTypeOK, CleanRounds, Kind
    PROVE  CleanRounds'
PROOF
  <1>1. req \in [Procs -> Requests]
    BY Zenon DEF PanelTypeOK
  <1>2. ASSUME NEW r \in Procs, OwnStep(r)
        PROVE  CleanRounds'
    <2>1. PICK q \in Requests :
            req' = [req EXCEPT ![r] = q] /\ (q.at = "applying" => q.list = binds)
      BY Zenon, <1>2 DEF OwnStep
    <2>2. \A p \in Procs : req'[p] = IF p = r THEN q ELSE req[p]
      BY <1>1, <2>1
    <2> QED
      BY Zenon, <1>2, <2>1, <2>2, SameRounds DEF OwnStep
  <1>3. ASSUME NEW r \in Procs, LoggedIn(r) \/ Round(r)
        PROVE  CleanRounds'
    <2>1. \A p \in Procs : req'[p] = IF p = r THEN Idle ELSE req[p]
      BY Zenon, <1>1, <1>3 DEF LoggedIn, Round, End
    <2>2. Idle.at # "applying"
      BY DEF Idle
    <2>3. binds' = binds
      BY Zenon, <1>3 DEF LoggedIn, Round
    <2> QED
      BY Zenon, <2>1, <2>2, <2>3, SameRounds
  <1>4. ASSUME NEW r \in Procs, Written(r)
        PROVE  CleanRounds'
    <2>1. \A p \in Procs : req'[p] = IF p = r THEN [req[r] EXCEPT !.at = "commit"] ELSE req[p]
      BY <1>1, <1>4 DEF Written, GoOn
    <2>2. [req[r] EXCEPT !.at = "commit"].at = "commit"
      BY <1>1, <1>4, Carried DEF Written, At, LimitChanges, PasswordChanges, TokenChanges
    <2> QED
      BY Zenon, <1>4, <2>1, <2>2, SameRounds DEF Written
  <1>5. ASSUME NEW r \in Procs, Commit(r)
        PROVE  CleanRounds'
    BY Zenon, <1>5, CommitMoves, SameRounds DEF Commit, local
  <1>6. ASSUME NEW r \in Procs, Retain(r)
        PROVE  CleanRounds'
    <2>1. ASSUME NEW p \in Procs, req'[p].at = "applying"
          PROVE  req'[p] = req[p]
      <3>1. CASE p # r /\ At(p, "login")
        BY <1>1, <1>6, <2>1, <3>1, Carried DEF Retain, Logins, At
      <3>2. CASE p = r \/ ~At(p, "login")
        BY <1>6, <2>1, <3>2 DEF Retain, Idle
      <3> QED
        BY Zenon, <3>1, <3>2
    <2> QED
      BY <1>6, <2>1, SameRounds DEF Retain, local
  <1>7. ASSUME NEW r \in Procs, Rebound(r)
        PROVE  CleanRounds'
    BY Zenon, <1>7, NoneClean, Disturbance DEF Rebound
  <1>8. CASE Quiet
    BY Zenon, <1>8, SameRounds DEF Quiet
  <1>9. CASE SyncApply
    BY Zenon, <1>9, NoneClean DEF SyncApply
  <1>10. CASE Restart
    BY Zenon, <1>10 DEF Restart, CleanRounds, At, Idle
  <1> QED
    BY Zenon, <1>2, <1>3, <1>4, <1>5, <1>6, <1>7, <1>8, <1>9, <1>10 DEF Kind

LEMMA AppliesNext ==
    ASSUME PanelTypeOK, Writing, CleanRounds, Applies, Kind
    PROVE  Applies'
PROOF
  <1>1. req \in [Procs -> Requests]
    BY Zenon DEF PanelTypeOK
  <1>2. ASSUME NEW r \in Procs, OwnStep(r)
        PROVE  Applies'
    <2>1. PICK q \in Requests :
            /\ req' = [req EXCEPT ![r] = q]
            /\ Owes(req[r]) => Owes(q) \/ sure' = FALSE \/ cfg.token # Absent
      BY Zenon, <1>2 DEF OwnStep
    <2>2. \A p \in Procs : req'[p] = IF p = r THEN q ELSE req[p]
      BY <1>1, <2>1
    <2>3. cfg' = cfg /\ host' = host /\ binds' = binds /\ sure' \in {sure, FALSE}
      BY Zenon, <1>2 DEF OwnStep, store
    <2>4. ASSUME sure', cfg'.token = Absent, \A p \in Procs : ~Owes(req'[p])
          PROVE  host' = binds'
      <3>1. sure /\ cfg.token = Absent
        BY Zenon, <2>3, <2>4
      <3>2. ~Owes(req[r])
        BY Zenon, <2>1, <2>2, <2>4, <3>1
      <3>3. \A p \in Procs : ~Owes(req[p])
        BY Zenon, <2>2, <2>4, <3>2
      <3> QED
        BY <2>3, <3>1, <3>3 DEF Applies
    <2> QED
      BY Zenon, <2>4 DEF Applies
  <1>3. ASSUME cfg' = cfg, host' = host, binds' = binds, sure' = sure,
               \A p \in Procs : Owes(req[p]) => Owes(req'[p])
        PROVE  Applies'
    BY <1>3, Zenon DEF Applies
  <1>4. ASSUME NEW r \in Procs, LoggedIn(r)
        PROVE  Applies'
    <2>1. \A p \in Procs : req'[p] = IF p = r THEN Idle ELSE req[p]
      BY <1>1, <1>4 DEF LoggedIn, End
    <2>2. ~Owes(req[r])
      BY Zenon, <1>4 DEF LoggedIn, At, Owes
    <2> QED
      BY Zenon, <1>3, <1>4, <2>1, <2>2 DEF LoggedIn, store
  <1>5. ASSUME NEW r \in Procs, Written(r)
        PROVE  Applies'
    <2>1. \A p \in Procs \ {r} : req'[p] = req[p]
      BY <1>1, <1>5 DEF Written, GoOn
    <2>2. ~Owes(req[r])
      BY Zenon, <1>5 DEF Written, At, Owes
    <2> QED
      BY Zenon, <1>3, <1>5, <2>1, <2>2 DEF Written
  <1>6. ASSUME NEW r \in Procs, Retain(r)
        PROVE  Applies'
    <2>1. ASSUME NEW p \in Procs, Owes(req[p])
          PROVE  req'[p] = req[p]
      BY <1>6, <2>1 DEF Retain, At, Owes
    <2> QED
      BY <1>3, <1>6, <2>1 DEF Retain, store, local
  <1>7. ASSUME NEW r \in Procs, Rebound(r)
        PROVE  Applies'
    <2>1. req'[r].at = "apply"
      BY Zenon, <1>7, Disturbance DEF Rebound
    <2> QED
      BY Zenon, <2>1 DEF Applies, Owes
  <1>8. CASE Quiet
    BY <1>3, <1>8 DEF Quiet, store
  <1>9. CASE SyncApply
    <2>1. sure' = (sure /\ cfg.token # Absent) /\ cfg' = cfg
      BY Zenon, <1>9 DEF SyncApply, store
    <2> QED
      BY <2>1, Zenon DEF Applies
  <1>10. CASE Restart
    BY <1>10, Zenon DEF Restart, Applies
  <1>11. ASSUME NEW r \in Procs, Round(r)
         PROVE  Applies'
    <2>1. sure' => req[r].clean
      BY <1>11, Zenon DEF Round
    <2>2. req[r].clean => req[r].list = binds
      BY Zenon, <1>11 DEF CleanRounds, Round
    <2>3. host' = req[r].list /\ binds' = binds
      BY Zenon, <1>11 DEF Round
    <2> QED
      BY <2>1, <2>2, <2>3, Zenon DEF Applies
  <1>12. ASSUME NEW r \in Procs, Commit(r)
         PROVE  Applies'
    <2>1. host' = host /\ binds' = binds /\ sure' = sure
      BY <1>12 DEF Commit, local
    <2>2. \A p \in Procs \ {r} : req'[p] = req[p]
      BY Zenon, <1>12, CommitMoves
    <2>3. ~Owes(req[r])
      BY <1>12 DEF Commit, At, Owes
    <2>5. req[r] \in Requests /\ req[r].at = "commit"
      BY Zenon, <1>12, CommitMoves
    <2>6. cfg \in Settings /\ cfg' = [cfg EXCEPT ![req[r].field] = req[r].value]
      BY Zenon, <1>12, <2>5 DEF Commit, Writing, PanelTypeOK, At
    <2>4. cfg'.token = Absent => cfg.token = Absent \/ Owes(req'[r])
      <3>1. CASE req[r].field = "token"
        <4>1. cfg'.token = req[r].value
          BY Zenon, <2>5, <2>6, <3>1, Written1
        <4> QED
          BY Zenon, <1>12, <3>1, <4>1, CommitMoves DEF Owes
      <3>2. CASE req[r].field # "token"
        BY Zenon, <2>5, <2>6, <3>2, Written1
      <3> QED
        BY Zenon, <3>1, <3>2
    <2>7. (\A p \in Procs : ~Owes(req'[p])) => \A p \in Procs : ~Owes(req[p])
      BY Zenon, <2>2, <2>3
    <2> QED
      BY <2>1, <2>4, <2>7, Zenon DEF Applies
  <1> QED
    BY Zenon, <1>2, <1>4, <1>5, <1>6, <1>7, <1>8, <1>9, <1>10, <1>11, <1>12 DEF Kind

-----------------------------------------------------------------------------
(* Panel: the invariant, and what follows from it *)

LEMMA InvInit ==
    ASSUME PanelInit
    PROVE  IInv
PROOF
  <1>1. Idle \in Requests /\ Idle.at = "idle" /\ [at |-> "apply"] \in Requests
    BY Zenon, Kinds DEF Simple, Idle
  <1>2. Init0 \in Procs
    BY DEF Procs
  <1>3. /\ req \in [Procs -> Requests] /\ req[Init0].at = "apply"
        /\ \A p \in Procs : req[p].at \in {"idle", "apply"}
    BY Zenon, <1>1, <1>2 DEF PanelInit
  <1>4. cfg \in Settings /\ file = cfg /\ last = cfg /\ writer = Absent
    BY Zenon DEF PanelInit, Settings
  <1>5. /\ opened \in Seq([password : Nat, late : BOOLEAN])
        /\ Len(opened) = 1 /\ opened[1].password = cfg.password
    <2> DEFINE e == [password |-> 0, late |-> FALSE]
    <2>1. e \in [password : Nat, late : BOOLEAN] /\ e.password = 0
      OBVIOUS
    <2>2. opened = <<e>> /\ cfg.password = 0
      BY Zenon DEF PanelInit
    <2> HIDE DEF e
    <2>3. opened \in Seq([password : Nat, late : BOOLEAN])
      BY <2>1, <2>2
    <2>4. Len(opened) = 1 /\ opened[1] = e
      BY <2>2
    <2> QED
      BY Zenon, <2>1, <2>2, <2>3, <2>4
  <1>6. sessions = {1} /\ failures \in Nat /\ changer \in Nat /\ ops \in Nat /\ mishaps \in Nat
    BY Zenon DEF PanelInit
  <1>7. permit \in BOOLEAN /\ sync \in BOOLEAN /\ hasInst \in BOOLEAN /\ sure \in BOOLEAN
    BY Zenon DEF PanelInit
  <1>8. agent \in [pc : {"read", "connect", "open", "wait"}, token : {Absent, Token}]
    BY Zenon DEF PanelInit
  <1>9. binds \subseteq Bindings /\ host = binds
    BY Zenon DEF PanelInit
  <1>10. PanelTypeOK
    <2>1. sessions \subseteq 1..Len(opened)
      BY <1>5, <1>6
    <2> QED
      BY Zenon, <1>3, <1>4, <1>5, <1>6, <1>7, <1>8, <1>9, <2>1 DEF PanelTypeOK
  <1>11. Writing /\ FileLast /\ Logging /\ CleanRounds
    BY Zenon, <1>3, <1>4 DEF Writing, FileLast, Logging, CleanRounds, At
  <1>12. Sessions /\ Applies
    BY Zenon, <1>5, <1>6, <1>9 DEF Sessions, MayStay, Applies
  <1> QED
    BY <1>10, <1>11, <1>12 DEF IInv

LEMMA InvNext ==
    ASSUME IInv, [PanelNext]_panelVars
    PROVE  IInv'
PROOF
  <1>1. Kind
    BY Classified DEF IInv
  <1> QED
    BY <1>1, TypesNext, WritingNext, SessionsNext, CleanNext, AppliesNext DEF IInv

LEMMA Invariant == PanelSpec => []IInv
  BY InvInit, InvNext, PTL DEF PanelSpec

\* The state has its type: a request carries what its handler needs at every await, and
\* the start-up task only ever applies bindings.
THEOREM PanelTypeCorrect == PanelSpec => []PanelTypeOK
PROOF
  <1>1. IInv => PanelTypeOK
    BY DEF IInv
  <1> QED
    BY <1>1, Invariant, PTL

\* Store::update never loses a setting: with the lock free, the configuration in memory and
\* the one in the file are what was written last.
THEOREM SettingsAreKept == PanelSpec => []SettingsKept
PROOF
  <1>1. IInv => SettingsKept
    BY DEF IInv, Writing, FileLast, SettingsKept
  <1> QED
    BY <1>1, Invariant, PTL

\* change_password signs out every session but its own and those of the logins it
\* overtook, however many logins and changes run at once.
THEOREM OthersAreSignedOut == PanelSpec => []SignedOut
PROOF
  <1>1. ASSUME IInv
        PROVE  SignedOut
    <2>1. (\A r \in Reqs : ~At(r, "retain")) => ~Changing
      BY Zenon, <1>1 DEF IInv, PanelTypeOK, Changing, Procs, At
    <2> QED
      BY Zenon, <1>1, <2>1 DEF IInv, Sessions, MayStay, SignedOut
  <1> QED
    BY <1>1, Invariant, PTL

\* Without a token and with nothing under way, LocalWg::apply has brought the host to the
\* stored bindings, unless the last round failed or did not run alone.
THEOREM BindingsAreApplied == PanelSpec => []BindingsApplied
PROOF
  <1>1. ASSUME IInv
        PROVE  BindingsApplied
    <2>1. (\A r \in Procs : ~(req[r].at \in {"apply", "applying", "notify"}))
            => \A r \in Procs : ~Owes(req[r])
      BY Zenon DEF Owes
    <2> QED
      BY Zenon, <1>1, <2>1 DEF IInv, Applies, BindingsApplied, Standalone
  <1> QED
    BY <1>1, Invariant, PTL
=============================================================================
