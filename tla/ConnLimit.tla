----------------------------- MODULE ConnLimit ------------------------------
(***************************************************************************)
(* Temporary TCP connection limits (connlimit.rs): leases the watcher asks  *)
(* for over the control socket, saved in a file, turned into iptables rules *)
(* for the addresses of an instance, and reconciled every 30 s or sooner    *)
(* with the clock and the instances as they are by then.                    *)
(*                                                                         *)
(* apply, release and reconcile hold the manager's lock; job and at say who *)
(* has it and which step comes next. A request is cut off after 100 s at    *)
(* whatever step it is waiting.                                             *)
(***************************************************************************)
EXTENDS Naturals, FiniteSets

CONSTANTS
    Ids,        \* policy ids
    Vms,        \* instance ids
    Addrs,      \* addresses
    IpSets,     \* the sets of them an instance may have
    None,       \* stands for an absent policy, request or instance
    MaxTime,    \* bound: the clock
    MaxChanges, \* bound: requests and changes of instances
    MaxFaults,  \* bound: failing steps
    MaxCrashes  \* bound: restarts of the agent

ASSUME ConnLimitAssumption ==
    /\ IpSets \subseteq (SUBSET Addrs) \ {{}}
    /\ MaxTime \in Nat /\ MaxChanges \in Nat
    /\ MaxFaults \in Nat /\ MaxCrashes \in Nat

Gens == 0..MaxChanges
Leases == [vm : Vms, gen : Gens, ips : SUBSET Addrs, exp : 1..MaxTime]
Policies == [vm : Vms, gen : Gens, ips : SUBSET Addrs, exp : 1..MaxTime,
             rm : BOOLEAN]
Targets == [gen : Gens, ips : SUBSET Addrs, run : BOOLEAN]

ASSUME NoneAssumption == None \notin Policies \cup Leases \cup Targets

VARIABLES
    mem,     \* mem[i]: policy i of the manager's state; rm is remove_only
    disk,    \* the saved state
    rules,   \* installed rules: policy and address
    chain,   \* the chains they are in: "none", "ready", or "bare" of the marker
    now,     \* the clock
    inst,    \* inst[v]: what connlimit_target would report of v
    asked,     \* asked[i]: apply request for policy i, its target already resolved
    job,     \* the holder of the lock
    at,      \* its next step
    cur,     \* the policy it works on
    seen,    \* the target it has resolved
    todo,    \* reconcile: policies still to be looked at
    gens, changes, faults, crashes,
    lost,    \* history: a restart lost a change that was not saved, or a check failed
    calm     \* history: nothing failed or changed since reconcile began

world == <<now, inst, gens>>
task == <<job, at, cur, seen, todo>>
vars == <<mem, disk, rules, chain, now, inst, asked, job, at, cur, seen, todo, gens,
          changes, faults, crashes, lost, calm>>

TypeOK ==
    /\ mem \in [Ids -> Policies \cup {None}]
    /\ disk \in [Ids -> Policies \cup {None}]
    /\ rules \subseteq Ids \X Addrs
    /\ chain \in {"none", "ready", "bare"}
    /\ now \in 0..MaxTime
    /\ inst \in [Vms -> Targets \cup {None}]
    /\ asked \in [Ids -> Leases \cup {None}]
    /\ job \in {"none", "apply", "refresh", "again", "release", "reconcile"}
    /\ at \in {"none", "next", "act", "remove", "install", "clean"}
    /\ cur \in Ids \cup {None} /\ seen \in Targets \cup {None}
    /\ todo \subseteq Ids
    /\ gens \in 0..MaxChanges /\ changes \in 0..MaxChanges
    /\ faults \in 0..MaxFaults /\ crashes \in 0..MaxCrashes
    /\ lost \in BOOLEAN /\ calm \in BOOLEAN

\* The feature starts without policies, beside instances that are running.
Init ==
    /\ mem = [i \in Ids |-> None] /\ disk = mem /\ asked = mem
    /\ rules = {} /\ chain = "none" /\ now = 0
    /\ inst \in [Vms -> [gen : {0}, ips : IpSets, run : {TRUE}]]
    /\ job = "none" /\ at = "none" /\ cur = None /\ seen = None /\ todo = {}
    /\ gens = 0 /\ changes = 0 /\ faults = 0 /\ crashes = 0
    /\ lost = FALSE /\ calm = FALSE

-----------------------------------------------------------------------------
(* Steps shared by the operations *)

\* n parts of a step fail.
Failed(n) ==
    /\ faults + n <= MaxFaults
    /\ faults' = faults + n
    /\ calm' = (calm /\ n = 0)
Fine == Failed(0)
Fault == Failed(1)

\* Mutant of Active: leases do not end.
ActiveForever(i) == mem[i] # None /\ ~mem[i].rm

Active(i) == mem[i] # None /\ ~mem[i].rm /\ mem[i].exp > now
Own(i) == {<<i, a>> : a \in mem[i].ips}

\* save writes the whole state, or fails and leaves the file alone; n parts of
\* the step have failed before.
Saved(n) == disk' = mem' /\ Failed(n)
NotSaved(n) == UNCHANGED disk /\ Failed(n + 1)

\* remove_rules. A rule whose check fails (n = 1) is taken to be absent, and the
\* removal to have succeeded.
Removed(i, n) ==
    /\ lost' = (lost \/ n = 1)
    /\ \E s \in SUBSET (Own(i) \cap rules) :
          (s = Own(i) \cap rules <=> n = 0) /\ rules' = rules \ s

\* It failed, or was cut off, before its end.
RemovedInPart(i) ==
    /\ Fault /\ UNCHANGED <<mem, disk, lost>>
    /\ \E s \in SUBSET (Own(i) \cap rules) : rules' = rules \ s

\* What reconcile has found: the instance is gone or another one, stopped, has
\* other addresses, or is as it was.
\* Mutant of Gone: the generation is not compared.
GoneAbsent == seen = None

Gone == ~(seen # None /\ seen.gen = mem[cur].gen)
Stopped == ~Gone /\ ~(seen.run /\ seen.ips # {})
Moved == ~Gone /\ ~Stopped /\ seen.ips # mem[cur].ips
Same == ~Gone /\ ~Stopped /\ ~Moved

\* The lock is handed back; reconcile goes on with the next policy.
Done == job' = "none" /\ at' = "none" /\ cur' = None /\ seen' = None /\ todo' = {}
NextPolicy(left) ==
    at' = "next" /\ cur' = None /\ seen' = None /\ todo' = left /\ UNCHANGED job
Goto(step) == at' = step /\ UNCHANGED <<job, cur, seen, todo>>
Begin(j, step, i, target) ==
    job' = j /\ at' = step /\ cur' = i /\ seen' = target /\ todo' = {}

-----------------------------------------------------------------------------
(* apply *)

\* The handler resolves the target before it waits for the lock.
Request(i, v, e) ==
    /\ asked[i] = None
    /\ changes < MaxChanges
    /\ changes' = changes + 1
    /\ inst[v] # None /\ inst[v].run /\ inst[v].ips # {}
    /\ e > now
    /\ asked' = [asked EXCEPT ![i] = [vm |-> v, gen |-> inst[v].gen,
                                  ips |-> inst[v].ips, exp |-> e]]
    /\ UNCHANGED <<mem, disk, rules, chain, world, task, faults, crashes, lost, calm>>

\* An unexpired limit exists for this instance.
Clash(q) ==
    \E k \in Ids : /\ mem[k] # None /\ mem[k].exp > now
                   /\ mem[k].vm = q.vm /\ mem[k].gen = q.gen

\* A known policy is refreshed unless it is another one, on its way out or
\* expired.
Renew(i, q) ==
    /\ mem[i] # None
    /\ \/ /\ mem[i].vm = q.vm /\ mem[i].gen = q.gen /\ Active(i)
          /\ Begin(IF mem[i].ips = q.ips THEN "again" ELSE "refresh",
                   IF mem[i].ips = q.ips THEN "install" ELSE "remove", i,
                   [gen |-> q.gen, ips |-> q.ips, run |-> TRUE])
       \/ /\ ~(mem[i].vm = q.vm /\ mem[i].gen = q.gen /\ Active(i))
          /\ UNCHANGED task
    /\ Fine
    /\ UNCHANGED <<mem, disk>>

\* A new policy is saved before its rules are installed.
Enter(i, q) ==
    /\ mem[i] = None
    /\ \/ Clash(q) /\ Fine /\ UNCHANGED <<mem, disk, task>>
       \/ /\ ~Clash(q)
          /\ mem' = [mem EXCEPT ![i] = [vm |-> q.vm, gen |-> q.gen, ips |-> q.ips,
                                        exp |-> q.exp, rm |-> FALSE]]
          /\ \/ Saved(0) /\ Begin("apply", "install", i, None)
             \/ NotSaved(0) /\ UNCHANGED task

Apply(i) ==
    /\ job = "none"
    /\ asked[i] # None
    /\ asked' = [asked EXCEPT ![i] = None]
    /\ Renew(i, asked[i]) \/ Enter(i, asked[i])
    /\ UNCHANGED <<rules, chain, world, changes, crashes, lost>>

\* Other addresses: the rules for the old ones go first.
Refresh ==
    /\ job = "refresh" /\ at = "remove"
    /\ \/ \E n \in 0..1 :
          /\ Removed(cur, n)
          /\ mem' = [mem EXCEPT ![cur].ips = seen.ips]
          /\ \/ Saved(n) /\ Goto("install")
             \/ NotSaved(n) /\ Done
       \/ RemovedInPart(cur) /\ Done
    /\ UNCHANGED <<chain, world, asked, changes, crashes>>

\* ensure_chain: a chain that is missing is created, then marked as the agent's
\* own. One without the marker is taken for somebody else's and left alone.
EnsureChain == chain # "bare" /\ chain' = "ready"

\* It fails, possibly between the two steps, or a rule does later.
InstalledInPart ==
    \/ /\ UNCHANGED rules
       /\ chain' \in {chain, IF chain = "none" THEN "bare" ELSE chain}
    \/ EnsureChain /\ \E s \in SUBSET Own(cur) : rules' = rules \cup s

\* A new or refreshed policy whose rules could not be installed is put down for
\* removal.
PutDown == job \in {"apply", "refresh"} /\ mem' = [mem EXCEPT ![cur].rm = TRUE]

\* install_rules, which reconcile also calls for a policy whose target is as it
\* was. What is put down may not be saved either; when a step is cut off,
\* nothing more happens.
Install ==
    /\ at = "install" \/ (at = "act" /\ Same)
    /\ IF job = "reconcile" THEN NextPolicy(todo) ELSE Done
    /\ \/ EnsureChain /\ rules' = rules \cup Own(cur) /\ Fine /\ UNCHANGED <<mem, disk>>
       \/ /\ chain = "bare" /\ UNCHANGED <<rules, chain>>
          /\ \/ PutDown /\ \E n \in 0..1 : Failed(n) /\ disk' = IF n = 0 THEN mem' ELSE disk
             \/ job \notin {"apply", "refresh"} /\ Fine /\ UNCHANGED <<mem, disk>>
       \/ /\ InstalledInPart
          /\ Fault
          /\ \/ UNCHANGED <<mem, disk>>
             \/ PutDown /\ (disk' = mem' \/ UNCHANGED disk)
    /\ UNCHANGED <<world, asked, changes, crashes, lost>>

-----------------------------------------------------------------------------
(* release *)

\* Mutant of Release: the policy is forgotten before its rules are removed.
ReleaseForget(i) ==
    /\ job = "none"
    /\ changes < MaxChanges
    /\ changes' = changes + 1
    /\ mem[i] # None
    /\ mem' = [mem EXCEPT ![i] = None]
    /\ \/ Saved(0) /\ Begin("release", "clean", i, None)
       \/ NotSaved(0) /\ UNCHANGED task
    /\ UNCHANGED <<rules, chain, world, asked, crashes, lost>>

Release(i) ==
    /\ job = "none"
    /\ changes < MaxChanges
    /\ changes' = changes + 1
    /\ mem[i] # None
    /\ mem' = [mem EXCEPT ![i].rm = TRUE]
    /\ \/ Saved(0) /\ Begin("release", "remove", i, None)
       \/ NotSaved(0) /\ UNCHANGED task
    /\ UNCHANGED <<rules, chain, world, asked, crashes, lost>>

Withdraw ==
    /\ job = "release" /\ at = "remove"
    /\ \/ \E n \in 0..1 :
          /\ Removed(cur, n)
          /\ mem' = [mem EXCEPT ![cur] = None]
          /\ \/ Saved(n) /\ Goto("clean")
             \/ NotSaved(n) /\ Done
       \/ RemovedInPart(cur) /\ Done
    /\ UNCHANGED <<chain, world, asked, changes, crashes>>

EndOfRound == job = "reconcile" /\ at = "next" /\ todo = {}

\* cleanup_chain_if_empty, at the end of release and of reconcile: without
\* policies the chain is flushed, with it the marker, and removed. A chain
\* without marker is left alone.
Clean ==
    /\ at = "clean" \/ EndOfRound
    /\ Done
    /\ \/ /\ \A i \in Ids : mem[i] = None
          /\ \/ /\ rules' = {} /\ Fine
                /\ chain' = IF chain = "bare" THEN "bare" ELSE "none"
             \/ /\ \E s \in SUBSET rules : rules' = s
                /\ chain' \in {chain, IF chain = "ready" THEN "bare" ELSE chain}
                /\ Fault
       \/ (\E i \in Ids : mem[i] # None) /\ Fine /\ UNCHANGED <<rules, chain>>
    /\ UNCHANGED <<mem, disk, world, asked, changes, crashes, lost>>

-----------------------------------------------------------------------------
(* reconcile *)

Reconcile ==
    /\ job = "none"
    /\ job' = "reconcile" /\ at' = "next" /\ cur' = None /\ seen' = None
    /\ todo' = {i \in Ids : mem[i] # None}
    /\ calm' = TRUE
    /\ UNCHANGED <<mem, disk, rules, chain, world, asked, changes, faults, crashes, lost>>

\* A policy that left the list without being saved: the loop also passes over
\* the one that moved into its place.
SkipOne(i) ==
    LET left == todo \ {i} IN
    \/ left = {} /\ NextPolicy({})
    \/ \E k \in left : NextPolicy(left \ {k})

\* Released or expired.
Expire(i) ==
    /\ job = "reconcile" /\ at = "next" /\ i \in todo
    /\ ~Active(i)
    /\ \/ \E n \in 0..1 :
          /\ Removed(i, n)
          /\ mem' = [mem EXCEPT ![i] = None]
          /\ \/ Saved(n) /\ NextPolicy(todo \ {i})
             \/ NotSaved(n) /\ SkipOne(i)
       \/ RemovedInPart(i) /\ NextPolicy(todo \ {i})
    /\ UNCHANGED <<chain, world, asked, changes, crashes>>

\* Otherwise its target is resolved anew.
Resolve(i) ==
    /\ job = "reconcile" /\ at = "next" /\ i \in todo
    /\ Active(i)
    /\ \/ /\ at' = "act" /\ cur' = i /\ seen' = inst[mem[i].vm]
          /\ todo' = todo \ {i}
          /\ Fine
          /\ UNCHANGED job
       \/ Fault /\ NextPolicy(todo \ {i})
    /\ UNCHANGED <<mem, disk, rules, chain, world, asked, changes, crashes, lost>>

\* The instance is gone or another one, stopped, or has other addresses: the
\* rules are removed. Only then is the policy dropped, suspended or moved.
Retire ==
    /\ at = "act"
    /\ ~Same
    /\ \/ \E n \in 0..1 :
          /\ Removed(cur, n)
          /\ \/ /\ Gone
                /\ mem' = [mem EXCEPT ![cur] = None]
                /\ \/ Saved(n) /\ NextPolicy(todo)
                   \/ NotSaved(n) /\ SkipOne(cur)
             \/ /\ Stopped
                /\ mem' = [mem EXCEPT ![cur].ips = {}]
                /\ \/ mem[cur].ips = {} /\ UNCHANGED disk /\ Failed(n)
                   \/ mem[cur].ips # {} /\ (Saved(n) \/ NotSaved(n))
                /\ NextPolicy(todo)
             \/ /\ Moved
                /\ mem' = [mem EXCEPT ![cur].ips = seen.ips]
                /\ \/ Saved(n) /\ Goto("install")
                   \/ NotSaved(n) /\ NextPolicy(todo)
       \/ RemovedInPart(cur) /\ NextPolicy(todo)
    /\ UNCHANGED <<chain, world, asked, changes, crashes>>

-----------------------------------------------------------------------------
(* The world *)

Tick ==
    /\ now < MaxTime
    /\ now' = now + 1
    /\ calm' = FALSE
    /\ UNCHANGED <<mem, disk, rules, chain, inst, asked, task, gens, changes, faults, crashes,
                   lost>>

\* Instances are created and replaced, deleted, stopped and started, and given
\* other addresses.
Targeted(v, target) ==
    /\ changes < MaxChanges
    /\ changes' = changes + 1
    /\ inst' = [inst EXCEPT ![v] = target]
    /\ calm' = FALSE
    /\ UNCHANGED <<mem, disk, rules, chain, now, asked, task, faults, crashes, lost>>

Deploy(v) ==
    \E s \in IpSets :
        /\ gens' = gens + 1
        /\ Targeted(v, [gen |-> gens + 1, ips |-> s, run |-> TRUE])

Change(v) ==
    /\ inst[v] # None
    /\ UNCHANGED gens
    /\ \/ Targeted(v, None)
       \/ Targeted(v, [inst[v] EXCEPT !.run = ~@])
       \/ \E s \in IpSets :
             s # inst[v].ips /\ Targeted(v, [inst[v] EXCEPT !.ips = s])

Crash ==
    /\ crashes < MaxCrashes
    /\ crashes' = crashes + 1
    /\ mem' = disk
    /\ asked' = [i \in Ids |-> None]
    /\ Done
    /\ lost' = (lost \/ mem # disk)
    /\ calm' = FALSE
    /\ UNCHANGED <<disk, rules, chain, world, changes, faults>>

\* The reconciliation loop, and the steps of whoever holds the lock.
Loop ==
    \/ Reconcile \/ Retire \/ Install \/ Refresh \/ Withdraw
    \/ Clean
    \/ \E i \in Ids : Expire(i) \/ Resolve(i)

Next ==
    \/ Loop
    \/ \E i \in Ids : Apply(i) \/ Release(i)
    \/ \E i \in Ids, v \in Vms, e \in 1..MaxTime : Request(i, v, e)
    \/ Tick
    \/ \E v \in Vms : Deploy(v) \/ Change(v)
    \/ Crash

Spec == Init /\ [][Next]_vars

\* The loop runs on, and time passes.
FairSpec == Spec /\ WF_vars(Loop) /\ WF_vars(Tick)

-----------------------------------------------------------------------------
(* Properties *)

\* "persisted before firewall changes": unless a restart lost what could not be
\* saved, every installed rule belongs to a policy that lists its address, so
\* that release, expiry or reconciliation will find and remove it.
RulesCovered ==
    ~lost => \A r \in rules : mem[r[1]] # None /\ r[2] \in mem[r[1]].ips

\* apply: an instance has at most one unexpired limit.
OneLimitPerInstance ==
    \A i, k \in Ids : /\ i # k /\ mem[i] # None /\ mem[k] # None
                      /\ mem[i].exp > now /\ mem[k].exp > now
                      => <<mem[i].vm, mem[i].gen>> # <<mem[k].vm, mem[k].gen>>

\* The rules that ought to be there.
Expected ==
    {r \in Ids \X Addrs :
        /\ Active(r[1])
        /\ LET t == inst[mem[r[1]].vm] IN
           t # None /\ t.gen = mem[r[1]].gen /\ t.run /\ r[2] \in t.ips}

\* reconcile, "Revalidate saved policies against current instance records": a
\* round in which nothing fails or changes leaves the limits of exactly the
\* active policies on the current addresses of their running instances; other
\* rules remain only if a restart lost track of them, and are missing only if
\* the chain has lost its marker.
RoundExact ==
    EndOfRound /\ calm
        => /\ Expected \subseteq rules \/ chain = "bare"
           /\ rules \subseteq Expected \/ lost

\* Temporary limits end: when no lease is left no rule is either, whatever failed
\* on the way and whatever a restart lost.
LimitsEnd == <>[](rules = {})
=============================================================================
