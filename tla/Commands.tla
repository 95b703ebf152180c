------------------------------ MODULE Commands ------------------------------
(***************************************************************************)
(* Execution of platform commands by the agent: the command cache and the  *)
(* per-instance locks of CommandRunner (platform/commands.rs), the Link     *)
(* through which results leave (platform/mod.rs), and the platform, which   *)
(* may replay a command it has no result for on every new stream.           *)
(*                                                                         *)
(* One command may be executed by several background tasks over time (its   *)
(* cache entry expired, or the agent restarted); <<c, n>> is the n-th task  *)
(* spawned for command c.                                                   *)
(***************************************************************************)
EXTENDS Naturals, Sequences, FiniteSets

CONSTANTS
    Cmds,        \* commands the platform persists, one per command_id
    Vms,         \* instances
    VmOf,        \* VmOf[c] is the instance command c is about
    Kind,        \* Kind[c]: "vm" for lifecycle commands, "fwd" for port forwards
    NoId,        \* commands sent with an empty command_id
    LockIds,     \* identities of the mutexes vm_locks allocates
    SoftLimit,   \* CACHE_SOFT_LIMIT, of the cache and of vm_locks
    Capacity,    \* capacity of the stream's outgoing channel
    MaxRuns,     \* bound: tasks spawned per command
    MaxSessions, \* bound: streams opened
    MaxCrashes   \* bound: restarts of the agent

ASSUME CommandsAssumption ==
    /\ VmOf \in [Cmds -> Vms]
    /\ Kind \in [Cmds -> {"vm", "fwd"}]
    /\ NoId \subseteq Cmds
    /\ SoftLimit \in Nat
    /\ Capacity \in Nat \ {0}
    /\ MaxRuns \in Nat
    /\ MaxSessions \in Nat
    /\ MaxCrashes \in Nat

Runs == Cmds \X (1..MaxRuns)
CmdOf(r) == r[1]
NoLock == "none"
ASSUME NoLockAssumption == NoLock \notin LockIds

VARIABLES
    cache,     \* cache[c]: "absent", "running", "done", or "stale" (done, older than RESULT_TTL)
    ran,       \* ran[c]: tasks spawned for c so far
    pc,        \* pc[r]: progress of task r
    lockOf,    \* lockOf[r]: the mutex task r waits for or holds
    vmLocks,   \* the vm_locks map
    link,      \* the session whose sender Link holds, 0 for none
    open,      \* the session whose receive loop runs, 0 for none
    sessions,  \* streams opened so far
    alive,     \* the open stream still carries messages
    up,        \* results queued on the open stream
    down,      \* commands sent on the open stream and not yet dispatched
    target,    \* target[r]: the session whose sender task r took from Link
    sent,      \* platform: commands sent on the open stream
    answered,  \* platform: commands it has a result for
    crashes,   \* restarts so far
    expired    \* history: expired[c] results of c outlived RESULT_TTL

runVars == <<cache, ran, pc, lockOf, vmLocks, expired>>
netVars == <<link, open, sessions, alive, up, down, sent>>
vars == <<cache, ran, pc, lockOf, vmLocks, link, open, sessions, alive, up,
          down, target, sent, answered, crashes, expired>>

PCs == {"none", "spawned", "queued", "working", "replied", "cached", "sending",
        "over"}

TypeOK ==
    /\ cache \in [Cmds -> {"absent", "running", "done", "stale"}]
    /\ ran \in [Cmds -> 0..MaxRuns]
    /\ pc \in [Runs -> PCs]
    /\ lockOf \in [Runs -> LockIds \cup {NoLock}]
    /\ vmLocks \in [Vms -> LockIds \cup {NoLock}]
    /\ link \in 0..MaxSessions
    /\ open \in 0..MaxSessions
    /\ sessions \in 0..MaxSessions
    /\ alive \in BOOLEAN
    /\ up \in Seq(Runs)
    /\ down \in Seq(Cmds)
    /\ target \in [Runs -> 0..MaxSessions]
    /\ sent \in SUBSET Cmds
    /\ answered \in SUBSET Cmds
    /\ crashes \in 0..MaxCrashes
    /\ expired \in [Cmds -> Nat]

Init ==
    /\ cache = [c \in Cmds |-> "absent"]
    /\ ran = [c \in Cmds |-> 0]
    /\ pc = [r \in Runs |-> "none"]
    /\ lockOf = [r \in Runs |-> NoLock]
    /\ vmLocks = [v \in Vms |-> NoLock]
    /\ link = 0
    /\ open = 0
    /\ sessions = 0
    /\ alive = FALSE
    /\ up = <<>>
    /\ down = <<>>
    /\ target = [r \in Runs |-> 0]
    /\ sent = {}
    /\ answered = {}
    /\ crashes = 0
    /\ expired = [c \in Cmds |-> 0]

-----------------------------------------------------------------------------
(* CommandRunner::submit *)

\* Mutant of Pruned: young results are dropped as well.
PrunedYoung(ch) ==
    IF Cardinality({c \in Cmds : ch[c] # "absent"}) >= SoftLimit
    THEN [c \in Cmds |-> IF ch[c] \in {"done", "stale"} THEN "absent" ELSE ch[c]]
    ELSE ch

\* The entries a full cache keeps: Running ones and results younger than
\* RESULT_TTL.
Pruned(ch) ==
    IF Cardinality({c \in Cmds : ch[c] # "absent"}) >= SoftLimit
    THEN [c \in Cmds |-> IF ch[c] = "stale" THEN "absent" ELSE ch[c]]
    ELSE ch

Spawn(c) ==
    /\ ran[c] < MaxRuns
    /\ ran' = [ran EXCEPT ![c] = @ + 1]
    /\ pc' = [pc EXCEPT ![<<c, ran[c] + 1>>] = "spawned"]
    /\ UNCHANGED <<lockOf, vmLocks, target, up>>

\* A command not in the cache is marked Running and executed by a new task.
SubmitNew(c) ==
    /\ \/ c \in NoId /\ UNCHANGED cache
       \/ /\ c \notin NoId
          /\ cache[c] = "absent"
          /\ cache' = [Pruned(cache) EXCEPT ![c] = "running"]
    /\ Spawn(c)

\* A replay of a running command is ignored.
SubmitRunning(c) ==
    /\ c \notin NoId
    /\ cache[c] = "running"
    /\ UNCHANGED <<cache, ran, pc, lockOf, vmLocks, target, up>>

\* The task whose result is cached for c: the last one spawned.
CachedRun(c) == <<c, ran[c]>>

\* A replay of a finished command queues the cached result again; the receive
\* loop waits while the channel is full.
SubmitDone(c) ==
    /\ c \notin NoId
    /\ cache[c] \in {"done", "stale"}
    /\ \/ /\ alive
          /\ Len(up) < Capacity
          /\ up' = Append(up, CachedRun(c))
       \/ ~alive /\ UNCHANGED up
    /\ UNCHANGED <<cache, ran, pc, lockOf, vmLocks, target>>

Dispatch ==
    /\ open # 0
    /\ down # <<>>
    /\ down' = Tail(down)
    /\ LET c == Head(down) IN SubmitNew(c) \/ SubmitRunning(c) \/ SubmitDone(c)
    /\ UNCHANGED <<link, open, sessions, alive, sent, answered, crashes, expired>>

-----------------------------------------------------------------------------
(* The task: execute, cache the reply, send it *)

Step(r, from, to) == pc[r] = from /\ pc' = [pc EXCEPT ![r] = to]

\* Mutexes some task waits for or holds: their strong count exceeds one.
Referenced == {lockOf[r] : r \in Runs} \ {NoLock}

\* Mutant of PrunedLocks: referenced entries are dropped as well.
PrunedAllLocks ==
    IF Cardinality({v \in Vms : vmLocks[v] # NoLock}) > SoftLimit
    THEN [v \in Vms |-> NoLock]
    ELSE vmLocks

\* lock_vm drops unreferenced entries when the map is over the limit.
PrunedLocks ==
    IF Cardinality({v \in Vms : vmLocks[v] # NoLock}) > SoftLimit
    THEN [v \in Vms |-> IF vmLocks[v] \in Referenced THEN vmLocks[v] ELSE NoLock]
    ELSE vmLocks

\* lock_vm, up to the wait for the mutex.
LockVm(r) ==
    /\ Kind[CmdOf(r)] = "vm"
    /\ Step(r, "spawned", "queued")
    /\ LET v == VmOf[CmdOf(r)] IN
       \E l \in LockIds :
          /\ IF PrunedLocks[v] # NoLock
             THEN l = PrunedLocks[v]
             ELSE /\ l \notin Referenced
                  /\ \A w \in Vms : PrunedLocks[w] # l
          /\ vmLocks' = [PrunedLocks EXCEPT ![v] = l]
          /\ lockOf' = [lockOf EXCEPT ![r] = l]
    /\ UNCHANGED <<cache, ran, expired, target, answered, crashes, netVars>>

Holder(l) == {r \in Runs : pc[r] = "working" /\ lockOf[r] = l}

\* The wait in lock_vm ends.
Acquire(r) ==
    /\ Holder(lockOf[r]) = {}
    /\ Step(r, "queued", "working")
    /\ UNCHANGED <<cache, ran, lockOf, vmLocks, expired, target, answered,
                   crashes, netVars>>

\* Port-forward commands go straight to the backend.
BeginForward(r) ==
    /\ Kind[CmdOf(r)] = "fwd"
    /\ Step(r, "spawned", "working")
    /\ UNCHANGED <<cache, ran, lockOf, vmLocks, expired, target, answered,
                   crashes, netVars>>

\* A payload that does not parse is refused before any lock is taken.
Refuse(r) ==
    /\ Step(r, "spawned", "replied")
    /\ UNCHANGED <<cache, ran, lockOf, vmLocks, expired, target, answered,
                   crashes, netVars>>

\* run() returns and the guard, if any, is dropped.
Finish(r) ==
    /\ Step(r, "working", "replied")
    /\ lockOf' = [lockOf EXCEPT ![r] = NoLock]
    /\ UNCHANGED <<cache, ran, vmLocks, expired, target, answered, crashes,
                   netVars>>

\* Mutant of CacheReply: the command stays marked Running.
CacheNothing(r) ==
    /\ Step(r, "replied", "cached")
    /\ UNCHANGED <<cache, ran, lockOf, vmLocks, expired, target, answered, crashes,
                   netVars>>

\* The reply is cached before it is sent.
CacheReply(r) ==
    /\ Step(r, "replied", "cached")
    /\ cache' = IF CmdOf(r) \in NoId THEN cache
                ELSE [cache EXCEPT ![CmdOf(r)] = "done"]
    /\ UNCHANGED <<ran, lockOf, vmLocks, expired, target, answered, crashes,
                   netVars>>

\* Link::send clones the current sender.
TakeLink(r) ==
    /\ Step(r, "cached", IF link = 0 THEN "over" ELSE "sending")
    /\ target' = [target EXCEPT ![r] = link]
    /\ UNCHANGED <<cache, ran, lockOf, vmLocks, expired, answered, crashes,
                   netVars>>

\* Mutant of Push: a full channel loses the result.
TryPush(r) ==
    /\ Step(r, "sending", "over")
    /\ target' = [target EXCEPT ![r] = 0]
    /\ up' = IF target[r] = open /\ alive /\ Len(up) < Capacity
             THEN Append(up, r) ELSE up
    /\ UNCHANGED <<cache, ran, lockOf, vmLocks, expired, answered, crashes, link,
                   open, sessions, alive, down, sent>>

\* The channel takes the result, or its stream is gone and the result is lost.
Push(r) ==
    /\ Step(r, "sending", "over")
    /\ target' = [target EXCEPT ![r] = 0]
    /\ \/ /\ target[r] = open /\ alive
          /\ Len(up) < Capacity
          /\ up' = Append(up, r)
       \/ /\ ~(target[r] = open /\ alive)
          /\ UNCHANGED up
    /\ UNCHANGED <<cache, ran, lockOf, vmLocks, expired, answered, crashes, link,
                   open, sessions, alive, down, sent>>

\* A cached result grows older than RESULT_TTL.
Expire(c) ==
    /\ cache[c] = "done"
    /\ cache' = [cache EXCEPT ![c] = "stale"]
    /\ expired' = [expired EXCEPT ![c] = @ + 1]
    /\ UNCHANGED <<ran, pc, lockOf, vmLocks, target, answered, crashes, netVars>>

-----------------------------------------------------------------------------
(* The stream and the platform *)

\* session: the stream is open and its sender is put in Link.
OpenStream ==
    /\ open = 0
    /\ sessions < MaxSessions
    /\ sessions' = sessions + 1
    /\ open' = sessions + 1
    /\ link' = sessions + 1
    /\ alive' = TRUE
    /\ up' = <<>>
    /\ down' = <<>>
    /\ sent' = {}
    /\ UNCHANGED <<runVars, target, answered, crashes>>

\* The connection is lost; whatever was under way on it is too.
BreakStream ==
    /\ alive
    /\ sessions < MaxSessions
    /\ alive' = FALSE
    /\ up' = <<>>
    /\ UNCHANGED <<runVars, link, open, sessions, down, target, sent, answered,
                   crashes>>

\* The receive loop notices and the session ends.
EndSession ==
    /\ open # 0
    /\ ~alive
    /\ link' = IF link = open THEN 0 ELSE link
    /\ open' = 0
    /\ down' = <<>>
    /\ sent' = {}
    /\ UNCHANGED <<runVars, sessions, alive, up, target, answered, crashes>>

PlatformSend(c) ==
    /\ alive
    /\ c \notin sent \cup answered
    /\ sent' = sent \cup {c}
    /\ down' = Append(down, c)
    /\ UNCHANGED <<runVars, link, open, sessions, alive, up, target, answered,
                   crashes>>

PlatformReceive ==
    /\ alive
    /\ up # <<>>
    /\ up' = Tail(up)
    /\ answered' = answered \cup {CmdOf(Head(up))}
    /\ UNCHANGED <<runVars, link, open, sessions, alive, down, target, sent,
                   crashes>>

\* The agent process dies: cache, locks and tasks were only in memory.
Crash ==
    /\ crashes < MaxCrashes
    /\ sessions < MaxSessions
    /\ crashes' = crashes + 1
    /\ cache' = [c \in Cmds |-> "absent"]
    /\ pc' = [r \in Runs |-> IF pc[r] = "none" THEN "none" ELSE "over"]
    /\ lockOf' = [r \in Runs |-> NoLock]
    /\ vmLocks' = [v \in Vms |-> NoLock]
    /\ link' = 0
    /\ open' = 0
    /\ alive' = FALSE
    /\ up' = <<>>
    /\ down' = <<>>
    /\ sent' = {}
    /\ target' = [r \in Runs |-> 0]
    /\ UNCHANGED <<ran, sessions, answered, expired>>

TaskStep(r) ==
    LockVm(r) \/ Acquire(r) \/ BeginForward(r) \/ Refuse(r) \/ Finish(r)
        \/ CacheReply(r) \/ TakeLink(r) \/ Push(r)

Next ==
    \/ Dispatch
    \/ \E r \in Runs : TaskStep(r)
    \/ \E c \in Cmds : Expire(c) \/ PlatformSend(c)
    \/ OpenStream \/ BreakStream \/ EndSession \/ PlatformReceive \/ Crash

Spec == Init /\ [][Next]_vars

\* The executor runs every task and the receive loop; the transport delivers
\* what a live stream carries; the platform re-sends what it has no result for;
\* after the last allowed failure the agent stays connected.
Fairness ==
    /\ WF_vars(Dispatch)
    /\ \A r \in Runs : WF_vars(TaskStep(r))
    /\ \A c \in Cmds : WF_vars(PlatformSend(c))
    /\ WF_vars(OpenStream) /\ WF_vars(EndSession) /\ WF_vars(PlatformReceive)

FairSpec == Spec /\ Fairness

-----------------------------------------------------------------------------
(* Properties *)

\* lock_vm: two lifecycle commands of one instance never execute at the same
\* time, also when vm_locks is pruned while tasks wait.
OneLifecycleCommandPerVm ==
    \A q, r \in Runs :
        /\ pc[q] = "working" /\ pc[r] = "working" /\ q # r
        /\ Kind[CmdOf(q)] = "vm" /\ Kind[CmdOf(r)] = "vm"
        => VmOf[CmdOf(q)] # VmOf[CmdOf(r)]

\* submit: a command with an id is executed again only after its result has
\* outlived RESULT_TTL or the agent has restarted, however often it is replayed.
AtMostOnce ==
    \A c \in Cmds \ NoId : ran[c] <= 1 + crashes + expired[c]

Underway(c) ==
    \E r \in Runs :
        /\ CmdOf(r) = c
        /\ \/ pc[r] \in {"spawned", "queued", "working", "replied", "cached"}
           \/ pc[r] = "sending" /\ target[r] = open

\* submit's task caches a reply before it sends it: whatever the platform has
\* sent on the live stream is still queued, under way towards this stream, in
\* its channel, or answered. In particular a replay that was ignored because
\* the command was running is answered on the stream it arrived on.
NoLostResult ==
    alive => \A c \in sent :
        \/ c \in answered
        \/ \E i \in 1..Len(down) : down[i] = c
        \/ \E i \in 1..Len(up) : CmdOf(up[i]) = c
        \/ Underway(c)

\* Every command the platform persists is answered in the end, across lost
\* streams, full channels, expired results and restarts.
EveryCommandAnswered == \A c \in Cmds : <>(c \in answered)
=============================================================================
