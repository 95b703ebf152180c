--------------------------- MODULE CommandsProofs ---------------------------
(***************************************************************************)
(* Proofs about Commands, for any number of commands, instances, streams    *)
(* and restarts, any soft limit and any channel capacity.                   *)
(***************************************************************************)
EXTENDS Commands, TLAPS

\* Tasks that have not cached their reply yet.
Active == {"spawned", "queued", "working", "replied"}

\* Tasks are numbered in the order they are spawned.
Numbered == \A r \in Runs : pc[r] # "none" => r[2] <= ran[CmdOf(r)]

\* A command that is in the cache was executed.
CachedRan == \A c \in Cmds : cache[c] # "absent" => ran[c] >= 1

\* Only a task in or before the critical section refers to a mutex.
FreeHoldsNothing ==
    \A r \in Runs : pc[r] \notin {"queued", "working"} => lockOf[r] = NoLock

\* The mutex a lifecycle task waits for or holds is the instance's current one.
LocksCurrent ==
    \A r \in Runs :
        Kind[CmdOf(r)] = "vm" /\ pc[r] \in {"queued", "working"}
        => /\ lockOf[r] # NoLock
           /\ lockOf[r] = vmLocks[VmOf[CmdOf(r)]]

\* A mutex has one holder.
OneHolder ==
    \A q, r \in Runs :
        q # r /\ pc[q] = "working" /\ pc[r] = "working" /\ lockOf[q] # NoLock
        => lockOf[q] # lockOf[r]

LockInv == FreeHoldsNothing /\ LocksCurrent /\ OneHolder

\* A task at work on a command with an id keeps it marked Running.
ActiveMarked ==
    \A r \in Runs : pc[r] \in Active /\ CmdOf(r) \notin NoId
                    => cache[CmdOf(r)] = "running"

\* At most one task is at work on a command with an id.
OneActive ==
    \A q, r \in Runs :
        /\ q # r /\ CmdOf(q) = CmdOf(r) /\ CmdOf(q) \notin NoId
        => ~(pc[q] \in Active /\ pc[r] \in Active)

\* Executions are paid for by restarts and expired results.
Paid ==
    \A c \in Cmds \ NoId :
        ran[c] <= crashes + expired[c]
                  + (IF cache[c] \in {"running", "done"} THEN 1 ELSE 0)

OnceInv == ActiveMarked /\ OneActive /\ Paid

\* Some task works on every command marked Running.
RunningIsActive ==
    \A c \in Cmds : cache[c] = "running"
                    => \E r \in Runs : CmdOf(r) = c /\ pc[r] \in Active

\* Commands without an id are not cached.
NoIdUncached == \A c \in NoId : cache[c] = "absent"

\* Link has the sender of the live stream.
LinkIsOpen == alive => open # 0 /\ link = open

\* Where a command the platform sent on the live stream may be.
InDown(c) == \E i \in 1..Len(down) : down[i] = c
InUp(c) == \E i \in 1..Len(up) : CmdOf(up[i]) = c
Accounted(c) == c \in answered \/ InDown(c) \/ InUp(c) \/ Underway(c)

DeliveryInv ==
    /\ RunningIsActive /\ NoIdUncached /\ LinkIsOpen
    /\ alive => \A c \in sent : Accounted(c)

-----------------------------------------------------------------------------
(* Types *)

\* A task is a command and a number.
LEMMA RunsFact ==
    /\ \A r \in Runs : /\ CmdOf(r) \in Cmds
                       /\ r[2] \in 1..MaxRuns
                       /\ r = <<CmdOf(r), r[2]>>
    /\ \A c \in Cmds, n \in 1..MaxRuns :
          <<c, n>> \in Runs /\ CmdOf(<<c, n>>) = c
BY DEF Runs, CmdOf

\* Channels start empty.
LEMMA EmptySeqs == <<>> \in Seq(Runs) /\ <<>> \in Seq(Cmds)
OBVIOUS

\* What the next-state relation is made of, as a case split.
LEMMA NextCases ==
    ASSUME Next
    PROVE  \/ Dispatch
           \/ \E r \in Runs : LockVm(r)
           \/ \E r \in Runs : Acquire(r)
           \/ \E r \in Runs : BeginForward(r)
           \/ \E r \in Runs : Refuse(r)
           \/ \E r \in Runs : Finish(r)
           \/ \E r \in Runs : CacheReply(r)
           \/ \E r \in Runs : TakeLink(r)
           \/ \E r \in Runs : Push(r)
           \/ \E c \in Cmds : Expire(c)
           \/ \E c \in Cmds : PlatformSend(c)
           \/ OpenStream \/ BreakStream \/ EndSession \/ PlatformReceive \/ Crash
BY DEF Next, TaskStep

\* What is in the cache was executed, and executions are numbered.
TypeInv == TypeOK /\ Numbered /\ CachedRan

\* Initially nothing was executed.
LEMMA TypeInit == Init => TypeInv
<1> SUFFICES ASSUME Init PROVE TypeInv
    OBVIOUS
<1>0. alive \in BOOLEAN
  BY Zenon DEF Init
<1>1. TypeOK
  BY <1>0, CommandsAssumption, EmptySeqs DEF Init, TypeOK, PCs
<1>2. Numbered /\ CachedRan
  BY DEF Init, Numbered, CachedRan
<1> QED BY <1>1, <1>2 DEF TypeInv

\* Pruning keeps the cache well formed and brings nothing back.
LEMMA PrunedType ==
    ASSUME cache \in [Cmds -> {"absent", "running", "done", "stale"}]
    PROVE  /\ Pruned(cache) \in [Cmds -> {"absent", "running", "done", "stale"}]
           /\ \A c \in Cmds : \/ Pruned(cache)[c] = cache[c]
                              \/ cache[c] = "stale" /\ Pruned(cache)[c] = "absent"
BY DEF Pruned

\* Every step keeps the types, the numbering and the provenance of the cache.
LEMMA TypeStep == TypeInv /\ [Next]_vars => TypeInv'
<1> SUFFICES ASSUME TypeInv, [Next]_vars PROVE TypeInv'
    OBVIOUS
<1> USE CommandsAssumption, EmptySeqs
<1> USE DEF TypeInv, Numbered, CachedRan
<1>1. CASE Dispatch
  <2> DEFINE c == Head(down)
  <2>0. c \in Cmds /\ Tail(down) \in Seq(Cmds)
    BY <1>1 DEF Dispatch, TypeOK
  <2> HIDE DEF c
  <2>1. CASE SubmitNew(c)
    <3>1. ran[c] + 1 \in 1..MaxRuns /\ <<c, ran[c] + 1>> \in Runs
      BY <2>0, <2>1, RunsFact DEF SubmitNew, Spawn, TypeOK
    <3>2. cache' \in [Cmds -> {"absent", "running", "done", "stale"}]
      BY Zenon, <2>0, <2>1, PrunedType DEF SubmitNew, TypeOK
    <3>3. ran' \in [Cmds -> 0..MaxRuns] /\ pc' \in [Runs -> PCs]
      BY SMTT(30), <2>0, <2>1, <3>1 DEF SubmitNew, Spawn, TypeOK, PCs
    <3>4. TypeOK'
      BY Zenon, <1>1, <2>0, <2>1, <3>2, <3>3 DEF Dispatch, SubmitNew, Spawn, TypeOK
    <3>5. Numbered'
      <4> SUFFICES ASSUME NEW r \in Runs, pc'[r] # "none"
                   PROVE  r[2] <= ran'[CmdOf(r)]
          OBVIOUS
      <4>1. CmdOf(r) \in Cmds /\ r[2] \in 1..MaxRuns /\ r = <<CmdOf(r), r[2]>>
        BY RunsFact
      <4>2. CASE r = <<c, ran[c] + 1>>
        BY <2>0, <2>1, <3>1, <4>1, <4>2 DEF SubmitNew, Spawn, TypeOK
      <4>3. CASE r # <<c, ran[c] + 1>>
        BY <2>0, <2>1, <3>1, <4>1, <4>3 DEF SubmitNew, Spawn, TypeOK
      <4> QED BY <4>2, <4>3
    <3>6. \A d \in Cmds : cache'[d] # "absent" => cache[d] # "absent" \/ d = c
      BY Zenon, <2>0, <2>1, PrunedType DEF SubmitNew, TypeOK
    <3>7. CachedRan'
      <4>1. ASSUME NEW d \in Cmds, cache'[d] # "absent"
            PROVE  ran'[d] >= 1
        <5>1. ran'[d] = IF d = c THEN ran[c] + 1 ELSE ran[d]
          BY Zenon, <2>1 DEF SubmitNew, Spawn, TypeOK
        <5>2. d # c => ran[d] >= 1
          BY Zenon, <3>6, <4>1
        <5> QED
          BY <3>1, <5>1, <5>2
      <4> QED
        BY Zenon, <4>1
    <3> QED BY <3>4, <3>5, <3>7
  <2>2. CASE SubmitRunning(c)
    BY Zenon, <1>1, <2>0, <2>2 DEF Dispatch, SubmitRunning, TypeOK
  <2>3. CASE SubmitDone(c)
    <3>1. CachedRun(c) \in Runs
      <4>1. ran[c] \in 1..MaxRuns
        BY <2>0, <2>3 DEF SubmitDone, TypeOK
      <4> QED BY <2>0, <4>1, RunsFact DEF CachedRun
    <3>2. up' \in Seq(Runs)
      <4>1. Append(up, CachedRun(c)) \in Seq(Runs) /\ up \in Seq(Runs)
        BY <3>1 DEF TypeOK
      <4> QED BY Zenon, <2>3, <4>1 DEF SubmitDone
    <3>3. TypeOK'
      BY Zenon, <1>1, <2>0, <2>3, <3>2 DEF Dispatch, SubmitDone, TypeOK
    <3> QED BY <2>3, <3>3 DEF SubmitDone
  <2> QED BY <1>1, <2>1, <2>2, <2>3 DEF Dispatch, c
<1>2. ASSUME NEW r \in Runs, LockVm(r) PROVE TypeInv'
  <2>1. PrunedLocks \in [Vms -> LockIds \cup {NoLock}]
    BY DEF PrunedLocks, TypeOK
  <2> QED BY <1>2, <2>1, RunsFact DEF LockVm, Step, netVars, TypeOK, PCs
<1>3. ASSUME NEW r \in Runs, Acquire(r) PROVE TypeInv'
  BY Zenon, <1>3 DEF Acquire, Step, netVars, TypeOK, PCs
<1>4. ASSUME NEW r \in Runs, BeginForward(r) PROVE TypeInv'
  BY Zenon, <1>4 DEF BeginForward, Step, netVars, TypeOK, PCs
<1>5. ASSUME NEW r \in Runs, Refuse(r) PROVE TypeInv'
  BY <1>5 DEF Refuse, Step, netVars, TypeOK, PCs
<1>6. ASSUME NEW r \in Runs, Finish(r) PROVE TypeInv'
  BY <1>6 DEF Finish, Step, netVars, TypeOK, PCs
<1>7. ASSUME NEW r \in Runs, CacheReply(r) PROVE TypeInv'
  <2>1. CmdOf(r) \in Cmds /\ r[2] \in 1..MaxRuns
    BY RunsFact
  <2>2. TypeOK'
    BY Zenon, <1>7, <2>1 DEF CacheReply, Step, netVars, TypeOK, PCs
  <2>3. Numbered'
    BY <1>7 DEF CacheReply, Step, TypeOK
  <2>4. ran[CmdOf(r)] >= 1
    <3>1. r[2] <= ran[CmdOf(r)]
      BY <1>7 DEF CacheReply, Step
    <3>2. ran[CmdOf(r)] \in Nat
      BY <2>1 DEF TypeOK
    <3> QED BY <2>1, <3>1, <3>2
  <2>5. CachedRan'
    BY <1>7, <2>1, <2>4 DEF CacheReply, TypeOK
  <2> QED BY <2>2, <2>3, <2>5
<1>8. ASSUME NEW r \in Runs, TakeLink(r) PROVE TypeInv'
  BY <1>8 DEF TakeLink, Step, netVars, TypeOK, PCs
<1>9. ASSUME NEW r \in Runs, Push(r) PROVE TypeInv'
  <2>1. up' \in Seq(Runs)
    <3>1. Append(up, r) \in Seq(Runs) /\ up \in Seq(Runs)
      BY DEF TypeOK
    <3> QED BY Zenon, <1>9, <3>1 DEF Push
  <2>2. TypeOK'
    BY <1>9, <2>1 DEF Push, Step, TypeOK, PCs
  <2>3. Numbered' /\ CachedRan'
    BY <1>9 DEF Push, Step, TypeOK
  <2> QED BY <2>2, <2>3
<1>10. ASSUME NEW c \in Cmds, Expire(c) PROVE TypeInv'
  <2>1. TypeOK'
    BY SMTT(30), <1>10 DEF Expire, netVars, TypeOK
  <2>2. Numbered' /\ CachedRan'
    BY <1>10 DEF Expire, TypeOK
  <2> QED BY Zenon, <2>1, <2>2
<1>11. ASSUME NEW c \in Cmds, PlatformSend(c) PROVE TypeInv'
  BY <1>11 DEF PlatformSend, runVars, TypeOK
<1>12. CASE OpenStream
  BY <1>12 DEF OpenStream, runVars, TypeOK
<1>13. CASE BreakStream
  BY Zenon, <1>13 DEF BreakStream, runVars, TypeOK
<1>14. CASE EndSession
  BY <1>14 DEF EndSession, runVars, TypeOK
<1>15. CASE PlatformReceive
  <2>1. Head(up) \in Runs /\ Tail(up) \in Seq(Runs)
    BY <1>15 DEF PlatformReceive, TypeOK
  <2> QED BY ZenonT(30), <1>15, <2>1, RunsFact DEF PlatformReceive, runVars, TypeOK
<1>16. CASE Crash
  <2>0. alive' \in BOOLEAN
    BY <1>16, Zenon DEF Crash
  <2>1. TypeOK'
    BY <1>16, <2>0 DEF Crash, TypeOK, PCs
  <2>2. Numbered' /\ CachedRan'
    BY <1>16 DEF Crash, TypeOK
  <2> QED BY Zenon, <2>1, <2>2
<1>17. CASE UNCHANGED vars
  BY Zenon, <1>17 DEF vars, TypeOK
<1> QED
  BY <1>1, <1>2, <1>3, <1>4, <1>5, <1>6, <1>7, <1>8, <1>9, <1>10, <1>11, <1>12,
     <1>13, <1>14, <1>15, <1>16, <1>17, NextCases

\* The invariant of the types and of the cache's provenance.
LEMMA TypeInvariant == Spec => []TypeInv
BY TypeInit, TypeStep, PTL DEF Spec

\* The state of the command runner, its link and its locks stays well formed.
THEOREM TypeCorrect == Spec => []TypeOK
BY TypeInvariant, PTL DEF TypeInv

-----------------------------------------------------------------------------
(* Locks: one lifecycle command per instance *)

\* Initially no task refers to a mutex.
LEMMA LockInit == Init => LockInv
BY DEF Init, LockInv, FreeHoldsNothing, LocksCurrent, OneHolder

\* Pruning vm_locks keeps every mutex some task refers to.
LEMMA PrunedKeeps ==
    ASSUME TypeOK, NEW v \in Vms, vmLocks[v] \in Referenced
    PROVE  PrunedLocks[v] = vmLocks[v]
BY DEF PrunedLocks, TypeOK

\* A step that moves no task and no lock keeps the lock invariant.
LEMMA LockFrame ==
    ASSUME LockInv, UNCHANGED <<pc, lockOf, vmLocks>>
    PROVE  LockInv'
BY DEF LockInv, FreeHoldsNothing, LocksCurrent, OneHolder

\* Every step keeps the mutex discipline: lock_vm hands out the instance's
\* current mutex, also after pruning, and a mutex has one holder.
LEMMA LockStep == TypeInv /\ LockInv /\ [Next]_vars => LockInv'
<1> SUFFICES ASSUME TypeInv, LockInv, [Next]_vars PROVE LockInv'
    OBVIOUS
<1> USE DEF TypeInv
<1>1. CASE Dispatch
  <2> DEFINE c == Head(down)
  <2>1. CASE SubmitNew(c)
    <3>1. c \in Cmds /\ ran[c] + 1 \in 1..MaxRuns
      BY <1>1, <2>1, CommandsAssumption DEF Dispatch, SubmitNew, Spawn, TypeOK
    <3> DEFINE n == <<c, ran[c] + 1>>
    <3>2. n \in Runs /\ pc[n] = "none"
      <4>1. n \in Runs /\ CmdOf(n) = c /\ n[2] = ran[c] + 1
        BY <3>1, RunsFact
      <4>2. ~(ran[c] + 1 <= ran[c])
        BY <3>1 DEF TypeOK
      <4> QED BY <4>1, <4>2 DEF Numbered
    <3>3. /\ pc' = [pc EXCEPT ![n] = "spawned"]
          /\ UNCHANGED <<lockOf, vmLocks>>
      BY <2>1 DEF SubmitNew, Spawn
    <3> HIDE DEF n
    <3> QED
      BY Zenon, <3>2, <3>3 DEF LockInv, FreeHoldsNothing, LocksCurrent, OneHolder, TypeOK
  <2>2. CASE SubmitRunning(c) \/ SubmitDone(c)
    BY <2>2, LockFrame DEF SubmitRunning, SubmitDone
  <2> QED BY <1>1, <2>1, <2>2 DEF Dispatch
<1>2. ASSUME NEW r \in Runs, LockVm(r) PROVE LockInv'
  <2> DEFINE v == VmOf[CmdOf(r)]
  <2>0. CmdOf(r) \in Cmds /\ v \in Vms
    BY RunsFact, CommandsAssumption
  <2>1. PICK l \in LockIds :
          /\ IF PrunedLocks[v] # NoLock
             THEN l = PrunedLocks[v]
             ELSE l \notin Referenced /\ \A w \in Vms : PrunedLocks[w] # l
          /\ vmLocks' = [PrunedLocks EXCEPT ![v] = l]
          /\ lockOf' = [lockOf EXCEPT ![r] = l]
    BY Zenon, <1>2 DEF LockVm
  <2>2. pc[r] = "spawned" /\ pc' = [pc EXCEPT ![r] = "queued"]
    BY <1>2 DEF LockVm, Step
  <2>3. FreeHoldsNothing'
    BY <2>1, <2>2 DEF LockInv, FreeHoldsNothing, TypeOK
  <2>4. LocksCurrent'
    <3> SUFFICES ASSUME NEW q \in Runs, Kind[CmdOf(q)] = "vm",
                        pc'[q] \in {"queued", "working"}
                 PROVE  /\ lockOf'[q] # NoLock
                        /\ lockOf'[q] = vmLocks'[VmOf[CmdOf(q)]]
        BY DEF LocksCurrent
    <3>0. CmdOf(q) \in Cmds /\ VmOf[CmdOf(q)] \in Vms
      BY RunsFact, CommandsAssumption
    <3>1. DOMAIN PrunedLocks = Vms
      BY DEF PrunedLocks, TypeOK
    <3>2. CASE q = r
      BY Zenon, <2>0, <2>1, <3>1, <3>2, NoLockAssumption DEF TypeOK
    <3>3. CASE q # r
      <4>1. /\ pc[q] \in {"queued", "working"}
            /\ lockOf'[q] = lockOf[q]
        BY <2>1, <2>2, <3>3 DEF TypeOK
      <4>2. lockOf[q] # NoLock /\ lockOf[q] = vmLocks[VmOf[CmdOf(q)]]
        BY <4>1 DEF LockInv, LocksCurrent
      <4>3. vmLocks[VmOf[CmdOf(q)]] \in Referenced
        BY <4>2 DEF Referenced
      <4>4. PrunedLocks[VmOf[CmdOf(q)]] = lockOf[q]
        BY <3>0, <4>2, <4>3, PrunedKeeps
      <4>5. vmLocks'[VmOf[CmdOf(q)]] = lockOf[q]
        BY Zenon, <2>0, <2>1, <3>0, <3>1, <4>2, <4>4
      <4> QED BY <4>1, <4>2, <4>5
    <3> QED BY <3>2, <3>3
  <2>5. OneHolder'
    BY Zenon, <2>1, <2>2 DEF LockInv, OneHolder, TypeOK
  <2> QED BY <2>3, <2>4, <2>5 DEF LockInv
<1>3. ASSUME NEW r \in Runs, Acquire(r) PROVE LockInv'
  <2>1. /\ pc[r] = "queued" /\ pc' = [pc EXCEPT ![r] = "working"]
        /\ \A q \in Runs : pc[q] = "working" => lockOf[q] # lockOf[r]
        /\ UNCHANGED <<lockOf, vmLocks>>
    BY Zenon, <1>3 DEF Acquire, Step, Holder
  <2> QED BY <2>1 DEF LockInv, FreeHoldsNothing, LocksCurrent, OneHolder, TypeOK
<1>4. ASSUME NEW r \in Runs, BeginForward(r) PROVE LockInv'
  <2>1. /\ pc[r] = "spawned" /\ pc' = [pc EXCEPT ![r] = "working"]
        /\ Kind[CmdOf(r)] = "fwd" /\ UNCHANGED <<lockOf, vmLocks>>
    BY <1>4 DEF BeginForward, Step
  <2> QED BY Zenon, <2>1 DEF LockInv, FreeHoldsNothing, LocksCurrent, OneHolder, TypeOK
<1>5. ASSUME NEW r \in Runs, Refuse(r) PROVE LockInv'
  BY Zenon, <1>5 DEF Refuse, Step, LockInv, FreeHoldsNothing, LocksCurrent, OneHolder, TypeOK
<1>6. ASSUME NEW r \in Runs, Finish(r) PROVE LockInv'
  BY Zenon, <1>6 DEF Finish, Step, LockInv, FreeHoldsNothing, LocksCurrent, OneHolder, TypeOK
<1>7. ASSUME NEW r \in Runs, CacheReply(r) PROVE LockInv'
  BY Zenon, <1>7 DEF CacheReply, Step, LockInv, FreeHoldsNothing, LocksCurrent, OneHolder,
              TypeOK
<1>8. ASSUME NEW r \in Runs, TakeLink(r) PROVE LockInv'
  BY Zenon, <1>8 DEF TakeLink, Step, LockInv, FreeHoldsNothing, LocksCurrent, OneHolder,
              TypeOK
<1>9. ASSUME NEW r \in Runs, Push(r) PROVE LockInv'
  BY Zenon, <1>9 DEF Push, Step, LockInv, FreeHoldsNothing, LocksCurrent, OneHolder, TypeOK
<1>10. ASSUME NEW c \in Cmds, Expire(c) \/ PlatformSend(c) PROVE LockInv'
  BY <1>10, LockFrame DEF Expire, PlatformSend, runVars
<1>11. CASE OpenStream \/ BreakStream \/ EndSession \/ PlatformReceive
  BY <1>11, LockFrame DEF OpenStream, BreakStream, EndSession, PlatformReceive, runVars
<1>12. CASE Crash
  BY Zenon, <1>12 DEF Crash, LockInv, FreeHoldsNothing, LocksCurrent, OneHolder, TypeOK
<1>13. CASE UNCHANGED vars
  BY <1>13, LockFrame DEF vars
<1> QED
  BY <1>1, <1>2, <1>3, <1>4, <1>5, <1>6, <1>7, <1>8, <1>9, <1>10, <1>11, <1>12,
     <1>13, NextCases

\* Tasks that hold the same instance's mutex are the same task.
LEMMA LockSafety == TypeInv /\ LockInv => OneLifecycleCommandPerVm
<1> SUFFICES ASSUME LockInv, NEW q \in Runs, NEW r \in Runs, q # r,
                    pc[q] = "working", pc[r] = "working",
                    Kind[CmdOf(q)] = "vm", Kind[CmdOf(r)] = "vm"
             PROVE  VmOf[CmdOf(q)] # VmOf[CmdOf(r)]
    BY DEF OneLifecycleCommandPerVm
<1>1. /\ lockOf[q] # NoLock
      /\ lockOf[q] = vmLocks[VmOf[CmdOf(q)]]
      /\ lockOf[r] = vmLocks[VmOf[CmdOf(r)]]
  BY DEF LockInv, LocksCurrent
<1>2. lockOf[q] # lockOf[r]
  BY <1>1 DEF LockInv, OneHolder
<1> QED BY Zenon, <1>1, <1>2

\* lock_vm: two lifecycle commands of one instance never execute at the same
\* time, whatever is pruned from vm_locks in between.
THEOREM OneLifecycleCommand == Spec => []OneLifecycleCommandPerVm
<1>1. Spec => []LockInv
  BY LockInit, LockStep, TypeInvariant, PTL DEF Spec
<1> QED BY <1>1, TypeInvariant, LockSafety, PTL

-----------------------------------------------------------------------------
(* The cache: how often a command is executed *)

\* Initially nothing was executed.
LEMMA OnceInit == Init => OnceInv
BY CommandsAssumption DEF Init, OnceInv, ActiveMarked, OneActive, Paid, Active, Runs, CmdOf

\* A step that touches neither tasks, cache nor counters keeps OnceInv.
LEMMA OnceFrame ==
    ASSUME OnceInv, UNCHANGED <<pc, cache, ran, crashes, expired>>
    PROVE  OnceInv'
BY DEF OnceInv, ActiveMarked, OneActive, Paid

\* A task that moves on without caching keeps OnceInv.
LEMMA OnceMove ==
    ASSUME TypeInv, OnceInv, NEW r \in Runs, NEW to, pc[r] \in Active \/ to \notin Active,
           pc' = [pc EXCEPT ![r] = to],
           UNCHANGED <<cache, ran, crashes, expired>>
    PROVE  OnceInv'
<1>1. \A q \in Runs : pc'[q] \in Active => pc[q] \in Active
  BY DEF TypeInv, TypeOK
<1> QED BY <1>1 DEF OnceInv, ActiveMarked, OneActive, Paid

\* The account of one command, in numbers.
LEMMA Account ==
    ASSUME TypeInv, OnceInv, NEW c \in Cmds \ NoId
    PROVE  /\ ran[c] \in Nat /\ crashes \in Nat /\ expired[c] \in Nat
           /\ ran[c] <= crashes + expired[c]
                        + (IF cache[c] \in {"running", "done"} THEN 1 ELSE 0)
           /\ ran[c] <= 1 + crashes + expired[c]
<1>1. ran[c] \in Nat /\ crashes \in Nat /\ expired[c] \in Nat
  BY CommandsAssumption DEF TypeInv, TypeOK
<1>2. ran[c] <= crashes + expired[c]
                + (IF cache[c] \in {"running", "done"} THEN 1 ELSE 0)
  BY DEF OnceInv, Paid
<1> QED BY <1>1, <1>2

\* Every step keeps the account: a command is executed again only after its
\* result expired or the process restarted.
LEMMA OnceStep == TypeInv /\ OnceInv /\ [Next]_vars => OnceInv'
<1> SUFFICES ASSUME TypeInv, OnceInv, [Next]_vars PROVE OnceInv'
    OBVIOUS
<1> USE DEF TypeInv
<1>1. CASE Dispatch
  <2> DEFINE c == Head(down)
  <2>1. CASE SubmitNew(c)
    <3>1. c \in Cmds /\ ran[c] + 1 \in 1..MaxRuns /\ ran[c] \in Nat
      BY SMTT(30), <1>1, <2>1, CommandsAssumption DEF Dispatch, SubmitNew, Spawn, TypeOK
    <3> DEFINE n == <<c, ran[c] + 1>>
    <3>2. n \in Runs /\ CmdOf(n) = c
      BY <3>1, RunsFact
    <3>3. /\ pc' = [pc EXCEPT ![n] = "spawned"]
          /\ ran' = [ran EXCEPT ![c] = @ + 1]
          /\ UNCHANGED <<crashes, expired>>
      BY Zenon, <1>1, <2>1 DEF Dispatch, SubmitNew, Spawn
    <3>4. /\ c \notin NoId => cache[c] = "absent" /\ cache'[c] = "running"
          /\ \A d \in Cmds \ {c} : \/ cache'[d] = cache[d]
                                   \/ cache[d] = "stale" /\ cache'[d] = "absent"
      BY Zenon, <2>1, <3>1, PrunedType DEF SubmitNew, TypeOK
    <3>5. \A q \in Runs : q # n => pc'[q] = pc[q]
      BY <3>2, <3>3 DEF TypeOK
    <3>6. pc'[n] = "spawned"
      BY <3>2, <3>3 DEF TypeOK
    <3> HIDE DEF c, n
    <3>7. c \notin NoId => \A q \in Runs : CmdOf(q) = c => pc[q] \notin Active
      BY <3>4 DEF OnceInv, ActiveMarked
    <3>8. ActiveMarked'
      <4> SUFFICES ASSUME NEW q \in Runs, pc'[q] \in Active, CmdOf(q) \notin NoId
                   PROVE  cache'[CmdOf(q)] = "running"
          BY DEF ActiveMarked
      <4>1. CASE CmdOf(q) = c
        BY <3>4, <4>1
      <4>2. CASE CmdOf(q) # c
        <5>1. pc'[q] = pc[q] /\ CmdOf(q) \in Cmds
          BY SMTT(30), <3>2, <3>5, <4>2, RunsFact
        <5>2. cache[CmdOf(q)] = "running"
          BY <5>1 DEF OnceInv, ActiveMarked
        <5> QED BY <3>4, <4>2, <5>1, <5>2
      <4> QED BY <4>1, <4>2
    <3>9. OneActive'
      BY <3>2, <3>5, <3>7 DEF OnceInv, OneActive
    <3>10. Paid'
      <4> SUFFICES ASSUME NEW d \in Cmds \ NoId
                   PROVE  ran'[d] <= crashes + expired[d]
                             + (IF cache'[d] \in {"running", "done"} THEN 1 ELSE 0)
          BY <3>3 DEF Paid
      <4>1. /\ ran[d] <= crashes + expired[d]
                         + (IF cache[d] \in {"running", "done"} THEN 1 ELSE 0)
            /\ ran[d] \in Nat /\ crashes \in Nat /\ expired[d] \in Nat
        BY Zenon, Account
      <4>2. CASE d = c
        <5>1. ran'[d] = ran[d] + 1
          BY SMTT(30), <3>1, <3>3, <4>2 DEF TypeOK
        <5> QED BY <3>4, <4>1, <4>2, <5>1
      <4>3. CASE d # c
        <5>1. ran'[d] = ran[d]
          BY <3>3, <4>3 DEF TypeOK
        <5> QED BY Zenon, <3>4, <4>1, <4>3, <5>1
      <4> QED BY <4>2, <4>3
    <3> QED BY <3>8, <3>9, <3>10 DEF OnceInv
  <2>2. CASE SubmitRunning(c) \/ SubmitDone(c)
    BY <1>1, <2>2, OnceFrame DEF Dispatch, SubmitRunning, SubmitDone
  <2> QED BY <1>1, <2>1, <2>2 DEF Dispatch
<1>2. ASSUME NEW r \in Runs,
             \/ LockVm(r) \/ Acquire(r) \/ BeginForward(r) \/ Refuse(r) \/ Finish(r)
             \/ TakeLink(r) \/ Push(r)
      PROVE  OnceInv'
  <2>1. UNCHANGED <<cache, ran, crashes, expired>>
    BY Zenon, <1>2 DEF LockVm, Acquire, BeginForward, Refuse, Finish, TakeLink, Push
  <2>2. \E to : /\ pc' = [pc EXCEPT ![r] = to]
                /\ pc[r] \in Active \/ to \notin Active
    BY Zenon, <1>2 DEF LockVm, Acquire, BeginForward, Refuse, Finish, TakeLink, Push, Step,
                Active
  <2> QED BY ZenonT(30), <2>1, <2>2, OnceMove
<1>3. ASSUME NEW r \in Runs, CacheReply(r) PROVE OnceInv'
  <2>1. /\ pc[r] = "replied" /\ pc' = [pc EXCEPT ![r] = "cached"]
        /\ cache' = IF CmdOf(r) \in NoId THEN cache
                    ELSE [cache EXCEPT ![CmdOf(r)] = "done"]
        /\ UNCHANGED <<ran, crashes, expired>>
    BY <1>3 DEF CacheReply, Step
  <2>2. \A q \in Runs : q # r => pc'[q] = pc[q]
    BY <2>1 DEF TypeOK
  <2>3. pc'[r] \notin Active /\ pc[r] \in Active
    BY <2>1 DEF TypeOK, Active
  <2>4. CmdOf(r) \in Cmds /\ \A q \in Runs : CmdOf(q) \in Cmds
    BY RunsFact
  <2>5. ActiveMarked'
    BY <2>1, <2>2, <2>3, <2>4 DEF OnceInv, ActiveMarked, OneActive, TypeOK
  <2>6. OneActive'
    BY <2>2, <2>3 DEF OnceInv, OneActive
  <2>7. CmdOf(r) \notin NoId => cache[CmdOf(r)] = "running"
    BY <2>3 DEF OnceInv, ActiveMarked
  <2>8. Paid'
    BY Zenon, <2>1, <2>4, <2>7 DEF OnceInv, Paid, TypeOK
  <2> QED BY <2>5, <2>6, <2>8 DEF OnceInv
<1>4. ASSUME NEW c \in Cmds, Expire(c) PROVE OnceInv'
  <2>1. /\ cache[c] = "done" /\ cache' = [cache EXCEPT ![c] = "stale"]
        /\ expired' = [expired EXCEPT ![c] = @ + 1]
        /\ UNCHANGED <<pc, ran, crashes>>
    BY <1>4 DEF Expire
  <2>2. ActiveMarked' /\ OneActive'
    BY Zenon, <2>1, RunsFact DEF OnceInv, ActiveMarked, OneActive, TypeOK
  <2>3. Paid'
    <3> SUFFICES ASSUME NEW d \in Cmds \ NoId
                 PROVE  ran[d] <= crashes + expired'[d]
                           + (IF cache'[d] \in {"running", "done"} THEN 1 ELSE 0)
        BY <2>1 DEF Paid
    <3>1. /\ ran[d] <= crashes + expired[d]
                       + (IF cache[d] \in {"running", "done"} THEN 1 ELSE 0)
          /\ ran[d] \in Nat /\ crashes \in Nat /\ expired[d] \in Nat
      BY Account
    <3>2. CASE d = c
      BY <2>1, <3>1, <3>2 DEF TypeOK
    <3>3. CASE d # c
      BY Zenon, <2>1, <3>1, <3>3 DEF TypeOK
    <3> QED BY Zenon, <3>2, <3>3
  <2> QED BY <2>2, <2>3 DEF OnceInv
<1>5. ASSUME NEW c \in Cmds, PlatformSend(c) PROVE OnceInv'
  BY <1>5, OnceFrame DEF PlatformSend, runVars
<1>6. CASE OpenStream \/ BreakStream \/ EndSession \/ PlatformReceive
  BY Zenon, <1>6, OnceFrame DEF OpenStream, BreakStream, EndSession, PlatformReceive, runVars
<1>7. CASE Crash
  <2>1. \A q \in Runs : pc'[q] \notin Active
    BY <1>7 DEF Crash, Active
  <2>2. Paid'
    <3>1. /\ cache' = [c \in Cmds |-> "absent"]
          /\ crashes' = crashes + 1 /\ UNCHANGED <<ran, expired>>
      BY <1>7 DEF Crash
    <3> SUFFICES ASSUME NEW d \in Cmds \ NoId
                 PROVE  ran[d] <= crashes + 1 + expired[d] + 0
        BY <3>1 DEF Paid
    <3> QED BY Account
  <2> QED BY Zenon, <2>1, <2>2 DEF OnceInv, ActiveMarked, OneActive
<1>8. CASE UNCHANGED vars
  BY Zenon, <1>8, OnceFrame DEF vars
<1> QED BY <1>1, <1>2, <1>3, <1>4, <1>5, <1>6, <1>7, <1>8, NextCases

\* submit: a command with an id is executed again only after its result has
\* outlived RESULT_TTL or the agent has restarted, however often it is replayed
\* and however the cache is pruned.
THEOREM CommandsAtMostOnce == Spec => []AtMostOnce
<1>1. TypeInv /\ OnceInv => AtMostOnce
  BY Account DEF AtMostOnce
<1>2. Spec => []OnceInv
  BY OnceInit, OnceStep, TypeInvariant, PTL DEF Spec
<1> QED BY <1>1, <1>2, TypeInvariant, PTL

-----------------------------------------------------------------------------
(* Delivery: no result is lost on a live stream *)

\* What a queue holds is its head or in its tail.
LEMMA InTail ==
    ASSUME NEW S, NEW s \in Seq(S), s # <<>>, NEW i \in 1..Len(s)
    PROVE  s[i] = Head(s) \/ \E j \in 1..Len(Tail(s)) : Tail(s)[j] = s[i]
<1>1. CASE i = 1
  BY <1>1
<1>2. CASE i # 1
  <2>1. i - 1 \in 1..Len(Tail(s)) /\ Tail(s)[i - 1] = s[i]
    BY <1>2
  <2> QED BY Zenon, <2>1
<1> QED BY <1>1, <1>2

\* Appending keeps what a queue holds and adds the new element.
LEMMA InAppend ==
    ASSUME NEW S, NEW s \in Seq(S), NEW e \in S
    PROVE  /\ Len(s) + 1 \in 1..Len(Append(s, e)) /\ Append(s, e)[Len(s) + 1] = e
           /\ \A i \in 1..Len(s) : i \in 1..Len(Append(s, e)) /\ Append(s, e)[i] = s[i]
OBVIOUS

\* Initially no stream is alive.
LEMMA DeliveryInit == Init => DeliveryInv
<1> SUFFICES ASSUME Init PROVE DeliveryInv
    OBVIOUS
<1>1. RunningIsActive /\ NoIdUncached
  BY CommandsAssumption DEF Init, RunningIsActive, NoIdUncached
<1>2. ~alive
  BY DEF Init
<1> QED BY <1>1, <1>2 DEF DeliveryInv, LinkIsOpen

\* A task that moves on before its reply is cached, or stays active.
LEMMA MarkedMove ==
    ASSUME TypeInv, RunningIsActive, NoIdUncached, NEW r \in Runs, NEW to,
           pc' = [pc EXCEPT ![r] = to], pc[r] \notin Active \/ to \in Active,
           UNCHANGED cache
    PROVE  RunningIsActive' /\ NoIdUncached'
<1>1. \A q \in Runs : pc[q] \in Active => pc'[q] \in Active
  BY Zenon DEF TypeInv, TypeOK
<1> QED BY Zenon, <1>1 DEF RunningIsActive, NoIdUncached

\* Every step keeps the commands marked Running at work.
LEMMA MarkedStep ==
    TypeInv /\ RunningIsActive /\ NoIdUncached /\ [Next]_vars
    => RunningIsActive' /\ NoIdUncached'
<1> SUFFICES ASSUME TypeInv, RunningIsActive, NoIdUncached, [Next]_vars
             PROVE  RunningIsActive' /\ NoIdUncached'
    OBVIOUS
<1> USE DEF TypeInv
<1>1. CASE Dispatch
  <2> DEFINE c == Head(down)
  <2>1. CASE SubmitNew(c)
    <3>1. c \in Cmds /\ ran[c] + 1 \in 1..MaxRuns
      BY SMTT(30), <1>1, <2>1, CommandsAssumption DEF Dispatch, SubmitNew, Spawn, TypeOK
    <3> DEFINE n == <<c, ran[c] + 1>>
    <3>2. n \in Runs /\ CmdOf(n) = c
      BY <3>1, RunsFact
    <3>3. pc' = [pc EXCEPT ![n] = "spawned"]
      BY <2>1 DEF SubmitNew, Spawn
    <3>4. \A q \in Runs : pc[q] \in Active => pc'[q] \in Active
      BY <3>2, <3>3 DEF TypeOK, Active
    <3>5. pc'[n] \in Active
      BY <3>2, <3>3 DEF TypeOK, Active
    <3>6. /\ c \in NoId => cache' = cache
          /\ \A d \in Cmds \ {c} : cache'[d] = cache[d] \/ cache'[d] = "absent"
      BY Zenon, <2>1, <3>1, PrunedType DEF SubmitNew, TypeOK
    <3> HIDE DEF c, n
    <3>7. RunningIsActive'
      <4> SUFFICES ASSUME NEW d \in Cmds, cache'[d] = "running"
                   PROVE  \E r \in Runs : CmdOf(r) = d /\ pc'[r] \in Active
          BY DEF RunningIsActive
      <4>1. CASE d = c
        BY <3>2, <3>5, <4>1
      <4>2. CASE d # c
        BY Zenon, <3>4, <3>6, <4>2 DEF RunningIsActive
      <4> QED BY <4>1, <4>2
    <3>8. NoIdUncached'
      BY <3>6, CommandsAssumption DEF NoIdUncached
    <3> QED BY <3>7, <3>8
  <2>2. CASE SubmitRunning(c) \/ SubmitDone(c)
    BY <2>2 DEF SubmitRunning, SubmitDone, RunningIsActive, NoIdUncached
  <2> QED BY <1>1, <2>1, <2>2 DEF Dispatch
<1>2. ASSUME NEW r \in Runs,
             \/ LockVm(r) \/ Acquire(r) \/ BeginForward(r) \/ Refuse(r) \/ Finish(r)
             \/ TakeLink(r) \/ Push(r)
      PROVE  RunningIsActive' /\ NoIdUncached'
  <2>1. UNCHANGED cache
    BY Zenon, <1>2 DEF LockVm, Acquire, BeginForward, Refuse, Finish, TakeLink, Push
  <2>2. \E to : /\ pc' = [pc EXCEPT ![r] = to]
                /\ pc[r] \notin Active \/ to \in Active
    BY Zenon, <1>2 DEF LockVm, Acquire, BeginForward, Refuse, Finish, TakeLink, Push, Step,
                Active
  <2> QED BY ZenonT(30), <2>1, <2>2, MarkedMove
<1>3. ASSUME NEW r \in Runs, CacheReply(r) PROVE RunningIsActive' /\ NoIdUncached'
  <2>1. /\ pc' = [pc EXCEPT ![r] = "cached"]
        /\ cache' = IF CmdOf(r) \in NoId THEN cache
                    ELSE [cache EXCEPT ![CmdOf(r)] = "done"]
    BY <1>3 DEF CacheReply, Step
  <2>2. \A q \in Runs : q # r => pc'[q] = pc[q]
    BY Zenon, <2>1 DEF TypeOK
  <2>3. CmdOf(r) \in Cmds
    BY RunsFact
  <2>4. NoIdUncached'
    BY Zenon, <2>1, <2>3, CommandsAssumption DEF NoIdUncached, TypeOK
  <2>5. cache'[CmdOf(r)] # "running"
    BY <2>1, <2>3 DEF NoIdUncached, TypeOK
  <2>6. \A d \in Cmds : d # CmdOf(r) => cache'[d] = cache[d]
    BY <2>1, <2>3 DEF TypeOK
  <2>7. RunningIsActive'
    BY <2>2, <2>5, <2>6 DEF RunningIsActive
  <2> QED BY <2>4, <2>7
<1>4. ASSUME NEW c \in Cmds, Expire(c) PROVE RunningIsActive' /\ NoIdUncached'
  BY Zenon, <1>4, CommandsAssumption DEF Expire, RunningIsActive, NoIdUncached, TypeOK
<1>5. CASE UNCHANGED <<pc, cache>>
  BY <1>5 DEF RunningIsActive, NoIdUncached
<1>6. ASSUME NEW c \in Cmds, PlatformSend(c) PROVE UNCHANGED <<pc, cache>>
  BY <1>6 DEF PlatformSend, runVars
<1>7. CASE OpenStream \/ BreakStream \/ EndSession \/ PlatformReceive
  BY Zenon, <1>5, <1>7 DEF OpenStream, BreakStream, EndSession, PlatformReceive, runVars
<1>8. CASE Crash
  BY Zenon, <1>8, CommandsAssumption DEF Crash, RunningIsActive, NoIdUncached
<1>9. CASE UNCHANGED vars
  BY <1>5, <1>9 DEF vars
<1> QED BY Zenon, <1>1, <1>2, <1>3, <1>4, <1>5, <1>6, <1>7, <1>8, <1>9, NextCases

\* Every step keeps Link on the live stream.
LEMMA LinkStep == LinkIsOpen /\ TypeInv /\ [Next]_vars => LinkIsOpen'
<1> SUFFICES ASSUME LinkIsOpen, TypeInv, [Next]_vars PROVE LinkIsOpen'
    OBVIOUS
<1>1. CASE UNCHANGED <<alive, open, link>>
  BY <1>1 DEF LinkIsOpen
<1>2. CASE Dispatch
  BY SMTT(30), <1>1, <1>2 DEF Dispatch
<1>3. ASSUME NEW r \in Runs, TaskStep(r) PROVE UNCHANGED <<alive, open, link>>
  BY Zenon, <1>3 DEF TaskStep, LockVm, Acquire, BeginForward, Refuse, Finish, CacheReply,
              TakeLink, Push, netVars
<1>4. ASSUME NEW c \in Cmds, Expire(c) \/ PlatformSend(c)
      PROVE  UNCHANGED <<alive, open, link>>
  BY <1>4 DEF Expire, PlatformSend, netVars
<1>5. CASE OpenStream
  BY <1>5 DEF OpenStream, LinkIsOpen, TypeInv, TypeOK
<1>6. CASE BreakStream \/ EndSession \/ Crash
  BY Zenon, <1>6 DEF BreakStream, EndSession, Crash, LinkIsOpen
<1>7. CASE PlatformReceive
  BY <1>1, <1>7 DEF PlatformReceive
<1>8. CASE UNCHANGED vars
  BY Zenon, <1>1, <1>8 DEF vars
<1> QED BY <1>1, <1>2, <1>3, <1>4, <1>5, <1>6, <1>7, <1>8 DEF Next

\* A task on its way to the live stream's channel.
Coming(r) == \/ pc[r] \in Active \cup {"cached"}
             \/ pc[r] = "sending" /\ target[r] = open

\* Underway, in terms of Coming.
LEMMA UnderwayIsComing ==
    \A c : Underway(c) <=> \E r \in Runs : CmdOf(r) = c /\ Coming(r)
BY Zenon DEF Underway, Coming, Active

\* A step that only lets tasks come closer loses nothing.
LEMMA CloserKeeps ==
    ASSUME NEW c, Accounted(c), UNCHANGED <<answered, down, up>>,
           \A r \in Runs : Coming(r) => Coming(r)'
    PROVE  Accounted(c)'
<1>1. Underway(c) => Underway(c)'
  <2>1. (\E r \in Runs : CmdOf(r) = c /\ Coming(r))
        => (\E r \in Runs : CmdOf(r) = c /\ Coming(r)')
    OBVIOUS
  <2>2. Underway(c)' <=> \E r \in Runs : CmdOf(r) = c /\ Coming(r)'
    BY Zenon DEF Underway, Coming, Active
  <2> QED BY <2>1, <2>2, UnderwayIsComing
<1> QED BY <1>1 DEF Accounted, InDown, InUp

\* A result put in the channel is there, next to those before it.
LEMMA InUpAppend ==
    ASSUME TypeInv, NEW r \in Runs, up' = Append(up, r), NEW c
    PROVE  InUp(CmdOf(r))' /\ (InUp(c) => InUp(c)')
<1>1. up \in Seq(Runs)
  BY DEF TypeInv, TypeOK
<1>2. InUp(CmdOf(r))'
  BY <1>1, InAppend DEF InUp
<1>3. ASSUME NEW i \in 1..Len(up), CmdOf(up[i]) = c PROVE InUp(c)'
  <2>1. i \in 1..Len(up') /\ up'[i] = up[i]
    BY <1>1, InAppend
  <2> QED BY Zenon, <1>3, <2>1 DEF InUp
<1> QED BY Zenon, <1>2, <1>3 DEF InUp

\* Every step on a live stream keeps every command sent on it accounted for.
LEMMA AccountedStep ==
    ASSUME TypeInv, DeliveryInv, [Next]_vars, alive', NEW c \in sent'
    PROVE  Accounted(c)'
<1> USE DEF TypeInv
<1>0. \A b : Underway(b)' <=> \E r \in Runs : CmdOf(r) = b /\ Coming(r)'
  BY DEF Underway, Coming, Active
<1>1. CASE Dispatch
  <2>0. /\ alive /\ c \in sent /\ down # <<>> /\ down \in Seq(Cmds)
        /\ down' = Tail(down) /\ UNCHANGED <<answered, open>>
    BY Zenon, <1>1 DEF Dispatch, TypeOK
  <2>1. Accounted(c)
    BY <2>0 DEF DeliveryInv
  <2>2. PICK d \in Cmds : d = Head(down)
    BY <2>0
  <2>3. InDown(c) => c = d \/ InDown(c)'
    BY Zenon, <2>0, <2>2, InTail DEF InDown
  <2>4. CASE SubmitNew(d)
    <3>1. ran[d] + 1 \in 1..MaxRuns
      <4>1. ran[d] \in 0..MaxRuns /\ ran[d] < MaxRuns
        BY Zenon, <2>2, <2>4 DEF SubmitNew, Spawn, TypeOK
      <4> QED
        BY <4>1, CommandsAssumption
    <3>2. PICK n \in Runs : n = <<d, ran[d] + 1>> /\ CmdOf(n) = d
      BY Zenon, <2>2, <3>1, RunsFact
    <3>3. pc' = [pc EXCEPT ![n] = "spawned"] /\ UNCHANGED <<target, up>>
      BY <2>4, <3>2 DEF SubmitNew, Spawn
    <3>4. \A r \in Runs : Coming(r) => Coming(r)'
      BY Zenon, <2>0, <3>2, <3>3 DEF Coming, Active, TypeOK
    <3>5. Coming(n)'
      BY <3>2, <3>3 DEF Coming, Active, TypeOK
    <3>6. Underway(d)'
      BY <1>0, <3>2, <3>5
    <3>7. Underway(c) => Underway(c)'
      BY <1>0, <3>4, UnderwayIsComing
    <3> QED BY Zenon, <2>0, <2>1, <2>3, <3>3, <3>6, <3>7 DEF Accounted, InUp
  <2>5. CASE SubmitRunning(d)
    <3>1. UNCHANGED <<pc, target, up>> /\ cache[d] = "running"
      BY SMTT(30), <2>5 DEF SubmitRunning
    <3>3. Underway(d)
      BY Zenon, <2>2, <3>1 DEF DeliveryInv, RunningIsActive, Active, Underway
    <3>4. \A b : Underway(b)' <=> Underway(b)
      BY Zenon, <2>0, <3>1 DEF Underway
    <3> QED BY <2>0, <2>1, <2>3, <3>1, <3>3, <3>4 DEF Accounted, InUp
  <2>6. CASE SubmitDone(d)
    <3>1. PICK n \in Runs : n = CachedRun(d) /\ CmdOf(n) = d
      <4>1. ran[d] \in 1..MaxRuns
        BY <2>2, <2>6 DEF SubmitDone, CachedRan, TypeOK
      <4> QED BY Zenon, <2>2, <4>1, RunsFact DEF CachedRun
    <3>2. UNCHANGED <<pc, target>> /\ up' = Append(up, n)
      BY <2>0, <2>6, <3>1 DEF SubmitDone
    <3>3. InUp(d)' /\ (InUp(c) => InUp(c)')
      BY SMTT(30), <3>1, <3>2, InUpAppend
    <3>5. Underway(c) => Underway(c)'
      BY Zenon, <2>0, <3>2 DEF Underway
    <3> QED BY Zenon, <2>0, <2>1, <2>3, <3>3, <3>5 DEF Accounted
  <2> QED BY <1>1, <2>2, <2>4, <2>5, <2>6 DEF Dispatch
<1>2. ASSUME NEW r \in Runs,
             \/ LockVm(r) \/ Acquire(r) \/ BeginForward(r) \/ Refuse(r) \/ Finish(r)
             \/ CacheReply(r)
      PROVE  Accounted(c)'
  <2>1. UNCHANGED <<answered, down, up, target, open, alive, sent>>
    BY ZenonT(30), <1>2 DEF LockVm, Acquire, BeginForward, Refuse, Finish, CacheReply, netVars
  <2>2. \E to \in Active \cup {"cached"} : pc' = [pc EXCEPT ![r] = to]
    BY Zenon, <1>2 DEF LockVm, Acquire, BeginForward, Refuse, Finish, CacheReply, Step, Active
  <2>3. \A q \in Runs : Coming(q) => Coming(q)'
    BY Zenon, <2>1, <2>2 DEF Coming, TypeOK
  <2>4. Accounted(c)
    BY SMTT(30), <2>1 DEF DeliveryInv
  <2> QED BY SMTT(30), <2>1, <2>3, <2>4, CloserKeeps
<1>3. ASSUME NEW r \in Runs, TakeLink(r) PROVE Accounted(c)'
  <2>1. /\ UNCHANGED <<answered, down, up, open, alive, sent, link>>
        /\ pc' = [pc EXCEPT ![r] = IF link = 0 THEN "over" ELSE "sending"]
        /\ target' = [target EXCEPT ![r] = link]
    BY Zenon, <1>3 DEF TakeLink, Step, netVars
  <2>2. open # 0 /\ link = open
    BY <2>1 DEF DeliveryInv, LinkIsOpen
  <2>3. \A q \in Runs : Coming(q) => Coming(q)'
    BY Zenon, <2>1, <2>2 DEF Coming, TypeOK
  <2>4. Accounted(c)
    BY <2>1 DEF DeliveryInv
  <2> QED BY Zenon, <2>1, <2>3, <2>4, CloserKeeps
<1>4. ASSUME NEW r \in Runs, Push(r) PROVE Accounted(c)'
  <2>1. /\ UNCHANGED <<answered, down, open, alive, sent>>
        /\ pc[r] = "sending" /\ pc' = [pc EXCEPT ![r] = "over"]
        /\ target' = [target EXCEPT ![r] = 0]
    BY Zenon, <1>4 DEF Push, Step
  <2>2. Accounted(c) /\ alive
    BY <2>1 DEF DeliveryInv
  <2>3. \A q \in Runs : q # r /\ Coming(q) => Coming(q)'
    BY Zenon, <2>1 DEF Coming, TypeOK
  <2>4. CASE target[r] = open
    <3>1. up' = Append(up, r)
      BY Zenon, <1>4, <2>2, <2>4 DEF Push
    <3>2. InUp(CmdOf(r))' /\ (InUp(c) => InUp(c)')
      BY <3>1, InUpAppend
    <3>3. Underway(c) => c = CmdOf(r) \/ Underway(c)'
      BY <1>0, <2>3, UnderwayIsComing
    <3> QED BY Zenon, <2>1, <2>2, <3>2, <3>3 DEF Accounted, InDown
  <2>5. CASE target[r] # open
    <3>1. up' = up
      BY Zenon, <1>4, <2>5 DEF Push
    <3>2. ~Coming(r)
      BY <2>1, <2>5 DEF Coming, Active
    <3>3. \A q \in Runs : Coming(q) => Coming(q)'
      BY SMTT(30), <2>3, <3>2
    <3> QED BY Zenon, <2>1, <2>2, <3>1, <3>3, CloserKeeps
  <2> QED BY <2>4, <2>5
<1>5. ASSUME NEW b \in Cmds, Expire(b) PROVE Accounted(c)'
  <2>1. UNCHANGED <<answered, down, up, pc, target, open, alive, sent>>
    BY Zenon, <1>5 DEF Expire, netVars
  <2>2. Accounted(c)
    BY <2>1 DEF DeliveryInv
  <2> QED BY Zenon, <2>1, <2>2 DEF Accounted, InDown, InUp, Underway
<1>6. ASSUME NEW b \in Cmds, PlatformSend(b) PROVE Accounted(c)'
  <2>1. /\ UNCHANGED <<answered, up, pc, target, open, alive>>
        /\ sent' = sent \cup {b} /\ down' = Append(down, b)
    BY Zenon, <1>6 DEF PlatformSend, runVars
  <2>2. InDown(b)' /\ (InDown(c) => InDown(c)')
    <3>1. down \in Seq(Cmds)
      BY Zenon DEF TypeOK
    <3> QED BY <2>1, <3>1, InAppend DEF InDown
  <2>3. c # b => Accounted(c)
    BY <2>1 DEF DeliveryInv
  <2> QED BY Zenon, <2>1, <2>2, <2>3 DEF Accounted, InUp, Underway
<1>7. CASE OpenStream \/ BreakStream \/ EndSession \/ Crash
  BY Zenon, <1>7 DEF OpenStream, BreakStream, EndSession, Crash
<1>8. CASE PlatformReceive
  <2>1. /\ UNCHANGED <<down, pc, target, open, alive, sent>>
        /\ up # <<>> /\ up \in Seq(Runs) /\ up' = Tail(up)
        /\ answered' = answered \cup {CmdOf(Head(up))}
    BY Zenon, <1>8 DEF PlatformReceive, runVars, TypeOK
  <2>2. Accounted(c)
    BY Zenon, <2>1 DEF DeliveryInv
  <2>3. InUp(c) => c = CmdOf(Head(up)) \/ InUp(c)'
    BY Zenon, <2>1, InTail DEF InUp
  <2> QED BY Zenon, <2>1, <2>2, <2>3 DEF Accounted, InDown, Underway
<1>9. CASE UNCHANGED vars
  <2>1. Accounted(c)
    BY Zenon, <1>9 DEF vars, DeliveryInv
  <2> QED BY Zenon, <1>9, <2>1 DEF vars, Accounted, InDown, InUp, Underway
<1> QED BY Zenon, <1>1, <1>2, <1>3, <1>4, <1>5, <1>6, <1>7, <1>8, <1>9, NextCases

\* The three parts together are inductive.
LEMMA DeliveryStep == TypeInv /\ DeliveryInv /\ [Next]_vars => DeliveryInv'
<1> SUFFICES ASSUME TypeInv, DeliveryInv, [Next]_vars PROVE DeliveryInv'
    OBVIOUS
<1>1. RunningIsActive' /\ NoIdUncached'
  BY MarkedStep DEF DeliveryInv
<1>2. LinkIsOpen'
  BY LinkStep DEF DeliveryInv
<1>3. ASSUME alive', NEW c \in sent' PROVE Accounted(c)'
  BY <1>3, AccountedStep
<1> QED BY <1>1, <1>2, <1>3 DEF DeliveryInv

\* submit and its task: on a live stream no result is lost between the cache,
\* Link and the channel, whatever is replayed while it is running or finished.
THEOREM ResultsNotLost == Spec => []NoLostResult
<1>1. DeliveryInv => NoLostResult
  BY Zenon DEF DeliveryInv, Accounted, InDown, InUp, NoLostResult
<1>2. Spec => []DeliveryInv
  BY DeliveryInit, DeliveryStep, TypeInvariant, PTL DEF Spec
<1> QED BY <1>1, <1>2, PTL
=============================================================================
