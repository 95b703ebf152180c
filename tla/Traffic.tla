------------------------------ MODULE Traffic -------------------------------
(***************************************************************************)
(* Monthly traffic accounting of one instance (traffic.rs, and its callers *)
(* in runtime/mod.rs).                                                     *)
(*                                                                         *)
(* The host end of the instance's veth pair counts bytes from zero at each *)
(* boot.  Every 30 seconds sample_traffic folds the counter into           *)
(* traffic.json, in the instance's directory; the month counter belongs to *)
(* a billing period and restarts with the next one.  A reinstall removes   *)
(* the directory and carries the counters over.  The owner may change the  *)
(* reset schedule at any time; the counters of the current period are      *)
(* relabelled the next time anybody asks for the schedule.                 *)
(*                                                                         *)
(* Sampling does not take the instance's lock.  One direction of traffic   *)
(* is modelled; the other is counted alike.                                *)
(***************************************************************************)
EXTENDS Calendar

CONSTANTS
    Times,          \* moments the clock shows
    Schedules,      \* reset schedules the owner may choose
    MaxBytes,       \* bound: bytes the instance moves
    MaxBoots,       \* bound: boots of the instance
    MaxOps,         \* bound: changes of the schedule, reinstalls, deletes
    MaxFaults       \* bound: failed reinstalls, restarts of the agent or the host

\* No moment is 0, the creation time of an instance without a record.
ASSUME TrafficAssumption ==
    /\ Times \subseteq Nat \ {0}
    /\ MaxBytes \in Nat /\ MaxBoots \in Nat \ {0} /\ MaxOps \in Nat /\ MaxFaults \in Nat

VARIABLES
    now,
    config,     \* the schedule in the configuration
    seen,       \* Runtime.schedule: the one in effect; its lock covers sampling
    rec,        \* creation time in the instance's record, 0 without a record
    file,       \* traffic.json
    veth,       \* the host interface: its index, its counter, which boot made it
    nextIndex,  \* the kernel's next interface index
    sampler,    \* sample_traffic, between reading the interface and saving
    op,         \* a reinstall in progress, with the counters it carries
    moved,      \* all bytes the instance has moved
    sampled,    \* of the current interface's counter, what is in the file
    tail,       \* bytes of earlier interfaces that were never sampled
    charged,    \* usage reported in the current billing period
    excused,    \* one of the situations of Excuses has come about
    sameIndex,  \* after a reboot of the host an interface got the saved index
    boots, ops, faults

ghosts == <<moved, sampled, tail, charged, excused, sameIndex>>
counters == <<boots, ops, faults>>
trafficVars == <<now, config, seen, rec, file, veth, nextIndex, sampler, op, ghosts, counters>>

Default == [total |-> 0, month |-> 0, period |-> [y |-> 0, m |-> 0], index |-> 0, last |-> 0]
NoFile == [Default EXCEPT !.index = -1]
NoVeth == [index |-> 0, count |-> 0, boot |-> 0]
NoSample == [pc |-> "idle"]
NoOp == [pc |-> "no"]

\* An instance has just been created and started.
TrafficInit ==
    /\ now \in Times /\ \A t \in Times : now <= t
    /\ config \in Schedules /\ seen = config
    /\ rec = now
    /\ file = NoFile
    /\ veth = [index |-> 1, count |-> 0, boot |-> 1]
    /\ nextIndex = 2
    /\ sampler = NoSample /\ op = NoOp
    /\ moved = 0 /\ sampled = 0 /\ tail = 0 /\ charged = 0
    /\ excused = FALSE /\ sameIndex = FALSE
    /\ boots = 1 /\ ops = 0 /\ faults = 0

Operation == ops < MaxOps /\ ops' = ops + 1
Fault == faults < MaxFaults /\ faults' = faults + 1

-----------------------------------------------------------------------------
(* The calendar at the moments the clock shows, as tables.                 *)

Births == Times \cup {0}
PeriodTable == [s \in Schedules, c \in Births, t \in Times |-> period(s, c, t)]
ResetTable == [s \in Schedules, c \in Births, t \in Times |-> next_reset(s, c, t)]
Period(s, c, t) == PeriodTable[s, c, t]
NextReset(s, c, t) == ResetTable[s, c, t]

Periods == {Default.period} \cup {Period(s, c, t) : s \in Schedules, c \in Births, t \in Times}
Counts == [total : Nat, month : Nat, period : Periods, index : Nat, last : Nat]
Veths == [index : Nat, count : Nat, boot : Nat]

TrafficTypeOK ==
    /\ now \in Times /\ config \in Schedules /\ seen \in Schedules /\ rec \in Births
    /\ file \in Counts \cup {NoFile} /\ veth \in Veths /\ nextIndex \in Nat \ {0}
    /\ sampler \in {NoSample} \cup
          [pc : {"loaded"}, veth : Veths, period : Periods, gain : Int, t : Counts]
    /\ op \in {NoOp} \cup
          [pc : {"carried", "removed", "made", "provision"}, created : Times, t : Counts]
    /\ moved \in 0..MaxBytes /\ sampled \in Nat /\ tail \in Int /\ charged \in Nat
    /\ excused \in BOOLEAN /\ sameIndex \in BOOLEAN
    /\ boots \in 1..MaxBoots /\ ops \in 0..MaxOps /\ faults \in 0..MaxFaults

-----------------------------------------------------------------------------
(* Traffic::update and its surroundings.                                   *)

\* load_traffic: a missing file counts as zeroes.
Loaded == IF file = NoFile THEN Default ELSE file

\* Mutated form: the interface's index is not looked at.
DeltaByCount(t, index, count) == IF count < t.last THEN count ELSE count - t.last

\* A new index, or a counter that went back, means that it started again from zero.
Delta(t, index, count) ==
    IF index # t.index \/ count < t.last THEN count ELSE count - t.last

\* Fold a sample in; the month counter restarts when the period is another one.
Update(t, index, count, p) ==
    LET d == Delta(t, index, count)
    IN [total |-> t.total + d, month |-> (IF t.period = p THEN t.month ELSE 0) + d,
        period |-> p, index |-> index, last |-> count]

\* Traffic::month, as the heartbeat reports it.
Month(t, p) == IF t.period = p THEN t.month ELSE 0
Reported == IF rec = 0 THEN 0 ELSE Month(Loaded, Period(seen, rec, now))

\* traffic_schedule: the counters of the current period get the new schedule's label.
Relabelled ==
    IF /\ rec # 0 /\ file # NoFile /\ config # seen
       /\ file.period = Period(seen, rec, now)
    THEN [file EXCEPT !.period = Period(config, rec, now)]
    ELSE file

-----------------------------------------------------------------------------
(* The world.                                                              *)

Move ==
    /\ veth # NoVeth /\ moved < MaxBytes
    /\ veth' = [veth EXCEPT !.count = @ + 1]
    /\ moved' = moved + 1
    /\ UNCHANGED <<now, config, seen, rec, file, nextIndex, sampler, op, sampled, tail,
                   charged, excused, sameIndex, counters>>

\* The creation time that sets the periods, also while a reinstall has no record.
Born == IF rec = 0 /\ op # NoOp THEN op.created ELSE rec

\* The clock; a billing period that ends takes its charge with it.
Tick ==
    /\ \E t \in Times :
        /\ t > now /\ \A u \in Times : u > now => t <= u
        /\ now' = t
        /\ charged' = IF Period(seen, Born, t) # Period(seen, Born, now)
                      THEN 0 ELSE charged
    /\ UNCHANGED <<config, seen, rec, file, veth, nextIndex, sampler, op, moved, sampled,
                   tail, excused, sameIndex, counters>>

\* The interface goes with whatever was not sampled of it.
Down == veth' = NoVeth /\ tail' = tail + veth.count - sampled /\ sampled' = 0

\* A new one, counting from zero.
Up ==
    /\ boots < MaxBoots /\ boots' = boots + 1
    /\ veth' = [index |-> nextIndex, count |-> 0, boot |-> boots + 1]
    /\ nextIndex' = nextIndex + 1
    /\ sameIndex' = (sameIndex \/ Loaded.index = nextIndex)

Stop ==
    /\ veth # NoVeth /\ op = NoOp
    /\ Down
    /\ UNCHANGED <<now, config, seen, rec, file, nextIndex, sampler, op, moved, charged,
                   excused, sameIndex, counters>>

Start ==
    /\ rec # 0 /\ veth = NoVeth /\ op = NoOp
    /\ Up
    /\ UNCHANGED <<now, config, seen, rec, file, sampler, op, moved, sampled, tail, charged,
                   excused, ops, faults>>

-----------------------------------------------------------------------------
(* The schedule.                                                           *)

\* The panel changes the configuration.
SetSchedule(s) ==
    /\ Operation /\ s # config
    /\ config' = s
    /\ UNCHANGED <<now, seen, rec, file, veth, nextIndex, sampler, op, ghosts, boots, faults>>

\* Between the load and the save of a reinstall, what others write is overwritten or
\* was read too early.
InReinstall == op.pc \in {"carried", "removed", "made"}

\* A heartbeat, the panel or a sample asks for the schedule.
SeeSchedule ==
    /\ sampler = NoSample /\ config # seen
    /\ file' = Relabelled
    /\ seen' = config
    /\ excused' = (excused \/ InReinstall)
    /\ UNCHANGED <<now, config, rec, veth, nextIndex, sampler, op, moved, sampled, tail,
                   charged, sameIndex, counters>>

-----------------------------------------------------------------------------
(* sample_traffic: read the interface and the file, fold in, save; the     *)
(* schedule's lock is held from the first step to the last.                *)

SampleRead ==
    /\ sampler = NoSample /\ config = seen
    /\ rec # 0 /\ veth # NoVeth
    /\ sampler' = [pc |-> "loaded", veth |-> veth, period |-> Period(seen, rec, now),
                   gain |-> veth.count - sampled, t |-> Loaded]
    /\ excused' = (excused \/ InReinstall)
    /\ UNCHANGED <<now, config, seen, rec, file, veth, nextIndex, op, moved, sampled, tail,
                   charged, sameIndex, counters>>

\* Without the instance's directory the save fails, which is only logged.
SampleSave ==
    /\ sampler.pc = "loaded"
    /\ sampler' = NoSample
    /\ IF rec = 0
       THEN UNCHANGED <<file, sampled, tail, charged>>
       ELSE LET u == Update(sampler.t, sampler.veth.index, sampler.veth.count, sampler.period)
                m == Month(u, Period(seen, rec, now))
            IN /\ file' = u
               /\ charged' = IF m > charged THEN m ELSE charged
               /\ IF veth.boot = sampler.veth.boot
                  THEN sampled' = sampler.veth.count /\ UNCHANGED tail
                  ELSE tail' = tail - sampler.gain /\ UNCHANGED sampled
    /\ excused' = (excused \/ InReinstall)
    /\ UNCHANGED <<now, config, seen, rec, veth, nextIndex, op, moved, sameIndex, counters>>

-----------------------------------------------------------------------------
(* Reinstall: create_locked on an existing instance.                       *)

\* The creation time and the counters are read before the old instance goes.
ReinstallLoad ==
    /\ Operation
    /\ op = NoOp /\ rec # 0
    /\ op' = [pc |-> "carried", created |-> rec, t |-> Loaded]
    /\ excused' = (excused \/ sampler.pc = "loaded")
    /\ UNCHANGED <<now, config, seen, rec, file, veth, nextIndex, sampler, moved, sampled,
                   tail, charged, sameIndex, boots, faults>>

\* delete_locked: the instance is halted and its directory removed.
ReinstallRemove ==
    /\ op.pc = "carried"
    /\ op' = [op EXCEPT !.pc = "removed"]
    /\ rec' = 0 /\ file' = NoFile
    /\ Down
    /\ UNCHANGED <<now, config, seen, nextIndex, sampler, moved, charged, excused, sameIndex,
                   counters>>

\* The new record is written, under the allocation lock ...
ReinstallRecord ==
    /\ op.pc = "removed"
    /\ op' = [op EXCEPT !.pc = "made"]
    /\ rec' = op.created
    /\ UNCHANGED <<now, config, seen, file, veth, nextIndex, sampler, ghosts, counters>>

\* Mutated form: the counters are not carried over.
ReinstallForget ==
    /\ op.pc = "made"
    /\ op' = [op EXCEPT !.pc = "provision"]
    /\ UNCHANGED <<now, config, seen, rec, file, veth, nextIndex, sampler, ghosts, counters>>

\* ... and then the counters.
ReinstallSave ==
    /\ op.pc = "made"
    /\ op' = [op EXCEPT !.pc = "provision"]
    /\ file' = op.t
    /\ UNCHANGED <<now, config, seen, rec, veth, nextIndex, sampler, ghosts, counters>>

\* The disk is ready and the instance boots.
ReinstallLaunch ==
    /\ op.pc = "provision"
    /\ op' = NoOp
    /\ Up
    /\ UNCHANGED <<now, config, seen, rec, file, sampler, moved, sampled, tail, charged,
                   excused, ops, faults>>

\* Provisioning fails: the directory is removed again, counters included.
ReinstallFails ==
    /\ op.pc = "provision" /\ Fault
    /\ op' = NoOp
    /\ rec' = 0 /\ file' = NoFile
    /\ excused' = TRUE
    /\ UNCHANGED <<now, config, seen, veth, nextIndex, sampler, moved, sampled, tail, charged,
                   sameIndex, boots, ops>>

\* The instance is created again from nothing.
Create ==
    /\ rec = 0 /\ op = NoOp
    /\ rec' = now
    /\ Up
    /\ excused' = (excused \/ sampler # NoSample)
    /\ UNCHANGED <<now, config, seen, file, sampler, op, moved, sampled, tail, charged, ops,
                   faults>>

\* The totals of a deleted instance are discarded with it.
Delete ==
    /\ Operation
    /\ op = NoOp /\ rec # 0
    /\ rec' = 0 /\ file' = NoFile /\ veth' = NoVeth
    /\ moved' = 0 /\ sampled' = 0 /\ tail' = 0 /\ charged' = 0
    /\ excused' = FALSE
    /\ UNCHANGED <<now, config, seen, nextIndex, sampler, op, sameIndex, boots, faults>>

-----------------------------------------------------------------------------
(* Restarts.                                                               *)

\* The agent: what was in memory is gone, and the schedule in effect is the configured
\* one from the start.
Restart ==
    /\ Fault
    /\ sampler' = NoSample /\ op' = NoOp
    /\ seen' = config
    /\ excused' = (excused \/ op.pc \in {"removed", "made"} \/ config # seen)
    /\ UNCHANGED <<now, config, rec, file, veth, nextIndex, moved, sampled, tail, charged,
                   sameIndex, boots, ops>>

\* The host: the interfaces go too and their indexes start again.
Reboot ==
    /\ Fault
    /\ sampler' = NoSample /\ op' = NoOp
    /\ seen' = config
    /\ Down
    /\ nextIndex' = 1
    /\ excused' = (excused \/ op.pc \in {"removed", "made"} \/ config # seen)
    /\ UNCHANGED <<now, config, rec, file, moved, charged, sameIndex, boots, ops>>

-----------------------------------------------------------------------------
TrafficNext ==
    \/ Move \/ Tick \/ Stop \/ Start
    \/ \E s \in Schedules : SetSchedule(s)
    \/ SeeSchedule \/ SampleRead \/ SampleSave
    \/ ReinstallLoad \/ ReinstallRemove \/ ReinstallRecord \/ ReinstallSave
    \/ ReinstallLaunch \/ ReinstallFails \/ Create \/ Delete
    \/ Restart \/ Reboot

TrafficSpec == TrafficInit /\ [][TrafficNext]_trafficVars

-----------------------------------------------------------------------------
(* Properties.  `excused` marks what the code does not protect: a sample   *)
(* or a relabelling in the middle of a reinstall, a sample from before a   *)
(* delete that is saved after the next creation, a reinstall that fails or *)
(* is cut short after it removed the old counters, and a restart before a  *)
(* new schedule was seen.                                                  *)

\* Every byte is in the total, still on the interface's counter, or was lost with an
\* interface that went before its next sample; nothing is counted twice.  Only an
\* interface that gets the saved index again after a reboot of the host can be counted
\* short.
BytesConserved ==
    (~excused /\ sampler = NoSample /\ ~InReinstall /\ rec # 0) =>
        LET sum == Loaded.total + tail + veth.count - sampled
        IN sum <= moved /\ (~sameIndex => sum = moved)

\* Usage once reported in a billing period is not handed back before it ends: a reinstall
\* and a change of the schedule keep it.
UsageKept == (~excused /\ rec # 0 /\ ~InReinstall) => Reported >= charged

\* Under every schedule the label of the period changes exactly at next_reset, and only
\* forwards, short months and local midnight included.
Later(p, q) == q.y > p.y \/ (q.y = p.y /\ q.m > p.m)
ResetExact ==
    [][now' # now =>
        \A s \in Schedules, c \in {0, rec} :
            LET p == Period(s, c, now)
                q == Period(s, c, now')
            IN /\ now < NextReset(s, c, now)
               /\ (now' >= NextReset(s, c, now)) <=> (p # q)
               /\ p # q => Later(p, q)]_trafficVars

\* What create_locked says: a reinstall must not hand out a fresh monthly quota.  One that
\* fails half-way does.
ReinstallKeepsQuota == (rec # 0 /\ ~InReinstall) => Reported >= charged

\* What traffic_schedule says: counters of the current period are relabelled.  Those of a
\* period that has ended may carry the label of the new schedule's current one.
EndedStaysEnded == (~excused /\ rec # 0 /\ ~InReinstall) => Reported <= charged
=============================================================================
