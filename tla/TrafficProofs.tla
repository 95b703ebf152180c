--------------------------- MODULE TrafficProofs ----------------------------
(***************************************************************************)
(* Proofs about Traffic, for any moments, schedules and calendar: that the *)
(* counters balance with the bytes moved, and that reported usage does not *)
(* fall.                                                                   *)
(***************************************************************************)
EXTENDS Traffic, TLAPS

-----------------------------------------------------------------------------
(* Traffic: the inductive invariant *)

\* The counters that will outlive the operation in progress.
Carry == IF op.pc \in {"removed", "made"} THEN op.t ELSE Loaded

\* Which pieces exist together, and that no two interfaces of one run of the host share
\* an index: holds whatever has been excused.
Shape ==
    /\ rec = 0 => veth = NoVeth /\ file = NoFile
    /\ op.pc = "removed" => rec = 0
    /\ op.pc \in {"carried", "made", "provision"} => rec = op.created
    /\ op.pc \in {"removed", "made", "provision"} => veth = NoVeth
    /\ sampled <= veth.count
    /\ veth # NoVeth => veth.index \in 1..(nextIndex - 1) /\ veth.boot \in 1..boots

\* What a sample has read is an earlier state of the interface, or another interface.
Read ==
    sampler # NoSample =>
        /\ sampler.veth.index \in 1..(nextIndex - 1) /\ sampler.veth.boot \in 1..boots
        /\ veth.boot = sampler.veth.boot =>
              veth.index = sampler.veth.index /\ sampler.veth.count <= veth.count
        /\ veth # NoVeth /\ veth.boot # sampler.veth.boot => veth.index # sampler.veth.index

\* Nobody works on the counters of a reinstall.
Alone ==
    /\ sampler # NoSample => op = NoOp
    /\ op.pc = "carried" => op.t = Loaded
    /\ rec = 0 /\ op = NoOp => moved = 0 /\ tail = 0 /\ charged = 0

Balance ==
    LET sum == Carry.total + tail + veth.count - sampled
    IN sum <= moved /\ (~sameIndex => sum = moved)

\* What the file knows of the interface's counter.
Link ==
    veth # NoVeth =>
        IF Loaded.index = veth.index THEN sampled = Loaded.last \/ (sampled = 0 /\ sameIndex)
        ELSE sampled = 0

\* A sample between its two steps adds what it says it gains.
Pending ==
    sampler # NoSample /\ rec # 0 =>
        LET d == Delta(sampler.t, sampler.veth.index, sampler.veth.count)
        IN /\ sampler.t = Loaded
           /\ d <= sampler.gain /\ (~sameIndex => d = sampler.gain)
           /\ IF veth.boot = sampler.veth.boot
              THEN sampler.gain = sampler.veth.count - sampled
              ELSE sampled = 0

Usage ==
    /\ charged <= Month(Carry, Period(seen, Born, now))
    /\ sampler # NoSample /\ rec # 0 => charged = 0 \/ sampler.period = Period(seen, rec, now)

Accounts == Alone /\ Balance /\ Link /\ Pending /\ Usage

\* TrafficTypeOK, by part.
ClockTypes ==
    /\ now \in Times /\ config \in Schedules /\ seen \in Schedules /\ rec \in Births
    /\ boots \in 1..MaxBoots /\ ops \in 0..MaxOps /\ faults \in 0..MaxFaults
FileTypes == file \in Counts \cup {NoFile}
VethTypes == veth \in Veths /\ nextIndex \in Nat \ {0}
SamplerTypes ==
    sampler \in {NoSample} \cup
        [pc : {"loaded"}, veth : Veths, period : Periods, gain : Int, t : Counts]
OpTypes ==
    op \in {NoOp} \cup
        [pc : {"carried", "removed", "made", "provision"}, created : Times, t : Counts]
GhostTypes == moved \in 0..MaxBytes /\ sampled \in Nat /\ tail \in Int /\ charged \in Nat
FlagTypes == excused \in BOOLEAN /\ sameIndex \in BOOLEAN

TrafficTypes ==
    ClockTypes /\ FileTypes /\ VethTypes /\ SamplerTypes /\ OpTypes /\ GhostTypes /\ FlagTypes

TrafficInv ==
    /\ TrafficTypes /\ Shape /\ Read
    /\ ~excused => Accounts

LEMMA TrafficTypesAreTypeOK == TrafficTypes <=> TrafficTypeOK
BY DEF TrafficTypes, TrafficTypeOK, ClockTypes, FileTypes, VethTypes, SamplerTypes, OpTypes,
       GhostTypes, FlagTypes

-----------------------------------------------------------------------------
(* Traffic: types *)

LEMMA PeriodTypes ==
    ASSUME NEW s \in Schedules, NEW c \in Births, NEW t \in Times
    PROVE  Period(s, c, t) \in Periods
BY DEF Periods

LEMMA LoadedTypes ==
    ASSUME FileTypes
    PROVE  /\ Loaded \in Counts
           /\ file # NoFile => Loaded = file
BY DEF FileTypes, Loaded, Default, Counts, Periods

LEMMA NoFileIsNone == NoFile \notin Counts
BY DEF NoFile, Counts, Default

LEMMA MonthTypes ==
    ASSUME NEW t \in Counts, NEW p
    PROVE  Month(t, p) \in Nat
BY DEF Month, Counts

LEMMA UpdateTypes ==
    ASSUME NEW t \in Counts, NEW i \in Nat, NEW n \in Nat, NEW p \in Periods
    PROVE  /\ Delta(t, i, n) \in Nat
           /\ Update(t, i, n, p) \in Counts
           /\ Update(t, i, n, p) = [total |-> t.total + Delta(t, i, n),
                                    month |-> Month(t, p) + Delta(t, i, n),
                                    period |-> p, index |-> i, last |-> n]
<1>1. t.total \in Nat /\ t.month \in Nat /\ t.last \in Nat
  BY DEF Counts
<1>2. Delta(t, i, n) \in Nat
  BY <1>1 DEF Delta
<1> QED
  BY <1>1, <1>2 DEF Update, Counts, Month

LEMMA ClockNext ==
    ASSUME TrafficTypes, TrafficNext
    PROVE  ClockTypes'
<1> USE DEF ClockTypes
<1>1. CASE UNCHANGED <<now, config, seen, rec, boots, ops, faults>>
  BY <1>1 DEF TrafficTypes
<1>2. CASE Tick \/ \E s \in Schedules : SetSchedule(s)
  BY <1>2, TrafficAssumption DEF TrafficTypes, Tick, SetSchedule, Operation, counters
<1>3. CASE Start \/ SeeSchedule \/ ReinstallLaunch
  BY <1>3, TrafficAssumption DEF TrafficTypes, Start, Up, SeeSchedule, ReinstallLaunch, counters
<1>4. CASE ReinstallLoad \/ ReinstallRemove \/ Delete
  BY <1>4, TrafficAssumption DEF TrafficTypes, ReinstallLoad, ReinstallRemove, Delete, Operation, Births, counters
<1>5. CASE ReinstallRecord
  BY <1>5 DEF TrafficTypes, ReinstallRecord, OpTypes, NoOp, Births, counters
<1>6. CASE ReinstallFails \/ Create
  BY <1>6, TrafficAssumption DEF TrafficTypes, ReinstallFails, Create, Up, Fault, Births, counters
<1>7. CASE Restart \/ Reboot
  BY <1>7, TrafficAssumption DEF TrafficTypes, Restart, Reboot, Fault, counters
<1> QED
  <2>1. \/ UNCHANGED <<now, config, seen, rec, boots, ops, faults>>
        \/ Tick \/ Start \/ SeeSchedule \/ ReinstallLaunch \/ ReinstallLoad \/ ReinstallRemove
        \/ Delete \/ ReinstallRecord \/ ReinstallFails \/ Create \/ Restart \/ Reboot
        \/ \E s \in Schedules : SetSchedule(s)
    BY DEF TrafficNext, Move, Stop, SampleRead, SampleSave, ReinstallSave, counters
  <2> QED
    BY <1>1, <1>2, <1>3, <1>4, <1>5, <1>6, <1>7, <2>1

LEMMA FileNext ==
    ASSUME TrafficTypes, TrafficNext
    PROVE  FileTypes'
<1>1. CASE UNCHANGED file \/ file' = NoFile
  BY <1>1 DEF TrafficTypes, FileTypes
<1>2. CASE SeeSchedule
  <2>1. Period(config, rec, now) \in Periods
    BY PeriodTypes DEF TrafficTypes, ClockTypes
  <2> QED
    BY <1>2, <2>1 DEF TrafficTypes, FileTypes, SeeSchedule, Relabelled, Counts
<1>3. CASE SampleSave
  <2>1. CASE rec = 0
    BY <1>3, <2>1 DEF SampleSave, TrafficTypes, FileTypes
  <2>2. CASE rec # 0
    <3>1. /\ sampler.t \in Counts /\ sampler.veth \in Veths /\ sampler.period \in Periods
      BY <1>3 DEF SampleSave, TrafficTypes, SamplerTypes, NoSample
    <3>2. Update(sampler.t, sampler.veth.index, sampler.veth.count, sampler.period) \in Counts
      BY Zenon, <3>1, UpdateTypes DEF Veths
    <3> QED
      BY <1>3, <2>2, <3>2 DEF SampleSave, FileTypes
  <2> QED
    BY <2>1, <2>2
<1>4. CASE ReinstallSave
  BY <1>4 DEF TrafficTypes, OpTypes, ReinstallSave, NoOp, FileTypes
<1> QED
  <2>1. UNCHANGED file \/ file' = NoFile \/ SeeSchedule \/ SampleSave \/ ReinstallSave
    BY Zenon DEF TrafficNext, Move, Tick, Stop, Start, SetSchedule, SampleRead, ReinstallLoad,
           ReinstallRemove, ReinstallRecord, ReinstallLaunch, ReinstallFails, Create, Delete,
           Restart, Reboot
  <2> QED
    BY <1>1, <1>2, <1>3, <1>4, <2>1

LEMMA VethNext ==
    ASSUME TrafficTypes, TrafficNext
    PROVE  VethTypes'
<1> USE DEF VethTypes, Veths
<1>1. CASE UNCHANGED <<veth, nextIndex>>
  BY <1>1 DEF TrafficTypes
<1>2. CASE Move
  BY <1>2 DEF TrafficTypes, Move
<1>3. CASE Stop \/ ReinstallRemove \/ Delete \/ Reboot
  BY <1>3 DEF TrafficTypes, Stop, ReinstallRemove, Delete, Reboot, Down, NoVeth
<1>4. CASE Start \/ ReinstallLaunch \/ Create
  BY <1>4 DEF TrafficTypes, ClockTypes, Start, ReinstallLaunch, Create, Up
<1> QED
  <2>1. \/ UNCHANGED <<veth, nextIndex>>
        \/ Move \/ Stop \/ ReinstallRemove \/ Delete \/ Reboot \/ Start \/ ReinstallLaunch
        \/ Create
    BY DEF TrafficNext, Tick, SetSchedule, SeeSchedule, SampleRead, SampleSave, ReinstallLoad,
           ReinstallRecord, ReinstallSave, ReinstallFails, Restart
  <2> QED
    BY <1>1, <1>2, <1>3, <1>4, <2>1

LEMMA SamplerNext ==
    ASSUME TrafficTypes, TrafficNext
    PROVE  SamplerTypes'
<1>1. CASE UNCHANGED sampler \/ sampler' = NoSample
  BY <1>1 DEF TrafficTypes, SamplerTypes
<1>2. CASE SampleRead
  <2>1. Period(seen, rec, now) \in Periods /\ Loaded \in Counts
    BY PeriodTypes, LoadedTypes DEF TrafficTypes, ClockTypes
  <2>2. veth \in Veths /\ veth.count - sampled \in Int
    BY DEF TrafficTypes, VethTypes, GhostTypes, Veths
  <2> QED
    BY <1>2, <2>1, <2>2 DEF SampleRead, SamplerTypes
<1> QED
  <2>1. UNCHANGED sampler \/ sampler' = NoSample \/ SampleRead
    BY Zenon DEF TrafficNext, Move, Tick, Stop, Start, SetSchedule, SeeSchedule, SampleSave,
           ReinstallLoad, ReinstallRemove, ReinstallRecord, ReinstallSave, ReinstallLaunch,
           ReinstallFails, Create, Delete, Restart, Reboot
  <2> QED
    BY <1>1, <1>2, <2>1

LEMMA OpNext ==
    ASSUME TrafficTypes, TrafficNext
    PROVE  OpTypes'
<1>1. CASE UNCHANGED op \/ op' = NoOp
  BY <1>1 DEF TrafficTypes, OpTypes
<1>2. CASE ReinstallLoad
  <2>1. rec \in Times /\ Loaded \in Counts
    BY <1>2, LoadedTypes DEF ReinstallLoad, TrafficTypes, ClockTypes, Births
  <2> QED
    BY <1>2, <2>1 DEF ReinstallLoad, OpTypes
<1>3. ASSUME NEW to \in {"removed", "made", "provision"},
             op.pc # "no", op' = [op EXCEPT !.pc = to]
      PROVE  OpTypes'
  BY <1>3 DEF TrafficTypes, OpTypes, NoOp
<1> QED
  <2>1. \/ UNCHANGED op \/ op' = NoOp \/ ReinstallLoad
        \/ \E to \in {"removed", "made", "provision"} :
              op.pc # "no" /\ op' = [op EXCEPT !.pc = to]
    BY Zenon DEF TrafficNext, Move, Tick, Stop, Start, SetSchedule, SeeSchedule, SampleRead,
           SampleSave, ReinstallRemove, ReinstallRecord, ReinstallSave, ReinstallLaunch,
           ReinstallFails, Create, Delete, Restart, Reboot
  <2> QED
    BY <1>1, <1>2, <1>3, <2>1

LEMMA GhostNext ==
    ASSUME TrafficTypes, TrafficNext
    PROVE  GhostTypes'
<1> USE DEF GhostTypes
<1>1. CASE UNCHANGED <<moved, sampled, tail, charged>>
  BY <1>1 DEF TrafficTypes
<1>2. CASE Move \/ Tick
  BY <1>2, TrafficAssumption DEF TrafficTypes, Move, Tick
<1>3. CASE Stop \/ ReinstallRemove \/ Reboot
  <2>1. veth.count \in Nat
    BY DEF TrafficTypes, VethTypes, Veths
  <2> QED
    BY <1>3, <2>1 DEF TrafficTypes, Stop, ReinstallRemove, Reboot, Down
<1>4. CASE Delete
  BY <1>4, TrafficAssumption DEF Delete
<1>5. CASE SampleSave
  <2>1. CASE rec = 0
    BY <1>5, <2>1 DEF SampleSave, TrafficTypes
  <2>2. CASE rec # 0
    <3> DEFINE u == Update(sampler.t, sampler.veth.index, sampler.veth.count, sampler.period)
    <3>1. /\ sampler.t \in Counts /\ sampler.veth \in Veths /\ sampler.period \in Periods
          /\ sampler.gain \in Int
      BY <1>5 DEF SampleSave, TrafficTypes, SamplerTypes, NoSample
    <3>2. u \in Counts /\ sampler.veth.count \in Nat
      BY Zenon, <3>1, UpdateTypes DEF Veths
    <3>3. Month(u, Period(seen, rec, now)) \in Nat
      BY <3>2, MonthTypes
    <3>4. charged' \in Nat
      BY <1>5, <2>2, <3>3 DEF SampleSave, TrafficTypes
    <3> QED
      BY <1>5, <2>2, <3>1, <3>2, <3>4 DEF SampleSave, TrafficTypes
  <2> QED
    BY <2>1, <2>2
<1> QED
  <2>1. \/ UNCHANGED <<moved, sampled, tail, charged>>
        \/ Move \/ Tick \/ Stop \/ ReinstallRemove \/ Reboot \/ Delete \/ SampleSave
    BY DEF TrafficNext, Start, SetSchedule, SeeSchedule, SampleRead, ReinstallLoad,
           ReinstallRecord, ReinstallSave, ReinstallLaunch, ReinstallFails, Create, Restart,
           ghosts
  <2> QED
    BY <1>1, <1>2, <1>3, <1>4, <1>5, <2>1

LEMMA FlagNext ==
    ASSUME TrafficTypes, TrafficNext
    PROVE  FlagTypes'
BY Zenon DEF FlagTypes, TrafficTypes, TrafficNext, Move, Tick, Stop, Start, SetSchedule,
   SeeSchedule, SampleRead, SampleSave, ReinstallLoad, ReinstallRemove, ReinstallRecord,
   ReinstallSave, ReinstallLaunch, ReinstallFails, Create, Delete, Restart, Reboot, Up, ghosts

LEMMA TrafficTypesNext ==
    ASSUME TrafficTypes, TrafficNext
    PROVE  TrafficTypes'
BY ClockNext, FileNext, VethNext, SamplerNext, OpNext, GhostNext, FlagNext DEF TrafficTypes

-----------------------------------------------------------------------------
(* Traffic: what exists together *)

LEMMA VethFacts ==
    ASSUME TrafficTypes
    PROVE  /\ veth.index \in Nat /\ veth.count \in Nat /\ veth.boot \in Nat
           /\ NoVeth.index = 0 /\ NoVeth.count = 0 /\ NoVeth.boot = 0
           /\ sampled \in Nat /\ nextIndex \in Nat \ {0} /\ boots \in Nat
BY TrafficAssumption
   DEF TrafficTypes, VethTypes, Veths, GhostTypes, ClockTypes, NoVeth

LEMMA SamplerFacts ==
    ASSUME TrafficTypes, sampler # NoSample
    PROVE  /\ sampler.t \in Counts /\ sampler.period \in Periods /\ sampler.gain \in Int
           /\ sampler.veth.index \in Nat /\ sampler.veth.count \in Nat
           /\ sampler.veth.boot \in Nat
BY DEF TrafficTypes, SamplerTypes, Veths

LEMMA OpFacts ==
    ASSUME TrafficTypes
    PROVE  /\ op # NoOp => /\ op.created \in Times /\ op.created # 0 /\ op.t \in Counts
                           /\ op.pc \in {"carried", "removed", "made", "provision"}
           /\ op.pc # "no" => op # NoOp
           /\ NoOp.pc = "no"
BY TrafficAssumption DEF TrafficTypes, OpTypes, NoOp

LEMMA ShapeStep ==
    ASSUME TrafficTypes, Shape, Read, TrafficNext
    PROVE  Shape'
<1> USE VethFacts, OpFacts DEF Shape
<1>1. CASE UNCHANGED <<rec, veth, file, op, sampled, nextIndex, boots>>
  BY <1>1
<1>2. CASE Move
  <2>1. /\ UNCHANGED <<rec, file, op, sampled, nextIndex, boots>> /\ veth # NoVeth
        /\ veth'.index = veth.index /\ veth'.boot = veth.boot /\ veth'.count = veth.count + 1
    BY <1>2 DEF Move, TrafficTypes, VethTypes, Veths, counters
  <2> QED
    BY <2>1
<1>3. CASE Stop \/ Reboot
  <2>1. /\ UNCHANGED <<rec, file, boots>> /\ (UNCHANGED op \/ op' = NoOp)
        /\ veth' = NoVeth /\ sampled' = 0
    BY <1>3 DEF Stop, Reboot, Down, counters
  <2> QED
    BY <2>1
<1>4. CASE Start \/ Create \/ ReinstallLaunch
  <2>1. /\ rec' # 0 /\ op' = NoOp /\ UNCHANGED sampled /\ veth = NoVeth
        /\ veth' = [index |-> nextIndex, count |-> 0, boot |-> boots + 1]
        /\ nextIndex' = nextIndex + 1 /\ boots' = boots + 1
    BY Zenon, <1>4, TrafficAssumption
       DEF Start, Create, ReinstallLaunch, Up, TrafficTypes, ClockTypes
  <2> QED
    BY <2>1
<1>5. CASE SeeSchedule
  <2>1. UNCHANGED <<rec, veth, op, sampled, nextIndex, boots>> /\ (rec = 0 => file' = file)
    BY <1>5 DEF SeeSchedule, Relabelled, counters
  <2> QED
    BY <2>1
<1>6. CASE SampleSave
  <2>1. sampler # NoSample
    BY <1>6 DEF SampleSave, NoSample
  <2>2. /\ UNCHANGED <<rec, veth, op, nextIndex, boots>> /\ (rec = 0 => file' = file)
        /\ \/ UNCHANGED sampled
           \/ veth.boot = sampler.veth.boot /\ sampled' = sampler.veth.count
    BY Zenon, <1>6 DEF SampleSave, counters
  <2>3. sampled' <= veth.count
    BY <2>1, <2>2 DEF Read
  <2> QED
    BY <2>2, <2>3
<1>7. CASE ReinstallLoad
  BY <1>7 DEF ReinstallLoad
<1>8. CASE ReinstallRemove
  <2>1. /\ rec' = 0 /\ file' = NoFile /\ veth' = NoVeth /\ sampled' = 0 /\ op'.pc = "removed"
    BY <1>8 DEF ReinstallRemove, Down, TrafficTypes, OpTypes, NoOp
  <2> QED
    BY <2>1
<1>9. CASE ReinstallRecord
  <2>1. /\ UNCHANGED <<veth, file, sampled, nextIndex, boots>> /\ op.pc = "removed"
        /\ rec' = op.created /\ op'.pc = "made" /\ op'.created = op.created
    BY <1>9 DEF ReinstallRecord, TrafficTypes, OpTypes, NoOp, ghosts, counters
  <2> QED
    BY <2>1
<1>10. CASE ReinstallSave
  <2>1. /\ UNCHANGED <<rec, veth, sampled, nextIndex, boots>> /\ op.pc = "made"
        /\ op'.pc = "provision" /\ op'.created = op.created
    BY <1>10 DEF ReinstallSave, TrafficTypes, OpTypes, NoOp, ghosts, counters
  <2> QED
    BY <2>1
<1>11. CASE ReinstallFails
  BY <1>11 DEF ReinstallFails
<1>12. CASE Delete
  BY <1>12 DEF Delete
<1>13. CASE Restart
  BY <1>13 DEF Restart
<1> QED
  <2>1. \/ UNCHANGED <<rec, veth, file, op, sampled, nextIndex, boots>>
        \/ Move \/ Stop \/ Reboot \/ Start \/ Create \/ ReinstallLaunch \/ SeeSchedule
        \/ SampleSave \/ ReinstallLoad \/ ReinstallRemove \/ ReinstallRecord \/ ReinstallSave
        \/ ReinstallFails \/ Delete \/ Restart
    BY DEF TrafficNext, Tick, SetSchedule, SampleRead, ghosts, counters
  <2> QED
    BY Zenon, <1>1, <1>2, <1>3, <1>4, <1>5, <1>6, <1>7, <1>8, <1>9, <1>10, <1>11, <1>12, <1>13, <2>1

LEMMA ReadStep ==
    ASSUME TrafficTypes, Shape, Read, TrafficNext
    PROVE  Read'
<1> USE VethFacts DEF Read
<1>1. CASE UNCHANGED <<sampler, veth, nextIndex, boots>>
  BY <1>1
<1>2. CASE sampler' = NoSample
  BY <1>2
<1>3. CASE Move
  <2>1. /\ UNCHANGED <<sampler, nextIndex, boots>> /\ veth # NoVeth
        /\ veth'.index = veth.index /\ veth'.boot = veth.boot /\ veth'.count = veth.count + 1
    BY <1>3 DEF Move, TrafficTypes, VethTypes, Veths, counters
  <2> QED
    BY <2>1, SamplerFacts
<1>4. CASE Stop \/ ReinstallRemove \/ Delete
  <2>1. UNCHANGED <<sampler, nextIndex, boots>> /\ veth' = NoVeth
    BY <1>4 DEF Stop, ReinstallRemove, Delete, Down, counters
  <2> QED
    BY <2>1, SamplerFacts
<1>5. CASE Start \/ Create \/ ReinstallLaunch
  <2>1. /\ UNCHANGED sampler
        /\ veth' = [index |-> nextIndex, count |-> 0, boot |-> boots + 1]
        /\ nextIndex' = nextIndex + 1 /\ boots' = boots + 1
    BY Zenon, <1>5 DEF Start, Create, ReinstallLaunch, Up
  <2> QED
    BY <2>1, SamplerFacts
<1>6. CASE SampleRead
  <2>1. /\ UNCHANGED <<veth, nextIndex, boots>> /\ veth # NoVeth /\ sampler'.veth = veth
    BY Zenon, <1>6 DEF SampleRead, counters
  <2> QED
    BY <2>1 DEF Shape
<1> QED
  <2>1. \/ UNCHANGED <<sampler, veth, nextIndex, boots>> \/ sampler' = NoSample
        \/ Move \/ Stop \/ ReinstallRemove \/ Delete \/ Start \/ Create \/ ReinstallLaunch
        \/ SampleRead
    BY Zenon DEF TrafficNext, Tick, SetSchedule, SeeSchedule, SampleSave, ReinstallLoad,
           ReinstallRecord, ReinstallSave, ReinstallFails, Restart, Reboot, ghosts, counters
  <2> QED
    BY Zenon, <1>1, <1>2, <1>3, <1>4, <1>5, <1>6, <2>1

-----------------------------------------------------------------------------
(* Traffic: the accounts, as long as nothing is excused *)

LEMMA CarryTypes ==
    ASSUME TrafficTypes
    PROVE  /\ Loaded \in Counts /\ Loaded.total \in Nat /\ Loaded.last \in Nat
           /\ Carry \in Counts /\ Carry.total \in Nat
           /\ moved \in Nat /\ tail \in Int /\ charged \in Nat
<1>1. Loaded \in Counts
  BY LoadedTypes DEF TrafficTypes
<1>2. Carry \in Counts
  BY <1>1, OpFacts DEF Carry
<1> QED
  BY <1>1, <1>2, TrafficAssumption DEF Counts, TrafficTypes, GhostTypes

\* The step is not excused, nor was anything before it; Delete, which forgives, apart.
LEMMA StillProtected ==
    ASSUME TrafficTypes, TrafficNext, ~excused'
    PROVE  Delete \/ ~excused
BY Zenon DEF TrafficNext, Move, Tick, Stop, Start, SetSchedule,
   SeeSchedule, SampleRead, SampleSave, ReinstallLoad, ReinstallRemove, ReinstallRecord,
   ReinstallSave, ReinstallLaunch, ReinstallFails, Create, Restart, Reboot, ghosts

LEMMA DeleteStep ==
    ASSUME TrafficTypes, Delete
    PROVE  Accounts'
<1>1. /\ rec' = 0 /\ file' = NoFile /\ veth' = NoVeth /\ op' = NoOp
      /\ moved' = 0 /\ sampled' = 0 /\ tail' = 0 /\ charged' = 0
  BY DEF Delete
<1>2. Loaded' = Default /\ Carry' = Default /\ Default.total = 0
  BY <1>1 DEF Loaded, Carry, NoOp, Default
<1>3. Alone'
  BY <1>1 DEF Alone, NoOp
<1>4. Balance'
  BY <1>1, <1>2 DEF Balance, NoVeth
<1>5. Link' /\ Pending'
  BY <1>1 DEF Link, Pending
<1>6. Default \in Counts
  BY DEF Default, Counts, Periods
<1>7. Usage'
  BY <1>1, <1>2, <1>6, MonthTypes DEF Usage
<1> QED
  BY <1>3, <1>4, <1>5, <1>7 DEF Accounts

LEMMA AloneStep ==
    ASSUME TrafficTypes, Shape, Alone, ~excused', TrafficNext, ~Delete
    PROVE  Alone'
<1> USE OpFacts DEF Alone
<1>1. CASE UNCHANGED <<sampler, op, file, rec, moved, tail, charged>>
  BY <1>1 DEF Loaded
<1>2. CASE Move \/ Stop \/ Start
  <2>1. UNCHANGED <<sampler, op, file>> /\ rec # 0 /\ rec' = rec
    BY <1>2 DEF Move, Stop, Start, Shape
  <2> QED
    BY <2>1 DEF Loaded
<1>8. CASE Tick
  <2>1. UNCHANGED <<sampler, op, file, rec, moved, tail>> /\ charged' \in {0, charged}
    BY <1>8 DEF Tick
  <2> QED
    BY <2>1 DEF Loaded
<1>3. CASE SeeSchedule \/ SampleRead \/ SampleSave
  <2>1. UNCHANGED <<op, rec, moved>> /\ op.pc # "carried"
    BY Zenon, <1>3 DEF SeeSchedule, SampleRead, SampleSave, InReinstall
  <2>2. sampler' # NoSample => op = NoOp
    BY Zenon, <1>3, <2>1 DEF SeeSchedule, SampleRead, SampleSave, InReinstall, Shape
  <2>3. rec = 0 => UNCHANGED <<tail, charged>>
    BY Zenon, <1>3 DEF SeeSchedule, SampleRead, SampleSave
  <2> QED
    BY <2>1, <2>2, <2>3
<1>4. CASE ReinstallLoad
  BY Zenon, <1>4 DEF ReinstallLoad, Loaded, TrafficTypes, SamplerTypes
<1>5. CASE ReinstallRemove \/ ReinstallRecord \/ ReinstallSave
  <2>1. /\ UNCHANGED sampler /\ op # NoOp
        /\ op'.pc \in {"removed", "made", "provision"} /\ op' # NoOp
    BY <1>5 DEF ReinstallRemove, ReinstallRecord, ReinstallSave, TrafficTypes, OpTypes, NoOp
  <2> QED
    BY <2>1
<1>6. CASE ReinstallLaunch \/ ReinstallFails \/ Create
  <2>1. sampler' = NoSample /\ op' = NoOp /\ rec' # 0
    BY Zenon, <1>6, TrafficAssumption
       DEF ReinstallLaunch, ReinstallFails, Create, Shape, TrafficTypes, ClockTypes
  <2> QED
    BY <2>1
<1>7. CASE Restart \/ Reboot
  <2>1. sampler' = NoSample /\ op' = NoOp /\ rec' = rec /\ op.pc # "removed"
    BY Zenon, <1>7 DEF Restart, Reboot
  <2>2. rec = 0 => op = NoOp /\ tail' = tail /\ moved' = moved /\ charged' = charged
    BY <1>7, <2>1, VethFacts, CarryTypes DEF Restart, Reboot, Down, Shape
  <2> QED
    BY <2>1, <2>2
<1> QED
  <2>1. \/ UNCHANGED <<sampler, op, file, rec, moved, tail, charged>>
        \/ Move \/ Tick \/ Stop \/ Start \/ SeeSchedule \/ SampleRead \/ SampleSave
        \/ ReinstallLoad \/ ReinstallRemove \/ ReinstallRecord \/ ReinstallSave
        \/ ReinstallLaunch \/ ReinstallFails \/ Create \/ Restart \/ Reboot
    BY DEF TrafficNext, SetSchedule, ghosts
  <2> QED
    BY Zenon, <1>1, <1>2, <1>3, <1>4, <1>5, <1>6, <1>7, <1>8, <2>1

\* What SampleSave writes.
LEMMA Saved ==
    ASSUME TrafficTypes, SampleSave, rec # 0, Alone
    PROVE  LET d == Delta(sampler.t, sampler.veth.index, sampler.veth.count)
           IN /\ file' = [total |-> sampler.t.total + d,
                          month |-> Month(sampler.t, sampler.period) + d,
                          period |-> sampler.period,
                          index |-> sampler.veth.index, last |-> sampler.veth.count]
              /\ file' # NoFile /\ Loaded' = file'
              /\ Carry = Loaded /\ Carry' = file'
<1> DEFINE u == Update(sampler.t, sampler.veth.index, sampler.veth.count, sampler.period)
<1>1. sampler # NoSample
  BY DEF SampleSave, NoSample
<1>2. file' = u /\ op' = op
  BY Zenon DEF SampleSave
<1>3. u \in Counts
  BY Zenon, <1>1, SamplerFacts, UpdateTypes
<1>4. file' # NoFile
  BY <1>2, <1>3, NoFileIsNone
<1>5. op = NoOp /\ NoOp.pc = "no"
  BY <1>1, OpFacts DEF Alone
<1>6. Loaded' = file' /\ Carry = Loaded /\ Carry' = file'
  BY <1>2, <1>4, <1>5 DEF Loaded, Carry
<1> QED
  BY ZenonT(30), <1>1, <1>2, <1>4, <1>6, SamplerFacts, UpdateTypes

LEMMA BalanceStep ==
    ASSUME TrafficTypes, Shape, Read, Accounts, ~excused', TrafficNext, ~Delete
    PROVE  Balance'
<1> USE VethFacts, CarryTypes DEF Balance
<1> Balance
  BY DEF Accounts
<1>1. CASE UNCHANGED <<moved, tail, sampled, veth, sameIndex>> /\ Carry'.total = Carry.total
  BY <1>1
<1>2. CASE Move
  <2>1. /\ veth'.count = veth.count + 1 /\ moved' = moved + 1 /\ Carry' = Carry
        /\ UNCHANGED <<tail, sampled, sameIndex>>
    BY <1>2 DEF Move, Carry, Loaded, TrafficTypes, VethTypes, Veths
  <2> QED
    BY <2>1
<1>3. CASE Stop \/ Reboot \/ ReinstallRemove
  <2>1. /\ veth' = NoVeth /\ tail' = tail + veth.count - sampled /\ sampled' = 0
        /\ UNCHANGED <<moved, sameIndex>>
    BY <1>3 DEF Stop, Reboot, ReinstallRemove, Down
  <2>2. Carry' = Carry
    <3>1. CASE Stop
      BY Zenon, <3>1 DEF Stop, Carry, Loaded
    <3>2. CASE Reboot
      BY Zenon, <3>2, OpFacts DEF Reboot, Carry, Loaded
    <3>3. CASE ReinstallRemove
      BY <3>3 DEF ReinstallRemove, Carry, Accounts, Alone, TrafficTypes, OpTypes, NoOp
    <3> QED
      BY <1>3, <3>1, <3>2, <3>3
  <2> QED
    BY <2>1, <2>2
<1>4. CASE Start \/ Create \/ ReinstallLaunch
  <2>1. /\ veth = NoVeth /\ veth'.count = 0 /\ UNCHANGED <<moved, tail, sampled>>
    BY <1>4, OpFacts DEF Start, Create, ReinstallLaunch, Up, Shape
  <2>2. Carry' = Carry
    BY Zenon, <1>4, OpFacts DEF Start, Create, ReinstallLaunch, Carry, Loaded
  <2>3. ~sameIndex' => ~sameIndex
    BY <1>4, Zenon DEF Start, Create, ReinstallLaunch, Up
  <2> QED
    BY <2>1, <2>2, <2>3 DEF Shape
<1>5. CASE SampleSave /\ rec # 0
  <2> DEFINE d == Delta(sampler.t, sampler.veth.index, sampler.veth.count)
  <2>1. sampler # NoSample
    BY <1>5 DEF SampleSave, NoSample
  <2>2. /\ sampler.t = Loaded /\ d \in Nat
        /\ d <= sampler.gain /\ (~sameIndex => d = sampler.gain)
    BY Zenon, <1>5, <2>1, SamplerFacts, UpdateTypes DEF Accounts, Pending
  <2>3. Carry = Loaded /\ Carry' = file'
    BY Zenon, <1>5, Saved DEF Accounts, Alone
  <2>4. file'.total = Loaded.total + d
    BY <1>5, <2>2, Saved DEF Accounts
  <2>5. CASE veth.boot = sampler.veth.boot
    <3>1. sampler.gain = sampler.veth.count - sampled
      BY Zenon, <1>5, <2>1, <2>5 DEF Accounts, Pending
    <3>2. sampled' = sampler.veth.count /\ UNCHANGED <<moved, tail, veth, sameIndex>>
      BY Zenon, <1>5, <2>5 DEF SampleSave
    <3> HIDE DEF d
    <3> QED
      BY <2>1, <2>2, <2>3, <2>4, <3>1, <3>2, SamplerFacts
  <2>6. CASE veth.boot # sampler.veth.boot
    <3>1. tail' = tail - sampler.gain /\ UNCHANGED <<moved, sampled, veth, sameIndex>>
      BY Zenon, <1>5, <2>6 DEF SampleSave
    <3> HIDE DEF d
    <3> QED
      BY <2>1, <2>2, <2>3, <2>4, <3>1, SamplerFacts
  <2> QED
    BY Zenon, <2>5, <2>6
<1>6. CASE Tick \/ SampleRead \/ (SampleSave /\ rec = 0) \/ \E s \in Schedules : SetSchedule(s)
  <2>1. UNCHANGED <<moved, tail, sampled, veth, sameIndex, op, file>>
    BY Zenon, <1>6 DEF Tick, SampleRead, SampleSave, SetSchedule, ghosts
  <2> QED
    BY Zenon, <1>1, <2>1 DEF Carry, Loaded
<1>7. CASE SeeSchedule
  <2>1. UNCHANGED <<moved, tail, sampled, veth, sameIndex, op>> /\ op.pc \notin {"removed", "made"}
    BY Zenon, <1>7 DEF SeeSchedule, InReinstall
  <2>2. Loaded'.total = Loaded.total
    BY <1>7, NoFileIsNone
       DEF SeeSchedule, Relabelled, Loaded, TrafficTypes, FileTypes, Counts, NoFile, Default
  <2> QED
    BY Zenon, <1>1, <2>1, <2>2 DEF Carry
<1>8. CASE ReinstallLoad
  BY Zenon, <1>1, <1>8, OpFacts DEF ReinstallLoad, Carry, Loaded
<1>9. CASE ReinstallRecord
  <2>1. Carry' = Carry
    BY <1>9 DEF ReinstallRecord, Carry, TrafficTypes, OpTypes, NoOp
  <2> QED
    BY <1>1, <1>9, <2>1 DEF ReinstallRecord, ghosts
<1>10. CASE ReinstallSave
  <2>1. op.t \in Counts /\ op.pc = "made" /\ op'.pc = "provision" /\ file' = op.t
    BY <1>10, OpFacts DEF ReinstallSave, TrafficTypes, OpTypes, NoOp
  <2>2. Carry' = Carry
    BY Zenon, <2>1, NoFileIsNone DEF Carry, Loaded
  <2> QED
    BY <1>1, <1>10, <2>2 DEF ReinstallSave, ghosts
<1>11. CASE ReinstallFails
  BY Zenon, <1>11 DEF ReinstallFails
<1>12. CASE Restart
  <2>1. Carry' = Carry
    BY Zenon, <1>12, OpFacts DEF Restart, Carry, Loaded
  <2> QED
    BY Zenon, <1>1, <1>12, <2>1 DEF Restart
<1> QED
  BY Zenon, <1>2, <1>3, <1>4, <1>5, <1>6, <1>7, <1>8, <1>9, <1>10, <1>11, <1>12 DEF TrafficNext

LEMMA LinkStep ==
    ASSUME TrafficTypes, Shape, Read, Accounts, ~excused', TrafficNext, ~Delete
    PROVE  Link'
<1> USE VethFacts DEF Link
<1> Link
  BY DEF Accounts
<1>1. CASE UNCHANGED <<file, veth, sampled, sameIndex>>
  BY <1>1 DEF Loaded
<1>2. CASE veth' = NoVeth
  BY <1>2
<1>3. CASE Move
  <2>1. /\ UNCHANGED <<file, sampled, sameIndex>> /\ veth # NoVeth /\ veth'.index = veth.index
    BY <1>3 DEF Move, TrafficTypes, VethTypes, Veths
  <2> QED
    BY <2>1 DEF Loaded
<1>4. CASE Start \/ Create \/ ReinstallLaunch
  <2>1. /\ veth = NoVeth /\ veth'.index = nextIndex /\ UNCHANGED <<file, sampled>>
    BY <1>4 DEF Start, Create, ReinstallLaunch, Up, Shape
  <2>2. sampled = 0
    BY <2>1 DEF Shape
  <2>3. Loaded.index = nextIndex => sameIndex'
    BY <1>4, Zenon DEF Start, Create, ReinstallLaunch, Up
  <2> QED
    BY <2>1, <2>2, <2>3 DEF Loaded
<1>5. CASE SeeSchedule
  <2>1. Loaded'.index = Loaded.index /\ Loaded'.last = Loaded.last
    BY <1>5, NoFileIsNone
       DEF SeeSchedule, Relabelled, Loaded, TrafficTypes, FileTypes, Counts, NoFile, Default
  <2>2. UNCHANGED <<veth, sampled, sameIndex>>
    BY Zenon, <1>5 DEF SeeSchedule
  <2> QED
    BY <2>1, <2>2
<1>6. CASE SampleSave
  <2>1. CASE rec = 0
    BY Zenon, <1>2, <1>6, <2>1 DEF SampleSave, Shape
  <2>2. CASE rec # 0
    <3>1. sampler # NoSample /\ veth' = veth
      BY <1>6 DEF SampleSave, NoSample
    <3>2. Loaded'.index = sampler.veth.index /\ Loaded'.last = sampler.veth.count
      BY <1>6, <2>2, Saved DEF Accounts
    <3>3. CASE veth.boot = sampler.veth.boot
      BY Zenon, <1>6, <2>2, <3>1, <3>2, <3>3 DEF SampleSave, Read
    <3>4. CASE veth.boot # sampler.veth.boot
      <4>1. sampled = 0 /\ (veth # NoVeth => veth.index # sampler.veth.index)
        BY Zenon, <2>2, <3>1, <3>4 DEF Accounts, Pending, Read
      <4> QED
        BY Zenon, <1>6, <2>2, <3>1, <3>2, <3>4, <4>1 DEF SampleSave
    <3> QED
      BY Zenon, <3>3, <3>4
  <2> QED
    BY Zenon, <2>1, <2>2
<1>7. CASE ReinstallSave
  BY <1>2, <1>7 DEF ReinstallSave, Shape
<1>8. CASE ReinstallFails
  BY <1>8 DEF ReinstallFails
<1> QED
  <2>1. \/ UNCHANGED <<file, veth, sampled, sameIndex>> \/ veth' = NoVeth
        \/ Move \/ Start \/ Create \/ ReinstallLaunch \/ SeeSchedule \/ SampleSave
        \/ ReinstallSave \/ ReinstallFails
    BY Zenon DEF TrafficNext, Tick, Stop, SetSchedule, SampleRead, ReinstallLoad, ReinstallRemove,
           ReinstallRecord, Restart, Reboot, Down, ghosts
  <2> QED
    BY Zenon, <1>1, <1>2, <1>3, <1>4, <1>5, <1>6, <1>7, <1>8, <2>1

LEMMA PendingStep ==
    ASSUME TrafficTypes, Shape, Read, Accounts, ~excused', TrafficNext, ~Delete
    PROVE  Pending'
<1> USE VethFacts DEF Pending
<1> Pending /\ Alone
  BY Zenon DEF Accounts
<1>1. CASE UNCHANGED <<sampler, rec, file, sameIndex, veth, sampled>>
  BY Zenon, <1>1 DEF Loaded
<1>2. CASE sampler' = NoSample
  BY Zenon, <1>2
<1>3. CASE Move
  <2>1. UNCHANGED <<sampler, rec, file, sampled, sameIndex>> /\ veth'.boot = veth.boot
    BY <1>3 DEF Move, TrafficTypes, VethTypes, Veths
  <2> QED
    BY Zenon, <2>1 DEF Loaded
<1>4. CASE Stop \/ Start
  <2>1. /\ UNCHANGED <<sampler, rec, file>> /\ sampled' = 0 /\ veth'.boot \in {0, boots + 1}
    BY <1>4 DEF Stop, Start, Up, Down, Shape
  <2>2. ~sameIndex' => ~sameIndex
    BY <1>4, Zenon DEF Stop, Start, Up
  <2>3. sampler # NoSample => veth'.boot # sampler.veth.boot
    BY <2>1, SamplerFacts DEF Read
  <2> QED
    BY Zenon, <2>1, <2>2, <2>3 DEF Loaded
<1>5. CASE SampleRead
  <2> DEFINE d == Delta(Loaded, veth.index, veth.count)
             n == veth.count - sampled
  <2>1. /\ UNCHANGED <<file, veth, sampled, sameIndex>> /\ veth # NoVeth
        /\ sampler'.veth = veth /\ sampler'.gain = n /\ sampler'.t = Loaded
    BY Zenon, <1>5 DEF SampleRead
  <2>2. d <= n /\ (~sameIndex => d = n)
    BY <2>1, CarryTypes DEF Accounts, Link, Delta, Shape
  <2> HIDE DEF d
  <2>3. Loaded' = Loaded
    BY Zenon, <2>1 DEF Loaded
  <2> QED
    BY Zenon, <2>1, <2>2, <2>3 DEF d
<1>6. CASE op # NoOp /\ UNCHANGED sampler
  BY Zenon, <1>6 DEF Alone
<1>7. CASE SeeSchedule \/ Create \/ ReinstallLoad
  <2>1. sampler' = NoSample
    BY Zenon, <1>7 DEF SeeSchedule, Create, ReinstallLoad, TrafficTypes, SamplerTypes
  <2> QED
    BY Zenon, <1>2, <2>1
<1> QED
  <2>1. \/ UNCHANGED <<sampler, rec, file, sameIndex, veth, sampled>> \/ sampler' = NoSample
        \/ Move \/ Stop \/ Start \/ SampleRead \/ SeeSchedule \/ Create \/ ReinstallLoad
        \/ (op # NoOp /\ UNCHANGED sampler)
    BY DEF TrafficNext, Tick, SetSchedule, SampleSave, ReinstallRemove, ReinstallRecord,
           ReinstallSave, ReinstallLaunch, ReinstallFails, Restart, Reboot, ghosts, NoOp
  <2> QED
    BY Zenon, <1>1, <1>2, <1>3, <1>4, <1>5, <1>6, <1>7, <2>1

LEMMA LoadedNext ==
    ASSUME TrafficTypes, TrafficNext
    PROVE  Loaded' \in Counts
<1>1. Default \in Counts
  BY DEF Default, Counts, Periods
<1> QED
  BY <1>1, FileNext DEF FileTypes, Loaded

LEMMA UsageStep ==
    ASSUME TrafficTypes, Shape, Read, Accounts, ~excused', TrafficNext, ~Delete
    PROVE  Usage'
<1> USE CarryTypes, OpFacts
<1> DEFINE P == Period(seen, Born, now)
<1>0. /\ charged <= Month(Carry, P)
      /\ sampler # NoSample /\ rec # 0 => charged = 0 \/ sampler.period = Period(seen, rec, now)
  BY Zenon DEF Accounts, Usage
<1>a. ASSUME Carry' = Carry, UNCHANGED <<seen, Born, now, charged, rec>>,
             sampler' = sampler \/ sampler' = NoSample
      PROVE  Usage'
  BY Zenon, <1>0, <1>a DEF Usage
<1>1. CASE Move \/ Stop \/ Start \/ \E s \in Schedules : SetSchedule(s)
  <2>1. UNCHANGED <<seen, now, charged, rec, sampler, op, file>>
    BY <1>1 DEF Move, Stop, Start, SetSchedule, ghosts
  <2> QED
    BY Zenon, <2>1, <1>a DEF Carry, Loaded, Born
<1>2. CASE Tick
  <2>1. /\ UNCHANGED <<seen, rec, op, file, sampler>> /\ now' \in Times
        /\ charged' = IF Period(seen, Born, now') # P THEN 0 ELSE charged
    BY Zenon, <1>2 DEF Tick
  <2>2. Carry' = Carry /\ Born' = Born
    BY Zenon, <2>1 DEF Carry, Loaded, Born
  <2>3. rec # 0 => Born = rec
    BY DEF Born
  <2>4. Month(Carry, Period(seen, Born, now')) \in Nat
    BY Zenon, MonthTypes
  <2> QED
    BY <1>0, <2>1, <2>2, <2>3, <2>4 DEF Usage
<1>3. CASE SeeSchedule
  <2>1. /\ UNCHANGED <<rec, now, op, charged>> /\ sampler' = NoSample /\ seen' = config
        /\ op.pc \notin {"carried", "removed", "made"} /\ file' = Relabelled
    BY Zenon, <1>3 DEF SeeSchedule, InReinstall
  <2>2. Carry = Loaded /\ Carry' = Loaded' /\ Born' = Born
    BY Zenon, <2>1 DEF Carry, Born
  <2>3. CASE charged = 0
    <3>1. Month(Loaded', Period(seen, Born, now)') \in Nat
      BY Zenon, LoadedNext, MonthTypes
    <3> QED
      BY <2>1, <2>2, <2>3, <3>1 DEF Usage
  <2>4. CASE charged # 0
    <3>1. rec # 0 /\ Born = rec
      BY Zenon, <2>1, <2>4 DEF Accounts, Alone, Shape, Born
    <3>2. Loaded.period = P /\ charged <= Loaded.month /\ Loaded.month # 0
      BY <1>0, <2>2, <2>4 DEF Month
    <3>3. file # NoFile /\ Loaded = file /\ file \in Counts
      BY Zenon, <3>2 DEF Loaded, Default, TrafficTypes, FileTypes
    <3>4. file' = [file EXCEPT !.period = Period(config, rec, now)]
      BY <1>3, <2>1, <3>1, <3>2, <3>3 DEF SeeSchedule, Relabelled
    <3>5. file'.month = file.month /\ file'.period = Period(config, rec, now) /\ file' \in Counts
      BY <3>3, <3>4, PeriodTypes DEF Counts, TrafficTypes, ClockTypes
    <3>6. Loaded' = file'
      BY Zenon, <3>5, NoFileIsNone DEF Loaded
    <3> QED
      BY Zenon, <2>1, <2>2, <3>1, <3>2, <3>3, <3>5, <3>6 DEF Usage, Month
  <2> QED
    BY <2>3, <2>4
<1>4. CASE SampleRead
  <2>1. /\ UNCHANGED <<rec, now, op, charged, seen, file>>
        /\ sampler'.period = Period(seen, rec, now)
    BY Zenon, <1>4 DEF SampleRead
  <2> QED
    BY Zenon, <1>0, <2>1 DEF Usage, Carry, Loaded, Born
<1>5. CASE SampleSave
  <2>1. CASE rec = 0
    BY Zenon, <1>5, <1>a, <2>1 DEF SampleSave, Carry, Loaded, Born
  <2>2. CASE rec # 0
    <3> DEFINE d == Delta(sampler.t, sampler.veth.index, sampler.veth.count)
               Q == Period(seen, rec, now)
               u == Update(sampler.t, sampler.veth.index, sampler.veth.count, sampler.period)
    <3>1. sampler # NoSample /\ sampler' = NoSample /\ UNCHANGED <<rec, now, op, seen>>
      BY <1>5 DEF SampleSave, NoSample
    <3>2. sampler.t = Loaded /\ Carry = Loaded /\ P = Q /\ Born' = rec
      BY Zenon, <1>5, <2>2, <3>1, Saved DEF Accounts, Pending, Born
    <3>3. file' = u /\ Carry' = u
      <4>1. file' = u
        BY Zenon, <1>5, <2>2 DEF SampleSave
      <4> QED
        BY Zenon, <1>5, <2>2, <4>1, Saved DEF Accounts
    <3>4. d \in Nat /\ u.month = Month(Loaded, sampler.period) + d /\ u.period = sampler.period
      <4>1. d \in Nat
        BY Zenon, <3>1, SamplerFacts, UpdateTypes
      <4>2. /\ file'.month = Month(sampler.t, sampler.period) + d
            /\ file'.period = sampler.period
        BY <1>5, <2>2, Saved DEF Accounts
      <4> HIDE DEF u, d
      <4> QED
        BY Zenon, <3>2, <3>3, <4>1, <4>2
    <3>5. Month(Loaded, sampler.period) \in Nat /\ Month(u, Q) \in Nat
      BY Zenon, <3>1, SamplerFacts, UpdateTypes, MonthTypes
    <3>6. charged <= Month(u, Q)
      <4>1. CASE charged = 0
        BY <3>5, <4>1
      <4>2. CASE charged # 0
        <5>1. sampler.period = Q /\ charged <= Month(Loaded, Q)
          BY Zenon, <1>0, <2>2, <3>1, <3>2, <4>2
        <5>2. Month(u, Q) = u.month
          BY Zenon, <3>4, <5>1 DEF Month
        <5> HIDE DEF d, u, Q
        <5> QED
          BY <3>4, <3>5, <5>1, <5>2
      <4> QED
        BY Zenon, <4>1, <4>2
    <3>7. charged' = Month(u, Q)
      <4>1. charged' = IF Month(u, Q) > charged THEN Month(u, Q) ELSE charged
        BY Zenon, <1>5, <2>2 DEF SampleSave
      <4> HIDE DEF d, u, Q
      <4> QED
        BY <3>5, <3>6, <4>1
    <3> HIDE DEF u
    <3> QED
      BY <3>1, <3>2, <3>3, <3>5, <3>7 DEF Usage
  <2> QED
    BY Zenon, <2>1, <2>2
<1>6. CASE ReinstallLoad \/ ReinstallLaunch
  <2>1. UNCHANGED <<seen, now, charged, rec, sampler, file>> /\ rec # 0
        /\ op.pc \notin {"removed", "made"} /\ op'.pc \notin {"removed", "made"}
    BY <1>6 DEF ReinstallLoad, ReinstallLaunch, Shape
  <2> QED
    BY Zenon, <2>1, <1>a DEF Carry, Loaded, Born
<1>7. CASE ReinstallRemove \/ ReinstallRecord
  <2>1. /\ op'.pc \in {"removed", "made"} /\ op'.t = op.t /\ op'.created = op.created
        /\ op' # NoOp /\ op.pc \in {"carried", "removed"}
        /\ UNCHANGED <<seen, now, charged, sampler>> /\ rec' \in {0, op.created}
    BY <1>7 DEF ReinstallRemove, ReinstallRecord, TrafficTypes, OpTypes, NoOp, ghosts
  <2>2. sampler' = NoSample
    BY Zenon, <2>1 DEF Accounts, Alone
  <2>3. Carry' = Carry
    BY Zenon, <2>1 DEF Accounts, Alone, Carry
  <2>4. Born = op.created /\ Born' = op.created
    BY Zenon, <2>1 DEF Born, Shape
  <2> QED
    BY Zenon, <1>0, <2>1, <2>2, <2>3, <2>4 DEF Usage
<1>8. CASE ReinstallSave
  <2>1. /\ op'.pc = "provision" /\ op.pc = "made" /\ file' = op.t
        /\ UNCHANGED <<seen, now, charged, sampler, rec>>
    BY <1>8 DEF ReinstallSave, TrafficTypes, OpTypes, NoOp, ghosts
  <2>2. Carry' = Carry
    BY Zenon, <2>1, NoFileIsNone DEF Carry, Loaded
  <2>3. Born' = Born
    BY Zenon, <2>1 DEF Born, Shape
  <2> QED
    BY Zenon, <1>a, <2>1, <2>2, <2>3
<1>9. CASE ReinstallFails
  BY Zenon, <1>9 DEF ReinstallFails
<1>10. CASE Create
  <2>1. charged' = 0 /\ sampler' = NoSample
    BY Zenon, <1>10 DEF Create, Accounts, Alone
  <2>2. Carry' = Loaded' /\ Loaded' \in Counts
    BY Zenon, <1>10, LoadedNext DEF Create, Carry
  <2>3. Month(Carry', Period(seen, Born, now)') \in Nat
    BY Zenon, <2>2, MonthTypes
  <2> QED
    BY <2>1, <2>3 DEF Usage
<1>11. CASE Restart \/ Reboot
  <2>1. /\ UNCHANGED <<now, charged, rec, file, seen>> /\ sampler' = NoSample /\ op' = NoOp
        /\ op.pc \notin {"removed", "made"}
    BY Zenon, <1>11 DEF Restart, Reboot
  <2>2. Carry' = Carry /\ Born' = Born
    BY Zenon, <2>1 DEF Carry, Loaded, Born, Shape
  <2> QED
    BY Zenon, <1>a, <2>1, <2>2
<1> QED
  BY Zenon, <1>1, <1>2, <1>3, <1>4, <1>5, <1>6, <1>7, <1>8, <1>9, <1>10, <1>11 DEF TrafficNext

-----------------------------------------------------------------------------
(* Traffic: theorems *)

LEMMA TrafficInvInit == TrafficInit => TrafficInv
<1> SUFFICES ASSUME TrafficInit
             PROVE  TrafficInv
  OBVIOUS
<1>1. /\ now \in Times /\ config \in Schedules /\ seen = config /\ rec = now /\ rec # 0
      /\ file = NoFile /\ veth = [index |-> 1, count |-> 0, boot |-> 1] /\ nextIndex = 2
      /\ sampler = NoSample /\ op = NoOp /\ moved = 0 /\ sampled = 0 /\ tail = 0 /\ charged = 0
      /\ boots = 1 /\ ops = 0 /\ faults = 0
  BY Zenon, TrafficAssumption DEF TrafficInit
<1>2. TrafficTypes
  <2>1. ClockTypes /\ GhostTypes
    BY <1>1, TrafficAssumption DEF ClockTypes, GhostTypes, Births
  <2>2. FileTypes /\ VethTypes /\ SamplerTypes /\ OpTypes
    BY <1>1 DEF FileTypes, VethTypes, Veths, SamplerTypes, OpTypes
  <2>3. FlagTypes
    BY Zenon DEF TrafficInit, FlagTypes
  <2> QED
    BY <2>1, <2>2, <2>3 DEF TrafficTypes
<1>3. Shape /\ Read
  BY <1>1 DEF Shape, Read, NoOp, NoVeth
<1>4. Loaded = Default /\ Carry = Default /\ Default.total = 0 /\ Default.index = 0
  BY Zenon, <1>1 DEF Loaded, Carry, NoOp, Default
<1>5. Alone /\ Balance /\ Link /\ Pending
  BY <1>1, <1>4 DEF Alone, Balance, Link, Pending, NoOp
<1>6. Usage
  <2>1. Month(Carry, Period(seen, Born, now)) \in Nat
    BY <1>2, CarryTypes, MonthTypes
  <2> QED
    BY <1>1, <2>1 DEF Usage
<1> QED
  BY <1>2, <1>3, <1>5, <1>6 DEF TrafficInv, Accounts

LEMMA TrafficInvNext == TrafficInv /\ [TrafficNext]_trafficVars => TrafficInv'
<1>1. ASSUME TrafficInv, TrafficNext
      PROVE  TrafficInv'
  <2>1. TrafficTypes' /\ Shape' /\ Read'
    BY <1>1, TrafficTypesNext, ShapeStep, ReadStep DEF TrafficInv
  <2>2. ASSUME ~excused'
        PROVE  Accounts'
    <3>1. CASE Delete
      BY <1>1, <3>1, DeleteStep DEF TrafficInv
    <3>2. CASE ~Delete
      <4>1. Accounts /\ Alone
        BY <1>1, <2>2, <3>2, StillProtected DEF TrafficInv, Accounts
      <4>2. Alone' /\ Balance'
        BY <1>1, <2>2, <3>2, <4>1, AloneStep, BalanceStep DEF TrafficInv
      <4>3. Link' /\ Pending' /\ Usage'
        BY <1>1, <2>2, <3>2, <4>1, LinkStep, PendingStep, UsageStep DEF TrafficInv
      <4> QED
        BY <4>2, <4>3 DEF Accounts
    <3> QED
      BY <3>1, <3>2
  <2> QED
    BY <2>1, <2>2 DEF TrafficInv
<1>2. ASSUME TrafficInv, UNCHANGED trafficVars
      PROVE  TrafficInv'
  <2>1. TrafficTypes'
    BY Zenon, <1>2 DEF TrafficInv, TrafficTypes, ClockTypes, FileTypes, VethTypes, SamplerTypes,
                OpTypes, GhostTypes, FlagTypes, trafficVars, ghosts, counters
  <2>2. Shape' /\ Read'
    BY Zenon, <1>2 DEF TrafficInv, Shape, Read, trafficVars, ghosts, counters
  <2>3. UNCHANGED <<Carry, Loaded, Born>>
    BY <1>2 DEF Carry, Loaded, Born, trafficVars
  <2>4. ASSUME Accounts
        PROVE  Accounts'
    BY Zenon, <1>2, <2>3, <2>4 DEF Accounts, Alone, Balance, Link, Pending, Usage, trafficVars, ghosts
  <2> QED
    BY Zenon, <1>2, <2>1, <2>2, <2>4 DEF TrafficInv, trafficVars, ghosts
<1> QED
  BY <1>1, <1>2

LEMMA TrafficInvariant == TrafficSpec => []TrafficInv
BY TrafficInvInit, TrafficInvNext, PTL DEF TrafficSpec

\* The counters, the interface and whatever is between two steps on them stay well formed.
THEOREM TrafficTypeCorrect == TrafficSpec => []TrafficTypeOK
<1>1. TrafficInv => TrafficTypeOK
  BY TrafficTypesAreTypeOK DEF TrafficInv
<1> QED
  BY <1>1, TrafficInvariant, PTL

\* Traffic::update with the interface's index and counter, whatever boots, samples,
\* reinstalls and restarts come between: no byte is counted twice, and none is missing but
\* those of an interface that went before its next sample, or that got the saved index
\* again after a reboot of the host.
THEOREM EveryByteOnce == TrafficSpec => []BytesConserved
<1>1. TrafficInv => BytesConserved
  BY Zenon, OpFacts DEF TrafficInv, Accounts, Balance, BytesConserved, Carry, InReinstall
<1> QED
  BY <1>1, TrafficInvariant, PTL

\* traffic_schedule and create_locked: within a billing period the reported usage never
\* falls, whatever the calendar says a period is.
THEOREM UsageIsKept == TrafficSpec => []UsageKept
<1>1. TrafficInv => UsageKept
  <2> SUFFICES ASSUME TrafficInv, ~excused, rec # 0, ~InReinstall
               PROVE  Reported >= charged
    BY DEF UsageKept
  <2>1. Carry = Loaded /\ Born = rec /\ charged <= Month(Carry, Period(seen, Born, now))
    BY Zenon DEF TrafficInv, Accounts, Usage, Carry, Born, InReinstall
  <2>2. Month(Loaded, Period(seen, rec, now)) \in Nat /\ charged \in Nat
    BY CarryTypes, MonthTypes DEF TrafficInv
  <2> QED
    BY <2>1, <2>2 DEF Reported
<1> QED
  BY <1>1, TrafficInvariant, PTL
=============================================================================
