----------------------------- MODULE Instances ------------------------------
(***************************************************************************)
(* Lifecycle of instances in the container runtime (runtime/mod.rs): the    *)
(* records on disk, the systemd units, slot allocation, network quarantine, *)
(* port forwards and the nftables ruleset derived from both, the autostart  *)
(* and the periodic repair, across failures of single steps, agent          *)
(* restarts and host reboots.                                               *)
(*                                                                         *)
(* An operation holds the instance's lock (lock_vm) from its first step to  *)
(* its last, so at most one is in progress per instance; task[v] says which *)
(* step it has reached. Steps of different instances, of the port-forward   *)
(* operations, of autostart and of the repair loop interleave freely.       *)
(***************************************************************************)
EXTENDS Naturals, FiniteSets

CONSTANTS
    Vms,         \* instance ids
    Ports,       \* host ports
    NoRec,       \* stands for an absent record
    Idle,        \* stands for a free lock_vm
    NoTx,        \* stands for a free forwards lock
    MaxIdx,      \* highest slot: min(MAX_IDX, max_idx())
    MaxForwards, \* max_forwards of the configuration, 0 for no limit
    MaxOps,      \* bound: operations started
    MaxFaults,   \* bound: steps that fail, guests that stop or reboot
    MaxCrashes   \* bound: agent restarts and host reboots

ASSUME InstancesAssumption ==
    /\ MaxIdx \in Nat
    /\ MaxForwards \in Nat
    /\ MaxOps \in Nat
    /\ MaxFaults \in Nat
    /\ MaxCrashes \in Nat

Idxs == 0..MaxIdx
Gens == 1..MaxOps
Rules == [port : Ports, vm : Vms]

ASSUME DistinctNames == {"heal", "init", "add", "del"} \cap Vms = {}

Steps == {"halt", "remove", "renet", "alloc", "provision", "net", "launch",
          "check", "spec", "link"}
Records == [gen : Nat, idx : Idxs, want : {"run", "stop"}, quar : BOOLEAN]
Tasks == [op : {"create", "delete", "start", "stop", "restart", "quarantine"},
          at : Steps, run : BOOLEAN]
Holders == [by : Vms \cup {"heal", "init", "add", "del"}, fwds : SUBSET Rules,
            view : [Vms -> Idxs \cup {NoRec}]]

\* What stands for nothing is nothing else.
ASSUME AbsentAssumption ==
    NoRec \notin Records \cup Idxs /\ Idle \notin Tasks /\ NoTx \notin Holders

VARIABLES
    \* on disk
    rec,      \* rec[v]: instance.json
    spec,     \* spec[v]: runtime.json says the link starts isolated
    made,     \* made[v]: the disk image is complete
    saved,    \* portforwards.json
    \* on the host, surviving a restart of the agent
    unit,     \* unit[v]: the systemd unit is active
    sup,      \* sup[v]: the running supervisor's copy of spec[v]
    up,       \* up[v]: the host link of the running instance is up
    nft,      \* forwards the installed ruleset carries, with their target slot
    \* in the agent's memory
    task,     \* task[v]: the operation holding lock_vm
    fwds,     \* the port forwards
    tx,       \* who holds the forwards lock, and the ruleset it is about to apply
    adding,   \* the rule LimitedForwards is adding
    purging,  \* deleted instances whose forwards are still to be removed
    boot,     \* autostart: "net", "scan", then "start"
    todo,     \* autostart: the instances left to start
    netOk,    \* the last ruleset this process tried to apply was installed
    \* history and bounds
    gens, ops, faults, crashes,
    isolated  \* generations some isolate request was accepted for

disk == <<rec, spec, made>>
host == <<unit, sup, up>>
net == <<saved, nft, fwds, tx, adding, netOk>>
hist == <<gens, ops, faults, crashes, isolated>>
vars == <<rec, spec, made, saved, unit, sup, up, nft, task, fwds, tx,
          adding, purging, boot, todo, netOk, gens, ops, faults, crashes,
          isolated>>

TypeOK ==
    /\ rec \in [Vms -> Records \cup {NoRec}]
    /\ \A v \in Vms : rec[v] # NoRec => rec[v].gen \in Gens
    /\ spec \in [Vms -> BOOLEAN] /\ made \in [Vms -> BOOLEAN]
    /\ unit \in [Vms -> BOOLEAN] /\ sup \in [Vms -> BOOLEAN]
    /\ up \in [Vms -> BOOLEAN]
    /\ saved \subseteq Rules /\ fwds \subseteq Rules
    /\ nft \subseteq [port : Ports, vm : Vms, idx : Idxs]
    /\ task \in [Vms -> Tasks \cup {Idle}]
    /\ tx = NoTx \/ tx \in Holders
    /\ adding \in SUBSET Rules /\ Cardinality(adding) <= 1
    /\ purging \subseteq Vms
    /\ boot \in {"net", "scan", "start"} /\ todo \subseteq Vms
    /\ netOk \in BOOLEAN
    /\ isolated \subseteq Gens
    /\ gens \in 0..MaxOps /\ ops \in 0..MaxOps
    /\ faults \in 0..MaxFaults /\ crashes \in 0..MaxCrashes

\* A fresh installation: no instances, no rules.
Init ==
    /\ rec = [v \in Vms |-> NoRec]
    /\ spec = [v \in Vms |-> FALSE] /\ made = [v \in Vms |-> FALSE]
    /\ unit = [v \in Vms |-> FALSE] /\ sup = [v \in Vms |-> FALSE]
    /\ up = [v \in Vms |-> FALSE]
    /\ saved = {} /\ fwds = {} /\ nft = {}
    /\ task = [v \in Vms |-> Idle]
    /\ tx = NoTx /\ adding = {} /\ purging = {} /\ boot = "net" /\ todo = {}
    /\ netOk = FALSE
    /\ gens = 0 /\ ops = 0 /\ faults = 0 /\ crashes = 0 /\ isolated = {}

-----------------------------------------------------------------------------
(* Helpers *)

Exists(v) == rec[v] # NoRec
Running(v) == Exists(v) /\ rec[v].want = "run" /\ unit[v]
At(v, s) == task[v] # Idle /\ task[v].at = s
Goto(v, s) == task' = [task EXCEPT ![v].at = s]
Release(v) == task' = [task EXCEPT ![v] = Idle]
Fault == faults < MaxFaults /\ faults' = faults + 1

\* An operation takes lock_vm.
Lock(v, op, at, run) ==
    /\ task[v] = Idle
    /\ ops < MaxOps
    /\ ops' = ops + 1
    /\ task' = [task EXCEPT ![v] = [op |-> op, at |-> at, run |-> run]]

\* set_desired: save writes runtime.json anew when the record changes.
SetDesired(v, want) ==
    /\ rec' = [rec EXCEPT ![v].want = want]
    /\ spec' = [spec EXCEPT ![v] = IF rec[v].want = want THEN @ ELSE rec[v].quar]

\* The slots of the records, as records() reads them.
View == [v \in Vms |-> IF Exists(v) THEN rec[v].idx ELSE NoRec]

\* apply_network: forwards of instances without a record are left out.
Resolve(rules, view) ==
    {[port |-> f.port, vm |-> f.vm, idx |-> view[f.vm]] :
        f \in {g \in rules : view[g.vm] # NoRec}}

-----------------------------------------------------------------------------
(* create, reinstall and delete *)

\* The image is enabled; what exists is replaced.
BeginCreate(v) ==
    /\ Lock(v, "create", IF Exists(v) THEN "halt" ELSE "alloc", FALSE)
    /\ UNCHANGED <<disk, host, net, purging, boot, todo, gens, faults, crashes,
                   isolated>>

BeginDelete(v) ==
    /\ Lock(v, "delete", "halt", FALSE)
    /\ UNCHANGED <<disk, host, net, purging, boot, todo, gens, faults, crashes,
                   isolated>>

\* Mutant of Halt: delete goes on although the unit is still active.
HaltIgnored(v) ==
    /\ At(v, "halt")
    /\ \/ unit' = [unit EXCEPT ![v] = FALSE] /\ UNCHANGED faults
       \/ unit[v] /\ Fault /\ UNCHANGED unit
    /\ CASE task[v].op \in {"create", "delete"} -> Goto(v, "remove")
         [] task[v].op = "restart" -> Goto(v, "launch")
         [] OTHER -> Release(v)
    /\ UNCHANGED <<disk, sup, up, net, purging, boot, todo, gens, ops, crashes,
                   isolated>>

\* halt: systemctl stop succeeds, or fails with the unit still active.
Halt(v) ==
    /\ At(v, "halt")
    /\ \/ /\ unit' = [unit EXCEPT ![v] = FALSE]
          /\ CASE task[v].op \in {"create", "delete"} -> Goto(v, "remove")
               [] task[v].op = "restart" -> Goto(v, "launch")
               [] OTHER -> Release(v)
          /\ UNCHANGED faults
       \/ unit[v] /\ Fault /\ Release(v) /\ UNCHANGED unit
    /\ UNCHANGED <<disk, sup, up, net, purging, boot, todo, gens, ops, crashes,
                   isolated>>

\* delete_locked removes the instance directory.
Remove(v) ==
    /\ At(v, "remove")
    /\ \/ /\ rec' = [rec EXCEPT ![v] = NoRec]
          /\ spec' = [spec EXCEPT ![v] = FALSE]
          /\ made' = [made EXCEPT ![v] = FALSE]
          /\ Goto(v, "renet")
          /\ UNCHANGED faults
       \/ Fault /\ Release(v) /\ UNCHANGED disk
    /\ UNCHANGED <<host, net, purging, boot, todo, gens, ops, crashes, isolated>>

\* Mutant of FreeIdxs: only running instances count.
FreeIdxsOfStopped ==
    {i \in Idxs : \A w \in Vms : Exists(w) /\ unit[w] => rec[w].idx # i}

FreeIdxs == {i \in Idxs : \A w \in Vms : Exists(w) => rec[w].idx # i}

\* Under the alloc lock: the image, the lowest free slot, the record that
\* claims it. A missing image or a full table ends the operation.
Alloc(v) ==
    /\ At(v, "alloc")
    /\ \/ /\ gens' = gens + 1
          /\ \E i \in FreeIdxs :
                /\ \A j \in FreeIdxs : i <= j
                /\ rec' = [rec EXCEPT ![v] = [gen |-> gens + 1, idx |-> i,
                                              want |-> "run", quar |-> FALSE]]
          /\ spec' = [spec EXCEPT ![v] = FALSE]
          /\ Goto(v, "provision")
          /\ UNCHANGED <<made, faults>>
       \/ FreeIdxs = {} /\ Release(v) /\ UNCHANGED <<disk, gens, faults>>
       \/ Fault /\ Release(v) /\ UNCHANGED <<disk, gens>>
    /\ UNCHANGED <<host, net, purging, boot, todo, ops, crashes, isolated>>

\* Mutant of Provision: the ruleset is not applied before the launch.
ProvisionAndLaunch(v) ==
    /\ At(v, "provision")
    /\ \/ /\ made' = [made EXCEPT ![v] = TRUE]
          /\ Goto(v, "launch")
          /\ UNCHANGED <<rec, spec, faults>>
       \/ /\ Fault
          /\ rec' = [rec EXCEPT ![v] = NoRec]
          /\ spec' = [spec EXCEPT ![v] = FALSE]
          /\ Release(v)
          /\ UNCHANGED made
    /\ UNCHANGED <<host, net, purging, boot, todo, gens, ops, crashes, isolated>>

\* provision: a failure removes the directory again.
Provision(v) ==
    /\ At(v, "provision")
    /\ \/ /\ made' = [made EXCEPT ![v] = TRUE]
          /\ Goto(v, "net")
          /\ UNCHANGED <<rec, spec, faults>>
       \/ /\ Fault
          /\ rec' = [rec EXCEPT ![v] = NoRec]
          /\ spec' = [spec EXCEPT ![v] = FALSE]
          /\ Release(v)
          /\ UNCHANGED made
    /\ UNCHANGED <<host, net, purging, boot, todo, gens, ops, crashes, isolated>>

\* launch: the supervisor reads runtime.json once, as it starts.
Launch(v) ==
    /\ At(v, "launch")
    /\ Release(v)
    /\ \/ /\ made[v]
          /\ unit' = [unit EXCEPT ![v] = TRUE]
          /\ sup' = [sup EXCEPT ![v] = spec[v]]
          /\ up' = [up EXCEPT ![v] = ~spec[v]]
          /\ UNCHANGED faults
       \/ ~made[v] /\ UNCHANGED <<host, faults>>
       \/ made[v] /\ Fault /\ UNCHANGED host
    /\ UNCHANGED <<disk, net, purging, boot, todo, gens, ops, crashes, isolated>>

-----------------------------------------------------------------------------
(* start, stop and restart *)

Start(v) ==
    /\ Exists(v)
    /\ SetDesired(v, "run")
    /\ UNCHANGED <<made, host, net, purging, gens, faults, crashes,
                   isolated>>

BeginStart(v) == Lock(v, "start", "check", FALSE) /\ Start(v) /\ UNCHANGED <<boot, todo>>

\* An active instance is left alone; otherwise runtime.json is refreshed.
Check(v) ==
    /\ At(v, "check")
    /\ \/ unit[v] /\ Release(v) /\ UNCHANGED spec
       \/ /\ ~unit[v]
          /\ spec' = [spec EXCEPT ![v] = rec[v].quar]
          /\ Goto(v, "launch")
    /\ UNCHANGED <<rec, made, host, net, purging, boot, todo, hist>>

BeginStop(v) ==
    /\ Exists(v)
    /\ Lock(v, "stop", "halt", FALSE)
    /\ SetDesired(v, "stop")
    /\ UNCHANGED <<made, host, net, purging, boot, todo, gens, faults, crashes,
                   isolated>>

\* watcher_stop_overload: only the generation it was decided for.
WatcherStop(v, g) ==
    /\ Running(v)
    /\ rec[v].gen = g
    /\ BeginStop(v)

BeginRestart(v) ==
    /\ Exists(v)
    /\ Lock(v, "restart", "halt", FALSE)
    /\ SetDesired(v, "run")
    /\ UNCHANGED <<made, host, net, purging, boot, todo, gens, faults, crashes,
                   isolated>>

-----------------------------------------------------------------------------
(* watcher_network_quarantine *)

\* Mutant of Isolate: the generation is not compared.
IsolateAny(v, g) ==
    /\ Running(v)
    /\ ~rec[v].quar /\ up[v]
    /\ rec' = [rec EXCEPT ![v].quar = TRUE]
    /\ Lock(v, "quarantine", "spec", TRUE)
    /\ isolated' = isolated \cup {g}
    /\ UNCHANGED <<spec, made, host, net, purging, boot, todo, gens, faults,
                   crashes>>

\* The record is written first. A running instance already quarantined only has
\* its link checked.
Isolate(v, g) ==
    /\ Running(v)
    /\ rec[v].gen = g
    /\ \/ /\ ~rec[v].quar /\ up[v]
          /\ rec' = [rec EXCEPT ![v].quar = TRUE]
          /\ Lock(v, "quarantine", "spec", TRUE)
       \/ /\ rec[v].quar /\ up[v]
          /\ Lock(v, "quarantine", "link", TRUE)
          /\ UNCHANGED rec
    /\ isolated' = isolated \cup {g}
    /\ UNCHANGED <<spec, made, host, net, purging, boot, todo, gens, faults,
                   crashes>>

Unisolate(v, g) ==
    /\ Exists(v)
    /\ rec[v].gen = g
    /\ rec[v].quar
    /\ Running(v) => ~up[v]
    /\ rec' = [rec EXCEPT ![v].quar = FALSE]
    /\ Lock(v, "quarantine", "spec", Running(v))
    /\ UNCHANGED <<spec, made, host, net, purging, boot, todo, gens, faults,
                   crashes, isolated>>

\* The second half of save: runtime.json.
WriteSpec(v) ==
    /\ At(v, "spec")
    /\ spec' = [spec EXCEPT ![v] = rec[v].quar]
    /\ IF task[v].run THEN Goto(v, "link") ELSE Release(v)
    /\ UNCHANGED <<rec, made, host, net, purging, boot, todo, hist>>

\* set_host_link_up; it fails when the interface is gone.
SetLink(v) ==
    /\ At(v, "link")
    /\ Release(v)
    /\ \/ unit[v] /\ up' = [up EXCEPT ![v] = ~rec[v].quar] /\ UNCHANGED faults
       \/ ~unit[v] /\ UNCHANGED <<up, faults>>
       \/ unit[v] /\ Fault /\ UNCHANGED up
    /\ UNCHANGED <<disk, unit, sup, net, purging, boot, todo, gens, ops, crashes,
                   isolated>>

\* Mutant of HealLink: links are only brought up.
HealLinkUp(v) ==
    /\ task[v] = Idle
    /\ Exists(v) /\ unit[v]
    /\ ~up[v] /\ ~rec[v].quar
    /\ up' = [up EXCEPT ![v] = TRUE]
    /\ UNCHANGED <<disk, unit, sup, task, net, purging, boot, todo, hist>>

\* heal brings the link of an attached, active instance in line with its record.
HealLink(v) ==
    /\ task[v] = Idle
    /\ Exists(v) /\ unit[v]
    /\ up[v] = rec[v].quar
    /\ up' = [up EXCEPT ![v] = ~rec[v].quar]
    /\ UNCHANGED <<disk, unit, sup, task, net, purging, boot, todo, hist>>

-----------------------------------------------------------------------------
(* The ruleset: every change is made under the forwards lock *)

\* The lock is taken and the records are read.
TakeForwards(by, rules) ==
    /\ tx = NoTx
    /\ tx' = [by |-> by, fwds |-> rules, view |-> View]

NetUnchanged ==
    UNCHANGED <<disk, host, gens, ops, crashes, isolated>>

\* reconcile_network of delete_locked and of create_locked.
BeginReconcile(v) ==
    /\ At(v, "renet") \/ At(v, "net")
    /\ TakeForwards(v, fwds)
    /\ UNCHANGED <<task, purging, boot, todo, saved, nft, fwds, adding, netOk, faults>>
    /\ NetUnchanged

\* Mutant of BeginHeal: only after a ruleset that could not be installed.
BeginHealAfterFailure ==
    /\ ~netOk
    /\ TakeForwards("heal", fwds)
    /\ UNCHANGED <<task, purging, boot, todo, saved, nft, fwds, adding, netOk, faults>>
    /\ NetUnchanged

\* reconcile_network of heal.
BeginHeal ==
    /\ TakeForwards("heal", fwds)
    /\ UNCHANGED <<task, purging, boot, todo, saved, nft, fwds, adding, netOk, faults>>
    /\ NetUnchanged

\* reconcile_network of init.
BeginInit ==
    /\ boot = "net"
    /\ TakeForwards("init", fwds)
    /\ UNCHANGED <<task, purging, boot, todo, saved, nft, fwds, adding, netOk, faults>>
    /\ NetUnchanged

\* LimitedForwards::add, which serializes adds, up to the end of the check that
\* the instance exists.
BeginAdd(p, v) ==
    /\ adding = {}
    /\ ops < MaxOps
    /\ MaxForwards = 0 \/ Cardinality({f \in fwds : f.vm = v}) < MaxForwards
    /\ Exists(v)
    /\ ops' = ops + 1
    /\ adding' = {[port |-> p, vm |-> v]}
    /\ UNCHANGED <<disk, host, task, purging, boot, todo, saved, nft, fwds, tx, netOk,
                   gens, faults, crashes, isolated>>

\* free_port: a port no rule has, of either protocol.
FreePort(p) == \A f \in fwds : f.port # p

\* ensure_ssh_forward: an instance that has a rule keeps it, otherwise a free
\* port is chosen, by the time of the add possibly taken.
BeginSshForward(v) ==
    /\ \A f \in fwds : f.vm # v
    /\ \E p \in Ports : FreePort(p) /\ BeginAdd(p, v)

\* A port already forwarded, or used by a host service, ends the add.
Add ==
    /\ adding # {}
    /\ tx = NoTx
    /\ \/ /\ \A f \in fwds, a \in adding : f.port # a.port
          /\ TakeForwards("add", fwds \cup adding)
          /\ UNCHANGED adding
       \/ adding' = {} /\ UNCHANGED tx
    /\ UNCHANGED <<task, purging, boot, todo, saved, nft, fwds, netOk, faults>>
    /\ NetUnchanged

DelForward(f) ==
    /\ ops < MaxOps
    /\ f \in fwds
    /\ ops' = ops + 1
    /\ TakeForwards("del", fwds \ {f})
    /\ UNCHANGED <<disk, host, task, purging, boot, todo, saved, nft, fwds, adding,
                   netOk, gens, faults, crashes, isolated>>

\* remove_all, which the delete command calls after the instance is gone.
RemoveAll(v) ==
    /\ v \in purging
    /\ tx = NoTx
    /\ purging' = purging \ {v}
    /\ \/ /\ \E f \in fwds : f.vm = v
          /\ TakeForwards("del", {f \in fwds : f.vm # v})
       \/ (\A f \in fwds : f.vm # v) /\ UNCHANGED tx
    /\ UNCHANGED <<task, boot, todo, saved, nft, fwds, adding, netOk, faults>>
    /\ NetUnchanged

\* What the holder of the forwards lock does once the ruleset is installed.
Installed ==
    CASE tx.by \in Vms ->
            /\ CASE At(tx.by, "net") -> Goto(tx.by, "launch")
                 [] At(tx.by, "renet") /\ task[tx.by].op = "create" -> Goto(tx.by, "alloc")
                 [] OTHER -> Release(tx.by)
            /\ purging' = IF At(tx.by, "renet") /\ task[tx.by].op = "delete"
                          THEN purging \cup {tx.by} ELSE purging
            /\ UNCHANGED <<boot, todo, saved, fwds, adding>>
      [] tx.by = "init" -> boot' = "scan"
                           /\ UNCHANGED <<task, purging, todo, saved, fwds, adding>>
      [] tx.by = "heal" -> UNCHANGED <<task, purging, boot, todo, saved, fwds, adding>>
      [] tx.by \in {"add", "del"} ->
            /\ saved' = tx.fwds
            /\ fwds' = tx.fwds
            /\ adding' = IF tx.by = "add" THEN {} ELSE adding
            /\ UNCHANGED <<task, purging, boot, todo>>

\* What it does when the ruleset cannot be installed, or not saved: the
\* operation fails and init gives up.
GiveUp ==
    CASE tx.by \in Vms -> Release(tx.by) /\ UNCHANGED <<boot, todo, adding>>
      [] tx.by = "init" -> boot' = "start" /\ UNCHANGED <<task, todo, adding>>
      [] tx.by = "heal" -> UNCHANGED <<task, boot, todo, adding>>
      [] tx.by \in {"add", "del"} ->
            /\ adding' = IF tx.by = "add" THEN {} ELSE adding
            /\ UNCHANGED <<task, boot, todo>>

\* The ruleset is written anew from the records and the forwards every time: the
\* forwards map sends a port to the address of the record's slot.
Ruleset == Resolve(tx.fwds, tx.view)

\* The ruleset is installed, but then an IPv6 route cannot be set, or
\* portforwards.json not be written.
InstalledInVain ==
    /\ Fault
    /\ nft' = Ruleset
    /\ netOk' = TRUE
    /\ GiveUp
    /\ UNCHANGED <<saved, fwds, purging>>

\* nft -f: all or nothing.
Apply ==
    /\ tx # NoTx
    /\ tx' = NoTx
    /\ \/ /\ nft' = Ruleset
          /\ netOk' = TRUE
          /\ Installed
          /\ UNCHANGED faults
       \/ /\ Fault
          /\ netOk' = FALSE
          /\ GiveUp
          /\ UNCHANGED <<nft, saved, fwds, purging>>
       \/ InstalledInVain
    /\ NetUnchanged

-----------------------------------------------------------------------------
(* init: autostart *)

\* The records that should run are listed ...
Scan ==
    /\ boot = "scan"
    /\ boot' = "start"
    /\ todo' = {v \in Vms : Exists(v) /\ rec[v].want = "run"}
    /\ UNCHANGED <<disk, host, task, net, purging, hist>>

\* ... and started one by one.
AutoStart(v) ==
    /\ v \in todo
    /\ task[v] = Idle
    /\ todo' = todo \ {v}
    /\ \/ /\ Start(v)
          /\ task' = [task EXCEPT ![v] = [op |-> "start", at |-> "check",
                                          run |-> FALSE]]
          /\ UNCHANGED <<boot, ops>>
       \/ ~Exists(v) /\ UNCHANGED <<disk, host, task, net, purging, boot, hist>>

-----------------------------------------------------------------------------
(* The guest, and failures of the whole agent *)

\* The supervisor boots the guest again with the spec it read at its start.
GuestReboot(v) ==
    /\ unit[v]
    /\ Fault
    /\ up' = [up EXCEPT ![v] = ~sup[v]]
    /\ UNCHANGED <<disk, unit, sup, task, net, purging, boot, todo, gens, ops, crashes,
                   isolated>>

GuestHalt(v) ==
    /\ unit[v]
    /\ Fault
    /\ unit' = [unit EXCEPT ![v] = FALSE]
    /\ UNCHANGED <<disk, sup, up, task, net, purging, boot, todo, gens, ops, crashes,
                   isolated>>

\* The agent dies and starts again, or the host does.
Crash ==
    /\ crashes < MaxCrashes
    /\ crashes' = crashes + 1
    /\ task' = [v \in Vms |-> Idle]
    /\ fwds' = saved
    /\ tx' = NoTx /\ adding' = {} /\ purging' = {} /\ boot' = "net" /\ todo' = {}
    /\ netOk' = FALSE
    /\ \/ UNCHANGED <<unit, nft>>
       \/ unit' = [v \in Vms |-> FALSE] /\ nft' = {}
    /\ UNCHANGED <<disk, sup, up, saved, gens, ops, faults, isolated>>

-----------------------------------------------------------------------------
\* What handle_connlimit of the control socket passes on for a generation of the
\* instance.
ControlRequest(v, g) == WatcherStop(v, g) \/ Isolate(v, g) \/ Unisolate(v, g)

Requests(v) ==
    \/ BeginCreate(v) \/ BeginDelete(v) \/ BeginStart(v) \/ BeginStop(v)
    \/ BeginRestart(v)
    \/ \E g \in Gens : ControlRequest(v, g)
    \/ \E p \in Ports : BeginAdd(p, v)
    \/ BeginSshForward(v)

\* Steps that wait for nothing but the instance's lock.
Local(v) ==
    Halt(v) \/ Remove(v) \/ Alloc(v) \/ Provision(v) \/ Launch(v) \/ Check(v)
        \/ WriteSpec(v) \/ SetLink(v) \/ AutoStart(v) \/ HealLink(v)

\* Steps that wait for the forwards lock, next to the repair loop.
Waiting == \/ \E v \in Vms : BeginReconcile(v) \/ RemoveAll(v)
           \/ BeginInit \/ Add

World(v) == GuestReboot(v) \/ GuestHalt(v)

Next ==
    \/ \E v \in Vms : Requests(v) \/ Local(v) \/ World(v)
    \/ \E f \in Rules : DelForward(f)
    \/ Waiting \/ BeginHeal \/ Apply \/ Scan \/ Crash

Spec == Init /\ [][Next]_vars

\* Tasks run on, nft returns, and the forwards lock is handed out in turn, so
\* that the repair loop, which takes it again and again, starves nobody. The
\* requests of a behaviour are finite in number.
Fairness ==
    /\ WF_vars((\E v \in Vms : Local(v)) \/ Scan)
    /\ WF_vars(Apply)
    /\ WF_vars(BeginHeal)
    /\ SF_vars(Waiting)

FairSpec == Spec /\ Fairness

-----------------------------------------------------------------------------
(* Properties *)

\* create_locked, "two of them picking the same free index would share a veth
\* name and addresses": no two records hold the same slot.
DistinctSlots ==
    \A v, w \in Vms : v # w /\ Exists(v) /\ Exists(w) => rec[v].idx # rec[w].idx

\* A unit runs only for an instance that has a record: no failure or restart in
\* create, reinstall or delete leaves a container nothing manages.
ActiveHasRecord == \A v \in Vms : unit[v] => Exists(v)

\* Once a ruleset has been installed, a forwarded port leads to the instance it
\* was added for, never to another that has taken over its slot.
ForwardsReachOwner ==
    netOk => \A f \in nft, v \in Vms :
                unit[v] /\ Exists(v) /\ rec[v].idx = f.idx => f.vm = v

\* add: a host port is forwarded once, and an instance has at most max_forwards
\* rules.
ForwardsBounded ==
    /\ \A f, g \in fwds : f.port = g.port => f = g
    /\ MaxForwards # 0 =>
        \A v \in Vms : Cardinality({f \in fwds : f.vm = v}) <= MaxForwards

\* Only the generation an isolate request named is quarantined: a late request
\* never reaches a replacement with the same id, nor does an old record.
QuarantineFollowsGeneration ==
    \A v \in Vms : Exists(v) /\ rec[v].quar => rec[v].gen \in isolated

\* heal: the link of a quarantined running instance is taken down in the end,
\* whatever interrupted the request, unless it is released or stops.
QuarantineEnforced ==
    \A v \in Vms : (Exists(v) /\ unit[v] /\ rec[v].quar)
                   ~> (~unit[v] \/ ~Exists(v) \/ ~rec[v].quar \/ ~up[v])

\* heal: once requests cease the installed forwards are those of the port
\* forwards and the records.
NetworkConverges == <>[](nft = Resolve(fwds, View))

\* watcher_network_quarantine, "restarts and crash recovery follow the same
\* fail-closed desired state": the host link of an instance comes up only while
\* its record does not quarantine it.
LinkFailClosed ==
    [][\A v \in Vms : (unit'[v] /\ up'[v]) /\ ~(unit[v] /\ up[v])
                      => Exists(v) /\ ~rec[v].quar]_vars

\* init, "start every instance that should be running": autostart begins to
\* start an instance only while its record says it should run.
AutoStartAsDesired ==
    [][\A v \in Vms : v \in todo /\ v \notin todo' /\ Exists(v) /\ crashes' = crashes
                      => rec[v].want = "run"]_vars
=============================================================================
