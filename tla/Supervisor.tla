----------------------------- MODULE Supervisor -----------------------------
(***************************************************************************)
(* The processes behind the systemd unit of an instance                     *)
(* (runtime/supervisor.rs): the supervisor, the intermediate process that   *)
(* owns the namespaces, pid 1 of the guest, and between them two pipes, the  *)
(* cgroups and signals. The agent launches and stops the unit, systemd       *)
(* delivers the stop and kills what outlives its time limit.                 *)
(*                                                                         *)
(* The supervisor is one thread that blocks SIGTERM and SIGCHLD and reads    *)
(* them from a signalfd, in its main loop and while it waits for a restart   *)
(* only. A signal that is pending twice is read once, and SIGTERM before     *)
(* SIGCHLD.                                                                 *)
(***************************************************************************)
EXTENDS Naturals, Sequences

CONSTANTS
    CrashRestarts,  \* CRASH_RESTARTS
    MaxStarts,      \* bound: launches of the unit
    MaxBoots,       \* bound: boots of the guest over all launches
    MaxFaults       \* bound: failing steps, killed processes, forced kills

ASSUME SupervisorAssumption ==
    /\ CrashRestarts \in Nat
    /\ MaxStarts \in Nat /\ MaxBoots \in Nat /\ MaxFaults \in Nat

VARIABLES
    sv,       \* where the supervisor is; "off" when the unit is inactive
    mid,      \* where the intermediate is
    midCg,    \* cgroup of the intermediate: "supervisor" or "ct"
    init,     \* where pid 1 is; its cgroup is "ct"
    status,   \* what pid 1, then the intermediate, exited with
    tags,     \* pipe to the supervisor
    go,       \* pipe to the intermediate and to pid 1
    pend,     \* signals pending for the supervisor
    stopRequested, deadline, crashes,
    out,      \* outcome of the last boot
    pidFile,  \* init.pid exists
    devices,  \* the host side of the guest's network exists
    layers,   \* the id-mapped layers are mounted
    agent,    \* the agent: "idle", "starting" or "forcing"
    stop,     \* systemctl stop: "no", "sent", "seen" by the supervisor
    \* history and bounds
    released, \* this unit let a pid 1 go
    reported, \* launch reported this unit as started
    broken,   \* the unit ended in an "error", or was "killed"
    starts, boots, faults

pipes == <<tags, go>>
host == <<pidFile, devices, layers>>
hist == <<released, reported, broken, starts, boots>>
vars == <<sv, mid, midCg, init, status, tags, go, pend, stopRequested,
          deadline, crashes, out, pidFile, devices, layers, agent, stop,
          released, reported, broken, starts, boots, faults>>

TypeOK ==
    /\ sv \in {"off", "prep", "boot", "U", "N", "P", "loop", "clean", "delay"}
    /\ mid \in {"none", "new", "1", "2", "root", "dev", "forked", "wait", "dead"}
    /\ midCg \in {"supervisor", "ct"}
    /\ init \in {"none", "setup", "ready", "run", "dead"}
    /\ status \in {"none", "hup", "zero", "other"}
    /\ tags \in Seq({"U", "N", "P", "E"}) /\ Len(tags) <= 1
    /\ go \in Seq({"1", "2", "3"}) /\ Len(go) <= 1
    /\ pend \subseteq {"TERM", "CHLD"}
    /\ stopRequested \in BOOLEAN /\ deadline \in BOOLEAN
    /\ crashes \in 0..CrashRestarts
    /\ out \in {"none", "Reboot", "Halted", "Other", "Err", "RunErr"}
    /\ pidFile \in BOOLEAN /\ devices \in BOOLEAN /\ layers \in BOOLEAN
    /\ agent \in {"idle", "starting", "forcing"}
    /\ stop \in {"no", "sent", "seen"}
    /\ released \in BOOLEAN /\ reported \in BOOLEAN /\ broken \in {"no", "error", "killed"}
    /\ starts \in 0..MaxStarts /\ boots \in 0..MaxBoots
    /\ faults \in 0..MaxFaults

\* No unit; what an earlier one left behind is not known.
Init ==
    /\ sv = "off" /\ mid = "none" /\ midCg = "supervisor" /\ init = "none"
    /\ status = "none" /\ tags = <<>> /\ go = <<>> /\ pend = {}
    /\ stopRequested = FALSE /\ deadline = FALSE /\ crashes = 0 /\ out = "none"
    /\ pidFile \in BOOLEAN /\ devices = FALSE /\ layers = FALSE
    /\ agent = "idle" /\ stop = "no"
    /\ released = FALSE /\ reported = FALSE /\ broken = (IF pidFile THEN "killed" ELSE "no")
    /\ starts = 0 /\ boots = 0 /\ faults = 0

Fault == faults < MaxFaults /\ faults' = faults + 1
InitAlive == init \in {"setup", "ready", "run"}
MidAlive == mid \in {"new", "1", "2", "root", "dev", "forked", "wait"}

\* pid 1 ends; the intermediate, if it is still there, will pass its status on.
InitEnds(with) ==
    /\ init' = "dead"
    /\ status' = IF MidAlive THEN with ELSE status

\* The intermediate ends, which the supervisor is sent SIGCHLD for.
MidEnds(with) ==
    /\ mid' = "dead" /\ status' = with
    /\ pend' = pend \cup {"CHLD"}

\* cgroup.kill of ct, which holds pid 1 and until "P" also the intermediate.
KillCt ==
    /\ init' = IF InitAlive THEN "dead" ELSE init
    /\ status' = IF MidAlive /\ (InitAlive \/ midCg = "ct")
                   THEN "other" ELSE status
    /\ mid' = IF MidAlive /\ midCg = "ct" THEN "dead" ELSE mid
    /\ pend' = IF MidAlive /\ midCg = "ct" THEN pend \cup {"CHLD"} ELSE pend

\* The supervisor is gone: systemd kills what is left in the unit, the mount
\* namespace of the unit disappears with its mounts.
UnitGone ==
    /\ sv' = "off" /\ mid' = "none" /\ init' = "none" /\ status' = "none"
    /\ midCg' = "supervisor" /\ tags' = <<>> /\ go' = <<>> /\ pend' = {}
    /\ stopRequested' = FALSE /\ deadline' = FALSE /\ out' = "none"
    /\ layers' = FALSE

-----------------------------------------------------------------------------
(* The agent and systemd *)

\* launch: init.pid is removed, then systemd-run starts the supervisor.
Launch ==
    /\ sv = "off" /\ agent = "idle" /\ starts < MaxStarts /\ boots < MaxBoots
    /\ pidFile' = FALSE
    /\ sv' = "prep" /\ agent' = "starting"
    /\ crashes' = 0 /\ stop' = "no"
    /\ released' = FALSE /\ reported' = FALSE /\ broken' = "no"
    /\ starts' = starts + 1
    /\ UNCHANGED <<mid, midCg, init, status, pipes, pend, stopRequested,
                   deadline, out, devices, layers, boots, faults>>

\* launch polls: init.pid exists, the unit is inactive, or the time is over.
Await ==
    /\ agent = "starting"
    /\ agent' = "idle"
    /\ reported' = pidFile
    /\ UNCHANGED <<sv, mid, midCg, init, status, pipes, pend, stopRequested,
                   deadline, crashes, out, host, stop, released, broken,
                   starts, boots, faults>>

\* systemctl stop, from the agent, an administrator or the host going down.
SendStop ==
    /\ sv # "off" /\ stop = "no"
    /\ stop' = "sent"
    /\ pend' = pend \cup {"TERM"}
    /\ UNCHANGED <<sv, mid, midCg, init, status, pipes, stopRequested,
                   deadline, crashes, out, host, agent, hist, faults>>

\* SIGINT or another SIGTERM from an administrator.
Interrupt ==
    /\ sv # "off"
    /\ Fault
    /\ stop' = IF stop = "no" THEN "sent" ELSE stop
    /\ pend' = pend \cup {"TERM"}
    /\ UNCHANGED <<sv, mid, midCg, init, status, pipes, stopRequested,
                   deadline, crashes, out, host, agent, hist>>

\* TimeoutStopSec: the whole unit is killed.
StopTimeout ==
    /\ stop # "no" /\ sv # "off"
    /\ UnitGone
    /\ broken' = "killed"
    /\ UNCHANGED <<crashes, pidFile, devices, agent, stop, released, reported,
                   starts, boots, faults>>

\* halt(force) kills the cgroup of the guest, waits for the unit to end, and
\* stops it when it has not.
ForceKill ==
    /\ sv # "off" /\ agent = "idle" /\ boots < MaxBoots
    /\ Fault
    /\ KillCt
    /\ agent' = "forcing"
    /\ UNCHANGED <<sv, midCg, pipes, stopRequested, deadline, crashes, out,
                   host, stop, hist>>

ForceEnds ==
    /\ agent = "forcing"
    /\ agent' = "idle"
    /\ IF sv # "off" /\ stop = "no"
         THEN stop' = "sent" /\ pend' = pend \cup {"TERM"}
         ELSE UNCHANGED <<stop, pend>>
    /\ UNCHANGED <<sv, mid, midCg, init, status, pipes, stopRequested,
                   deadline, crashes, out, host, hist, faults>>

-----------------------------------------------------------------------------
(* The supervisor *)

\* The supervisor blocks the signals, enters its cgroup and mounts the disk, all
\* before its first boot.
Setup ==
    /\ sv = "prep"
    /\ sv' = "boot"
    /\ UNCHANGED <<mid, midCg, init, status, pipes, pend, stopRequested,
                   deadline, crashes, out, host, agent, stop, hist, faults>>

\* One of these steps fails, or SIGTERM came before it was blocked: the
\* supervisor ends without having looked at what an earlier one left.
SetupFails ==
    /\ sv = "prep"
    /\ IF "TERM" \in pend THEN UNCHANGED faults ELSE Fault
    /\ UnitGone
    /\ broken' = "killed"
    /\ UNCHANGED <<crashes, pidFile, devices, agent, stop, released, reported,
                   starts, boots>>

\* boot_once up to the fork: a new ct, new pipes. The child starts in the
\* supervisor's cgroup.
Boot ==
    /\ sv = "boot"
    /\ boots < MaxBoots
    /\ boots' = boots + 1
    /\ \/ /\ sv' = "U" /\ mid' = "new" /\ midCg' = "supervisor"
          /\ init' = "none" /\ status' = "none" /\ tags' = <<>> /\ go' = <<>>
          /\ deadline' = FALSE /\ layers' = FALSE
          /\ out' = "none"
          /\ UNCHANGED faults
       \/ /\ Fault
          /\ sv' = "clean" /\ out' = "Err"
          /\ UNCHANGED <<mid, midCg, init, status, pipes, deadline,
                         layers>>
    /\ UNCHANGED <<pend, stopRequested, crashes, pidFile, devices, agent, stop,
                   released, reported, broken, starts>>

\* A tag was read, the work is done and the go byte written, which somebody
\* must still be there to read.
Proceed(tag, byte, next) ==
    /\ sv = tag /\ tags = <<tag>>
    /\ MidAlive \/ InitAlive
    /\ tags' = <<>> /\ go' = Append(go, byte) /\ sv' = next
    /\ UNCHANGED <<mid, init, status, stopRequested, deadline, crashes, out,
                   agent, stop, reported, broken, starts, boots,
                   faults>>

\* Id maps, id-mapped layers, the child moves into ct.
GotU ==
    /\ Proceed("U", "1", "N")
    /\ layers' = TRUE /\ midCg' = "ct"
    /\ UNCHANGED <<pend, pidFile, devices, released>>

\* attach: the host side of the network, by helpers whose ends are signalled too.
GotN ==
    /\ Proceed("N", "2", "P")
    /\ devices' = TRUE
    /\ pend' = pend \cup {"CHLD"}
    /\ UNCHANGED <<midCg, pidFile, layers, released>>

\* Mutant of GotP: the intermediate stays in the guest's cgroup.
GotPInCt ==
    /\ Proceed("P", "3", "loop")
    /\ pidFile' = TRUE /\ released' = TRUE
    /\ UNCHANGED <<pend, midCg, devices, layers>>

\* The intermediate leaves ct, then pid 1 is released; init.pid is written.
GotP ==
    /\ Proceed("P", "3", "loop")
    /\ midCg' = "supervisor"
    /\ pidFile' = TRUE /\ released' = TRUE
    /\ UNCHANGED <<pend, devices, layers>>

\* The handshake fails: an error tag, end of file, nobody left to read the go
\* byte, or a step of the supervisor fails half-way. The child is killed and
\* reaped; a pid 1 it has forked is not. As pid 1 inherits both pipes, there is
\* no end of file while it waits.
LaunchFails ==
    /\ sv \in {"U", "N", "P"}
    /\ \/ /\ ~(tags # <<"E">> /\ (MidAlive \/ InitAlive))
          /\ UNCHANGED <<faults, layers, devices>>
       \/ /\ tags = <<sv>> /\ Fault
          /\ layers' \in {layers, layers \/ sv = "U"}
          /\ devices' \in {devices, devices \/ sv = "N"}
    /\ sv' = "clean" /\ out' = "Err"
    /\ mid' = "none" /\ tags' = <<>>
    /\ pend' = pend \cup {"CHLD"}
    /\ UNCHANGED <<midCg, init, status, go, stopRequested, deadline, crashes,
                   pidFile, agent, stop, hist>>

\* SIGTERM in the main loop: the first one passes the image's stop signal on,
\* which pid 1 may ignore, and starts the clock.
ReadTerm ==
    /\ sv = "loop" /\ "TERM" \in pend
    /\ pend' = pend \ {"TERM"}
    /\ IF deadline
         THEN UNCHANGED <<stopRequested, deadline, stop>>
         ELSE /\ stopRequested' = TRUE /\ stop' = "seen"
              /\ deadline' = TRUE
    /\ UNCHANGED <<sv, mid, midCg, init, status, pipes, crashes, out, host,
                   agent, hist, faults>>

Outcome ==
    CASE status = "hup" -> "Reboot"
      [] status = "zero" -> "Halted"
      [] OTHER -> "Other"

\* SIGCHLD, which may be about another child of the supervisor.
ReadChld ==
    /\ sv = "loop" /\ "CHLD" \in pend /\ "TERM" \notin pend
    /\ pend' = pend \ {"CHLD"}
    /\ IF mid = "dead"
         THEN sv' = "clean" /\ out' = Outcome /\ mid' = "none"
         ELSE UNCHANGED <<sv, out, mid>>
    /\ UNCHANGED <<midCg, init, status, pipes, stopRequested, deadline,
                   crashes, host, agent, stop, hist, faults>>

\* Mutant of GracefulTimeout: nothing is killed.
GracefulTimeoutOnly ==
    /\ sv = "loop" /\ deadline
    /\ deadline' = FALSE
    /\ UNCHANGED <<sv, mid, midCg, init, status, pipes, pend, stopRequested,
                   crashes, out, host, agent, stop, hist, faults>>

\* STOP_TIMEOUT is over.
GracefulTimeout ==
    /\ sv = "loop" /\ deadline
    /\ KillCt
    /\ deadline' = FALSE
    /\ UNCHANGED <<sv, midCg, pipes, stopRequested, crashes, out, host, agent, stop, hist, faults>>

\* init.pid or the console log cannot be written, or poll fails.
LoopFails ==
    /\ sv = "loop"
    /\ Fault
    /\ sv' = "clean" /\ out' = "RunErr"
    /\ UNCHANGED <<mid, midCg, init, status, pipes, pend, stopRequested,
                   deadline, crashes, host, agent, stop, hist>>

\* The supervisor ends, well or with an error.
Exit(how) ==
    /\ UnitGone
    /\ broken' = how
    /\ UNCHANGED <<crashes, agent, stop, released, reported, starts, boots,
                   faults>>

\* The supervisor goes on: ct is empty, the helper that removed the devices has
\* left another SIGCHLD.
GoOn(next, n) ==
    /\ sv' = next /\ crashes' = n /\ layers' = FALSE
    /\ init' = IF InitAlive THEN "dead" ELSE init
    /\ pend' = pend \cup {"CHLD"}
    /\ UNCHANGED <<mid, midCg, status, pipes, stopRequested, deadline, out,
                   agent, stop, hist, faults>>

\* Mutant of Decide: a stop does not keep a crashed guest from a restart.
DecideRestart ==
    \/ out \in {"Err", "RunErr"} /\ Exit("error")
    \/ out = "Reboot" /\ ~stopRequested /\ GoOn("boot", crashes)
    \/ /\ out = "Other"
       /\ \E n \in {1, crashes + 1} :
             IF n <= CrashRestarts THEN GoOn("delay", n) ELSE Exit("no")
    \/ out = "Halted" /\ Exit("no")
    \/ out = "Reboot" /\ stopRequested /\ Exit("no")

\* Where run goes after a boot; one that lasted CRASH_STABLE resets the count.
Decide ==
    \/ out \in {"Err", "RunErr"} /\ Exit("error")
    \/ out = "Reboot" /\ ~stopRequested /\ GoOn("boot", crashes)
    \/ /\ out = "Other" /\ ~stopRequested
       /\ \E n \in {1, crashes + 1} :
             IF n <= CrashRestarts THEN GoOn("delay", n) ELSE Exit("no")
    \/ out = "Halted" /\ Exit("no")
    \/ out \in {"Reboot", "Other"} /\ stopRequested /\ Exit("no")

\* Mutant of Clean: an error ends the supervisor before it has cleaned up.
CleanUnlessError ==
    /\ sv = "clean"
    /\ \/ out = "Err" /\ Exit("error") /\ UNCHANGED <<pidFile, devices>>
       \/ out # "Err" /\ Decide /\ pidFile' = FALSE /\ devices' = FALSE

\* After every boot: init.pid is removed, ct killed and removed, the network
\* detached, the layers unmounted. Only a ct that does not empty in time ends
\* the supervisor half-way.
Clean ==
    /\ sv = "clean"
    /\ pidFile' = FALSE
    /\ \/ devices' = FALSE /\ Decide
       \/ /\ Fault
          /\ UnitGone
          /\ broken' = "killed"
          /\ UNCHANGED <<crashes, devices, agent, stop, released, reported,
                         starts, boots>>

\* sleep_unless_stopped: a stop ends the delay, other signals are dropped.
DelaySignal ==
    /\ sv = "delay" /\ pend # {}
    /\ IF "TERM" \in pend
         THEN Exit("no") /\ UNCHANGED <<pidFile, devices>>
         ELSE /\ pend' = {}
              /\ UNCHANGED <<sv, mid, midCg, init, status, pipes,
                             stopRequested, deadline, crashes, out, host, agent, stop, hist, faults>>

DelayOver ==
    /\ sv = "delay"
    /\ sv' = "boot"
    /\ UNCHANGED <<mid, midCg, init, status, pipes, pend, stopRequested,
                   deadline, crashes, out, host, agent, stop, hist,
                   faults>>

-----------------------------------------------------------------------------
(* The intermediate and pid 1 *)

svVars == <<sv, stopRequested, deadline, crashes, out, host, agent, stop,
            hist>>

\* A step of the intermediate fails: it writes the error and exits.
MidFails ==
    /\ Fault
    /\ MidEnds("other")
    /\ tags' = Append(tags, "E")

\* The intermediate reads its go byte, takes a step and writes the next tag.
MidStep(at, byte, next, tag) ==
    /\ mid = at /\ go = byte
    /\ go' = <<>>
    /\ \/ /\ mid' = next /\ tags' = Append(tags, tag)
          /\ UNCHANGED <<status, pend, faults>>
       \/ MidFails
    /\ UNCHANGED <<svVars, midCg, init>>

MidU == MidStep("new", <<>>, "1", "U")
MidN == MidStep("1", <<"1">>, "2", "N")

\* The second go byte: the overlay of the layers is mounted.
MidRoot ==
    /\ mid = "2" /\ go = <<"2">>
    /\ go' = <<>>
    /\ \/ mid' = "root" /\ UNCHANGED <<tags, status, pend, faults>>
       \/ MidFails
    /\ UNCHANGED <<svVars, midCg, init>>

\* setup_dev fills /dev of the guest.
MidDev ==
    /\ mid = "root"
    /\ \/ mid' = "dev" /\ UNCHANGED <<tags, status, pend, faults>>
       \/ MidFails
    /\ UNCHANGED <<svVars, midCg, init, go>>

\* Fork of pid 1.
MidFork ==
    /\ mid = "dev"
    /\ \/ /\ mid' = "forked" /\ init' = "setup"
          /\ UNCHANGED <<tags, status, pend, faults>>
       \/ MidFails /\ UNCHANGED init
    /\ UNCHANGED <<svVars, midCg, go>>

MidP ==
    /\ mid = "forked"
    /\ mid' = "wait" /\ tags' = Append(tags, "P")
    /\ UNCHANGED <<svVars, midCg, init, status, go, pend, faults>>

\* Its pid 1 ended, so the intermediate exits with the same status.
MidExit ==
    /\ mid = "wait" /\ init = "dead"
    /\ MidEnds(status)
    /\ UNCHANGED <<svVars, midCg, init, pipes, faults>>

\* The intermediate is killed on its own (out of memory).
MidKilled ==
    /\ MidAlive /\ boots < MaxBoots
    /\ Fault
    /\ MidEnds("other")
    /\ UNCHANGED <<svVars, midCg, init, pipes>>

\* pid 1 mounts /proc and /sys with the views lxcfs has of them, masks what is
\* the host's, and makes the rootfs its root.
InitSetup ==
    /\ init = "setup"
    /\ \/ init' = "ready" /\ UNCHANGED <<status, faults>>
       \/ Fault /\ boots < MaxBoots /\ InitEnds("other")
    /\ UNCHANGED <<svVars, mid, midCg, pipes, pend>>

\* pid 1 is released, or finds the pipe closed because boot_once returned.
InitGo ==
    /\ init = "ready"
    /\ \/ go = <<"3">> /\ go' = <<>> /\ init' = "run" /\ UNCHANGED status
       \/ sv \in {"clean", "delay", "boot"} /\ InitEnds("other") /\ UNCHANGED go
    /\ UNCHANGED <<svVars, mid, midCg, tags, pend, faults>>

\* The guest reboots, halts or dies; one that was told to stop may halt.
GuestEnds ==
    /\ init = "run"
    /\ \/ boots < MaxBoots /\ \E x \in {"hup", "other"} : InitEnds(x)
       \/ InitEnds("zero")
    /\ UNCHANGED <<svVars, mid, midCg, pipes, pend, faults>>

-----------------------------------------------------------------------------
\* Nothing is left to do within the bounds.
Rest ==
    /\ sv = "off" /\ agent = "idle"
    /\ ~(starts < MaxStarts /\ boots < MaxBoots)
    /\ UNCHANGED vars

SupervisorStep ==
    \/ Setup \/ SetupFails
    \/ Boot \/ GotU \/ GotN \/ GotP \/ LaunchFails \/ ReadTerm \/ ReadChld
    \/ GracefulTimeout \/ LoopFails \/ Clean \/ DelaySignal \/ DelayOver

ContainerStep ==
    \/ MidU \/ MidN \/ MidRoot \/ MidDev \/ MidFork \/ MidP \/ MidExit \/ MidKilled
    \/ InitSetup \/ InitGo

Next ==
    \/ Launch \/ Await \/ SendStop \/ Interrupt \/ StopTimeout
    \/ ForceKill \/ ForceEnds
    \/ SupervisorStep \/ ContainerStep \/ GuestEnds \/ Rest

\* The processes run, waits end and the time limit of a graceful stop passes.
\* Nothing is asked of the guest, of systemd's own time limit or of failures.
Fairness ==
    /\ WF_vars(Setup \/ SetupFails)
    /\ WF_vars(Boot) /\ WF_vars(GotU \/ GotN \/ GotP \/ LaunchFails)
    /\ WF_vars(ReadTerm) /\ WF_vars(ReadChld) /\ WF_vars(GracefulTimeout)
    /\ WF_vars(Clean) /\ WF_vars(DelaySignal \/ DelayOver)
    /\ WF_vars(MidU) /\ WF_vars(MidN) /\ WF_vars(MidRoot)
    /\ WF_vars(MidDev) /\ WF_vars(MidFork) /\ WF_vars(MidP)
    /\ WF_vars(MidExit) /\ WF_vars(InitSetup) /\ WF_vars(InitGo)

Spec == Init /\ [][Next]_vars /\ Fairness

-----------------------------------------------------------------------------
(* Properties *)

\* pid 1 executes the guest's init only once its network and its layers are in
\* place and the intermediate has left its cgroup, as the handshake of
\* boot_once, intermediate and pid1 is there to ensure.
InitAlone == init = "run" => midCg = "supervisor" /\ devices /\ layers

\* A unit that was not killed half-way, be it stopped during the handshake,
\* failed or given up after crashes, leaves neither host devices nor init.pid.
NothingLeft == sv = "off" /\ broken # "killed" => ~devices /\ ~pidFile

\* launch reports a start only when this unit, not an earlier one, has let a
\* pid 1 go.
StartedIsReleased == reported => released

\* The intermediate was killed after it forked pid 1 and before it said so: the
\* supervisor and pid 1 wait for each other.
Orphaned == sv = "P" /\ tags = <<>> /\ ~MidAlive /\ init = "ready"

\* However the stop meets the handshake, a boot that just ended or the delay
\* after a crash, and whatever the guest does, the unit ends without systemd's
\* time limit, except that nobody takes an orphaned pid 1 down.
StopEnds == stop # "no" ~> sv = "off" \/ Orphaned

\* A guest that was killed by force is not booted again while the agent waits
\* for the unit to end, as halt assumes.
ForcedStaysDown ==
    [][agent = "forcing" /\ agent' = "forcing" => ~(sv = "boot" /\ sv' = "U")]_vars

\* The supervisor implements the unit of InstanceUnit.
Phase ==
    CASE sv = "off" -> "down"
      [] sv \in {"prep", "boot", "U", "N", "P"} -> "booting"
      [] sv = "delay" -> "waiting"
      [] sv = "clean" /\ out = "Err" -> "booting"
      [] OTHER -> "up"

Guest ==
    CASE Phase # "up" -> "none"
      [] Phase = "up" /\ mid = "dead" ->
           CASE Outcome = "Reboot" -> "rebooted"
             [] Outcome = "Halted" -> "halted"
             [] OTHER -> "died"
      [] Phase = "up" /\ out = "Reboot" -> "rebooted"
      [] Phase = "up" /\ out = "Halted" -> "halted"
      [] Phase = "up" /\ out = "Other" -> "died"
      [] OTHER -> "alive"

Unit == INSTANCE InstanceUnit WITH
    phase <- Phase, guest <- Guest, broken <- (broken # "no")

\* Seen from outside, every behaviour of the processes is one of the unit's:
\* no boot after a noticed stop, a bounded number of restarts in a row, an end
\* only for a reason, and an end once the stop was noticed.
UnitRefined == Unit!Spec
=============================================================================
