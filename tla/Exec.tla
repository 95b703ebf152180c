-------------------------------- MODULE Exec --------------------------------
(***************************************************************************)
(* One bounded command inside an instance: Runtime::watcher_exec with      *)
(* ExecTarget::run_capture on the agent's side, and the `__exec` helper    *)
(* process that joins the instance and runs the command (runtime/exec.rs). *)
(*                                                                         *)
(* The command may fork, ignore SIGTERM, leave processes behind or move    *)
(* one of them out of its process group.  Four clocks run against it: the  *)
(* helper's limit, the caller's deadline three seconds later, the three    *)
(* seconds the caller then gives the helper, and the 100 seconds of the    *)
(* control request, which also cover the wait for the instance's lock.     *)
(*                                                                         *)
(* A process that was sent SIGKILL is "doomed": it runs no more code of    *)
(* its own, and dies as soon as the kernel lets it.                        *)
(***************************************************************************)
EXTENDS Naturals

CONSTANT MaxOutput  \* chunks of output a response may hold

ASSUME MaxOutputAssumption == MaxOutput \in Nat

VARIABLES
    caller,      \* where run_capture stands
    late,        \* the request waited so long for the lock that its 100 s
                 \* may end before the caller's deadline does
    overflowed,  \* run_capture: the output was too long
    timedOut,    \* run_capture: the deadline was over
    helper,      \* where the helper process stands
    requested,   \* TERMINATION_REQUESTED in the helper
    code,        \* the helper's exit code
    child,       \* the command's direct process
    kid,         \* a process of the command's group
    escaped,     \* a process that left the group
    pipe,        \* a chunk of output waits to be read
    captured     \* chunks read, up to one too many

callerVars == <<caller, late, overflowed, timedOut>>
helperVars == <<helper, requested, code>>
guestVars == <<child, kid, escaped>>
outputVars == <<pipe, captured>>
execVars == <<callerVars, helperVars, guestVars, outputVars>>

ExecTypeOK ==
    /\ caller \in {"idle", "write", "wait", "grace", "read",
                   "ok", "failed", "dropped"}
    /\ {late, overflowed, timedOut, requested, pipe} \subseteq BOOLEAN
    /\ helper \in {"none", "join", "poll", "term", "kill", "sweep", "gone"}
    /\ code \in {"none", "own", "126", "143", "124", "signal"}
    /\ child \in {"none", "forked", "up", "doomed", "zombie", "gone"}
    /\ {kid, escaped} \subseteq {"none", "up", "doomed", "gone"}
    /\ captured \in 0..MaxOutput + 1

ExecInit ==
    /\ caller = "idle"
    /\ late = FALSE
    /\ overflowed = FALSE
    /\ timedOut = FALSE
    /\ helper = "none"
    /\ requested = FALSE
    /\ code = "none"
    /\ child = "none"
    /\ kid = "none"
    /\ escaped = "none"
    /\ pipe = FALSE
    /\ captured = 0

Alive(p) == p \in {"forked", "up", "doomed"}

Doom(p) == IF p \in {"forked", "up"} THEN "doomed" ELSE p

(***************************************************************************)
(* The helper                                                              *)
(***************************************************************************)

HelperExits(c) ==
    /\ helper' = "gone"
    /\ code' = c

\* The instance has no pid file, or a cgroup or namespace cannot be joined.
JoinFails ==
    /\ helper = "join"
    /\ HelperExits("126")
    /\ UNCHANGED <<callerVars, requested, guestVars, outputVars>>

\* The handler for SIGTERM is in place before the command is forked.
Fork ==
    /\ helper = "join"
    /\ helper' = "poll"
    /\ child' = "forked"
    /\ UNCHANGED <<callerVars, requested, code, kid, escaped, outputVars>>

\* wait_for_child: the command has exited; its group gets SIGTERM.
ChildExited ==
    /\ helper = "poll"
    /\ child = "zombie"
    /\ child' = "gone"
    /\ helper' = "sweep"
    /\ code' = "own"
    /\ UNCHANGED <<callerVars, requested, kid, escaped, outputVars>>

\* Mutant: the group is left alone when the command has exited.
SweepNobody ==
    /\ helper = "sweep"
    /\ helper' = "gone"
    /\ UNCHANGED <<callerVars, requested, code, guestVars, outputVars>>

\* terminate_descendants: 50 ms later the group gets SIGKILL.
Sweep ==
    /\ helper = "sweep"
    /\ kid' = Doom(kid)
    /\ helper' = "gone"
    /\ UNCHANGED <<callerVars, requested, code, child, escaped, outputVars>>

\* The caller asked for the end, or the limit is over: terminate_child sends
\* SIGTERM, which the group and the process that has not yet made it a group
\* may ignore.
Terminate ==
    /\ helper = "poll"
    /\ child # "zombie"
    /\ \/ requested /\ code' = "143"
       \/ ~requested /\ code' = "124"
    /\ requested' = FALSE
    /\ helper' = "term"
    /\ UNCHANGED <<callerVars, guestVars, outputVars>>

\* 100 ms later SIGKILL goes to the group and to the process itself.
Kill ==
    /\ helper = "term"
    /\ child' = Doom(child)
    /\ kid' = Doom(kid)
    /\ helper' = "kill"
    /\ UNCHANGED <<callerVars, requested, code, escaped, outputVars>>

Reap ==
    /\ helper = "kill"
    /\ child = "zombie"
    /\ child' = "gone"
    /\ helper' = "gone"
    /\ UNCHANGED <<callerVars, requested, code, kid, escaped, outputVars>>

(***************************************************************************)
(* The command                                                             *)
(***************************************************************************)

\* exec_child: a session of its own, then the command.
Exec ==
    /\ child = "forked"
    /\ child' = "up"
    /\ UNCHANGED <<callerVars, helperVars, kid, escaped, outputVars>>

ForkKid ==
    /\ child = "up"
    /\ kid = "none"
    /\ kid' = "up"
    /\ UNCHANGED <<callerVars, helperVars, child, escaped, outputVars>>

Escape ==
    /\ kid = "up"
    /\ escaped = "none"
    /\ escaped' = "up"
    /\ kid' = "gone"
    /\ UNCHANGED <<callerVars, helperVars, child, outputVars>>

Write ==
    /\ {child, kid, escaped} \cap {"up"} # {}
    /\ ~pipe
    /\ pipe' = TRUE
    /\ UNCHANGED <<callerVars, helperVars, guestVars, captured>>

\* A process ends, by itself or for a signal.  A child the helper no longer
\* waits for is reaped by init.
ChildDies ==
    /\ child \in {"forked", "up", "doomed"}
    /\ child' = IF helper = "gone" THEN "gone" ELSE "zombie"
    /\ UNCHANGED <<callerVars, helperVars, kid, escaped, outputVars>>

KidDies ==
    /\ kid \in {"up", "doomed"}
    /\ kid' = "gone"
    /\ UNCHANGED <<callerVars, helperVars, child, escaped, outputVars>>

EscapedDies ==
    /\ escaped \in {"up", "doomed"}
    /\ escaped' = "gone"
    /\ UNCHANGED <<callerVars, helperVars, child, kid, outputVars>>

\* SIGKILL to the helper itself, which has no say in it.
KillHelper ==
    IF helper = "gone"
      THEN UNCHANGED helperVars
      ELSE HelperExits("signal") /\ UNCHANGED requested

\* The instance goes down by itself: its cgroup is killed, and the helper is
\* in it.
InstanceDies ==
    /\ helper \in {"poll", "term", "kill", "sweep"}
    /\ KillHelper
    /\ child' = Doom(child)
    /\ kid' = Doom(kid)
    /\ escaped' = Doom(escaped)
    /\ UNCHANGED <<callerVars, outputVars>>

(***************************************************************************)
(* The caller                                                              *)
(***************************************************************************)

\* run_capture spawns the helper and the readers of its output.
SpawnHelper == helper' = "join"

\* watcher_exec has the lock and has found the instance running in the
\* generation asked for.
Start ==
    /\ caller = "idle"
    /\ caller' = "write"
    /\ late' \in BOOLEAN
    /\ SpawnHelper
    /\ UNCHANGED <<overflowed, timedOut, requested, code, guestVars,
                   outputVars>>

\* The command's text fits into the pipe; it fails on a helper that is gone.
WriteStdin ==
    /\ caller = "write"
    /\ caller' = IF helper = "gone" THEN "failed" ELSE "wait"
    /\ UNCHANGED <<late, overflowed, timedOut, helperVars, guestVars,
                   outputVars>>

\* read_bounded: what does not fit is read and dropped.
ReadOutput ==
    /\ pipe
    /\ pipe' = FALSE
    /\ captured' = IF captured > MaxOutput THEN captured ELSE captured + 1
    /\ UNCHANGED <<callerVars, helperVars, guestVars>>

TryWait ==
    /\ caller = "wait"
    /\ helper = "gone"
    /\ caller' = "read"
    /\ UNCHANGED <<late, overflowed, timedOut, helperVars, guestVars,
                   outputVars>>

\* Mutant: the helper is killed at once.
SignalHelperKill == KillHelper

\* SIGTERM before the handler is there ends the helper, which has no child.
SignalHelper ==
    IF helper = "join"
      THEN HelperExits("signal") /\ UNCHANGED requested
      ELSE requested' = (helper = "poll") /\ UNCHANGED <<helper, code>>

Overflow ==
    /\ caller = "wait"
    /\ captured > MaxOutput
    /\ overflowed' = TRUE
    /\ SignalHelper
    /\ caller' = "grace"
    /\ UNCHANGED <<late, timedOut, guestVars, outputVars>>

Deadline ==
    /\ caller = "wait"
    /\ timedOut' = TRUE
    /\ SignalHelper
    /\ caller' = "grace"
    /\ UNCHANGED <<late, overflowed, guestVars, outputVars>>

HelperGone ==
    /\ caller = "grace"
    /\ helper = "gone"
    /\ caller' = "read"
    /\ UNCHANGED <<late, overflowed, timedOut, helperVars, guestVars,
                   outputVars>>

\* wait_for_helper: after three seconds the helper gets SIGKILL.  By then it
\* has long sent the command its own (it polls every 20 ms and waits 100 ms),
\* so that only a command the kernel cannot end yet keeps it.
GraceOver ==
    /\ caller = "grace"
    /\ helper = "kill"
    /\ KillHelper
    /\ caller' = "read"
    /\ UNCHANGED <<late, overflowed, timedOut, guestVars, outputVars>>

\* Both readers have seen the end of their pipe: nobody has it open.
Eof ==
    /\ helper = "gone"
    /\ ~\E p \in {child, kid, escaped} : Alive(p)
    /\ ~pipe

\* Mutant: the limit is only looked at while the helper runs.
TooLongReported == overflowed

\* The response's limit is looked at again when all output has been read.
TooLong == overflowed \/ captured > MaxOutput

Finish ==
    /\ caller = "read"
    /\ Eof
    /\ caller' = IF TooLong \/ timedOut \/ code = "124" THEN "failed" ELSE "ok"
    /\ UNCHANGED <<late, overflowed, timedOut, helperVars, guestVars,
                   outputVars>>

\* The control request's 100 seconds are over: the future is dropped, and
\* with it the helper (kill_on_drop).  They outlast every wait of the caller
\* but the one for the pipes, unless the request had to wait for the lock.
RequestTimeout ==
    /\ caller \in {"write", "wait", "grace", "read"}
    /\ late \/ caller = "read"
    /\ KillHelper
    /\ caller' = "dropped"
    /\ UNCHANGED <<late, overflowed, timedOut, guestVars, outputVars>>

(***************************************************************************)
(* The specification                                                       *)
(***************************************************************************)

HelperStep ==
    \/ JoinFails \/ Fork \/ ChildExited \/ Sweep
    \/ Terminate \/ Kill \/ Reap

GuestStep ==
    \/ Exec \/ ForkKid \/ Escape \/ Write
    \/ ChildDies \/ KidDies \/ EscapedDies \/ InstanceDies

CallerStep ==
    \/ WriteStdin \/ TryWait \/ Overflow \/ Deadline \/ HelperGone
    \/ GraceOver \/ Finish

ExecNext ==
    \/ Start \/ HelperStep \/ GuestStep \/ CallerStep
    \/ ReadOutput \/ RequestTimeout

ExecSpec == ExecInit /\ [][ExecNext]_execVars

\* The helper and the caller are scheduled, their clocks run, and a process
\* that was killed dies in the end.  Nothing is asked of the command.
ExecFairness ==
    /\ WF_execVars(HelperStep)
    /\ WF_execVars(CallerStep)
    /\ WF_execVars(ReadOutput)
    /\ WF_execVars(ChildDies /\ child = "doomed")
    /\ WF_execVars(KidDies /\ kid = "doomed")

(***************************************************************************)
(* Properties                                                              *)
(***************************************************************************)

\* When run_capture has returned, nothing of the command's group runs on in
\* the instance: neither after the command's own exit, nor after the helper's
\* limit, the caller's deadline, too much output or the helper's end by
\* force.  A request that could only time out for the pipes leaves nothing
\* either.
CommandContained ==
    (caller \in {"ok", "failed"} \/ (caller = "dropped" /\ ~late))
    => {child, kid} \subseteq {"none", "doomed", "zombie", "gone"}

\* The same for every request.  A request that had to wait for the lock can
\* be dropped while its command runs: the helper is killed, the command is
\* not.
NeverOrphaned ==
    caller \in {"ok", "failed", "dropped"}
    => {child, kid} \subseteq {"none", "doomed", "zombie", "gone"}

\* A result is the command's whole output and its own exit code, never what
\* was left of a command that was stopped: output the response has no room
\* for is noticed also when it is read after the helper has ended.  (A command
\* ended with its instance reports a signal.)
ResultWhole ==
    caller = "ok" => /\ captured <= MaxOutput
                     /\ ~pipe
                     /\ code \in {"own", "126", "signal"}

\* The caller returns, and gives the instance's lock back, whatever the
\* command does in its group.  Only a process that left the group can hold it
\* up, to the end of the request.
CaptureReturns ==
    caller = "write"
    ~> (caller \in {"ok", "failed", "dropped"} \/ escaped = "up")
=============================================================================
