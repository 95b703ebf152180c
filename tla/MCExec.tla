------------------------------- MODULE MCExec -------------------------------
(***************************************************************************)
(* The two users of the exec helper for TLC: the consoles of a stream and  *)
(* a bounded command.  They share no state, so a behaviour follows one of  *)
(* them and leaves the other in its initial state, where none of the steps *)
(* the other's fairness is about is enabled.                               *)
(***************************************************************************)
EXTENDS Consoles, Exec

NoConsoles ==
    /\ \A o \in Opens : task[o] = "none"
    /\ tx = "room"
    /\ ~all

MCInit == ConsoleInit /\ ExecInit

MCNext ==
    \/ caller = "idle" /\ ConsoleNext /\ UNCHANGED execVars
    \/ NoConsoles /\ ExecNext /\ UNCHANGED consoleVars

MCSpec ==
    /\ MCInit
    /\ [][MCNext]_<<consoleVars, execVars>>
    /\ ConsoleFairness
    /\ ExecFairness
=============================================================================
