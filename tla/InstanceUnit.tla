---------------------------- MODULE InstanceUnit ----------------------------
(***************************************************************************)
(* What the unit of an instance promises to the agent that starts and stops *)
(* it, whatever happens between the processes behind it: a guest that        *)
(* reboots is booted again, one that dies is booted again a bounded number   *)
(* of times, one that halts stays down, and once the unit has noticed a stop *)
(* it boots nothing any more and ends.                                       *)
(***************************************************************************)
EXTENDS Naturals

CONSTANT CrashRestarts   \* CRASH_RESTARTS: failed restarts in a row

VARIABLES
    phase,    \* "down", "booting", "up" or "waiting" (for a restart)
    guest,    \* how the guest of an "up" unit is doing
    crashes,  \* restarts in a row that failed
    stop,     \* a stop was "sent" to the unit, the unit has "seen" it
    broken    \* the unit went down because a step failed or it was killed

vars == <<phase, guest, crashes, stop, broken>>

Init ==
    /\ phase = "down" /\ guest = "none" /\ crashes = 0
    /\ stop = "no" /\ broken \in BOOLEAN

Start ==
    /\ phase = "down"
    /\ phase' = "booting" /\ guest' = "none" /\ crashes' = 0
    /\ stop' = "no" /\ broken' = FALSE

SendStop ==
    /\ phase # "down" /\ stop = "no"
    /\ stop' = "sent"
    /\ UNCHANGED <<phase, guest, crashes, broken>>

SeeStop ==
    /\ phase = "up" /\ stop = "sent"
    /\ stop' = "seen"
    /\ UNCHANGED <<phase, guest, crashes, broken>>

Up ==
    /\ phase = "booting"
    /\ phase' = "up" /\ guest' \in {"alive", "rebooted", "halted", "died"}
    /\ UNCHANGED <<crashes, stop, broken>>

GuestEnds ==
    /\ phase = "up" /\ guest = "alive"
    /\ guest' \in {"rebooted", "halted", "died"}
    /\ UNCHANGED <<phase, crashes, stop, broken>>

Reboot ==
    /\ phase = "up" /\ guest = "rebooted" /\ stop # "seen"
    /\ phase' = "booting" /\ guest' = "none"
    /\ UNCHANGED <<crashes, stop, broken>>

\* A boot that lasted makes the count start again.
Crash ==
    /\ phase = "up" /\ guest = "died" /\ stop # "seen"
    /\ crashes' \in {1, crashes + 1} /\ crashes' <= CrashRestarts
    /\ phase' = "waiting" /\ guest' = "none"
    /\ UNCHANGED <<stop, broken>>

Retry ==
    /\ phase = "waiting"
    /\ phase' = "booting"
    /\ UNCHANGED <<guest, crashes, stop, broken>>

\* The regular ways out.
MayEnd ==
    \/ phase = "up" /\ stop = "seen" /\ guest # "alive"
    \/ phase = "up" /\ guest = "halted"
    \/ phase = "up" /\ guest = "died" /\ crashes >= CrashRestarts
    \/ phase = "waiting" /\ stop = "sent"

End ==
    /\ MayEnd
    /\ phase' = "down" /\ guest' = "none"
    /\ UNCHANGED <<crashes, stop, broken>>

\* A step of the unit failed, or it was killed from outside.
Fail ==
    /\ phase # "down"
    /\ phase' = "down" /\ guest' = "none" /\ broken' = TRUE
    /\ UNCHANGED <<crashes, stop>>

Next ==
    \/ Start \/ SendStop \/ SeeStop \/ Up \/ GuestEnds
    \/ Reboot \/ Crash \/ Retry \/ End \/ Fail

\* Once a stop was noticed the guest ends, and then the unit.
Spec ==
    /\ Init /\ [][Next]_vars
    /\ WF_vars(stop = "seen" /\ GuestEnds)
    /\ WF_vars(stop = "seen" /\ End)
=============================================================================
