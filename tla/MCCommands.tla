----------------------------- MODULE MCCommands -----------------------------
(* Small instances of Commands for TLC. *)
EXTENDS Commands

CONSTANTS c1, c2, v1

OneVm == [c \in Cmds |-> v1]

\* Two lifecycle commands of the same instance.
Lifecycle == [c \in Cmds |-> "vm"]

\* A lifecycle command and a port-forward command of the same instance.
Mixed == [c \in Cmds |-> IF c = c1 THEN "vm" ELSE "fwd"]
=============================================================================
