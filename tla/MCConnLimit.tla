---------------------------- MODULE MCConnLimit -----------------------------
(* Instances of ConnLimit for TLC; ConnLimit.cfg gives the constants. *)
EXTENDS ConnLimit
=============================================================================
