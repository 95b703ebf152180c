------------------------------ MODULE MCImages ------------------------------
(* Small instances of Images: one official image and one built on the node. *)
EXTENDS Images
CONSTANT vm
=============================================================================
