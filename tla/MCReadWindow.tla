---------------------------- MODULE MCReadWindow ----------------------------
(* Instances of ReadWindow for TLC. *)
EXTENDS ReadWindow
=============================================================================
