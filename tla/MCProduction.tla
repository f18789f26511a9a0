---------------------------- MODULE MCProduction ----------------------------
(***************************************************************************)
(* Small instances of Production for TLC.                                  *)
(***************************************************************************)
EXTENDS Production

\* The node produces for the second position of the schedule.
One == {1}
=============================================================================
