---------------------------- MODULE MCHeaderState ----------------------------
(***************************************************************************)
(* Small schedules for the header states: two of the same size that        *)
(* replace one another, and one half the size of the other.                *)
(***************************************************************************)
EXTENDS HeaderState

Rotating  == {<<"a", "b">>, <<"b", "c">>}
Shrinking == {<<"a", "b", "c", "d">>, <<"a", "d">>}
=============================================================================
