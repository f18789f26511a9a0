---------------------------- MODULE MCController ----------------------------
(***************************************************************************)
(* A tree of ten blocks for the controller.  Block 6 reaches a higher      *)
(* dpos_irreversible_blocknum at a lower height than the branch of 4, and  *)
(* 5 and 4 are equally preferred.  Block 8 makes two blocks irreversible   *)
(* at once; 10 is a second child of 4.  With MCConflict the branch of 7    *)
(* claims to have made block 5 irreversible, and those of 8 and 10 have    *)
(* made block 3 irreversible.                                              *)
(*                                                                         *)
(*    1 -- 2 -- 3 -- 4 -- 8      block    1  2  3  4  5  6  7  8  9 10     *)
(*         |          \-- 10     Num      1  2  3  4  4  3  5  5  3  5     *)
(*         |-- 6 -- 5 -- 7       Lib      0  0  1  2  2  1  2  4  0  3     *)
(*         \-- 9                                                           *)
(***************************************************************************)
EXTENDS Controller

MCBlock == 1..10
MCPrev  == [b \in 2..10 |-> <<1, 2, 3, 6, 2, 5, 4, 2, 4>>[b - 1]]
MCNum   == <<1, 2, 3, 4, 4, 3, 5, 5, 3, 5>>
MCLib   == <<0, 0, 1, 2, 2, 1, 2, 4, 0, 3>>
MCConflict == <<0, 0, 1, 2, 2, 1, 4, 3, 0, 3>>
MCAnc   == LET anc[b \in MCBlock] == IF b = 1 THEN {1} ELSE anc[MCPrev[b]] \cup {b}
           IN  anc
=============================================================================
