--------------------------- MODULE MCForkDatabase ---------------------------
(***************************************************************************)
(* A tree of seven blocks for the fork database: two branches that leave   *)
(* block 2, one that leaves the genesis block, equally preferred blocks in *)
(* both id orders, and a longer branch beaten by one of higher             *)
(* dpos_irreversible_blocknum.                                             *)
(*                                                                         *)
(*    1 -- 2 -- 5 -- 4          block       1  2  3  4  5  6  7            *)
(*     \    \-- 3 -- 6          Num         1  2  3  4  3  4  2            *)
(*      \-- 7                   Lib         0  0  0  2  1  2  0            *)
(***************************************************************************)
EXTENDS ForkDatabase

MCBlock == 1..7
MCPrev  == [b \in 2..7 |-> <<1, 2, 5, 2, 3, 1>>[b - 1]]
MCNum   == <<1, 2, 3, 4, 3, 4, 2>>
MCLib   == <<0, 0, 0, 2, 1, 2, 0>>
MCAnc   == LET anc[b \in MCBlock] == IF b = 1 THEN {1} ELSE anc[MCPrev[b]] \cup {b}
           IN  anc
=============================================================================
