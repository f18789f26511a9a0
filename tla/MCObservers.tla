---------------------------- MODULE MCObservers -----------------------------
(***************************************************************************)
(* Three transactions over the first nine blocks of the tree of            *)
(* MCController.  t1 is in a block of both branches, the last that may     *)
(* have it; t2 is on one of them only; t3 is in blocks this node may       *)
(* produce.                                                                *)
(***************************************************************************)
EXTENDS MCController, Observers

OBlock == MCBlock \ {10}
OPrev  == [b \in OBlock \ {1} |-> MCPrev[b]]
ONum   == [b \in OBlock |-> MCNum[b]]
OLib   == [b \in OBlock |-> MCLib[b]]
OAnc   == [b \in OBlock |-> MCAnc[b]]

MCTxs == [b \in OBlock |-> CASE b \in {4, 5} -> {"t1"} [] b = 6 -> {"t2"}
                              [] b \in {8, 9} -> {"t3"} [] OTHER -> {}]
MCExpiry == [t \in {"t1", "t2", "t3"} |-> IF t = "t3" THEN 9 ELSE 4]
MCDepth  == [t \in {"t1", "t2", "t3"} |-> IF t = "t2" THEN 1 ELSE 99]
OneTime(n) == [spacing |-> 0, start |-> n, end |-> n]
MCRequests == {OneTime(3)}
=============================================================================
