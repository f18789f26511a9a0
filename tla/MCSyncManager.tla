--------------------------- MODULE MCSyncManager ----------------------------
(***************************************************************************)
(* Two peers.  To sync from: p has three irreversible blocks, q has two    *)
(* blocks, of which only the first is irreversible.  To catch up with      *)
(* heads: p has two blocks and q has three, the first irreversible.        *)
(***************************************************************************)
EXTENDS SyncManager

CONSTANTS p, q

Of(a, b) == [c \in Peer |-> IF c = p THEN a ELSE b]

MCNetworks == {[lib |-> Of(3, 1), head |-> Of(3, 2), lag |-> 2, faults |-> 1],
               [lib |-> Of(1, 1), head |-> Of(2, 3), lag |-> 1, faults |-> 0]}
====
