------------------------------- MODULE Ledger -------------------------------
(***************************************************************************)
(* What a node promises to whoever reads the chain from it: an irreversible*)
(* log to which linked blocks are only ever appended, and a head that may  *)
(* move anywhere in the tree of blocks but never off that log.             *)
(***************************************************************************)
EXTENDS Naturals, Sequences

CONSTANTS Block, Genesis, Prev, Anc

VARIABLES log, tip

LastLogged == log[Len(log)]

Init == log = <<Genesis>> /\ tip = Genesis

\* The chain moves, forward, back or to another branch, above the log.
Move(b) ==
  /\ LastLogged \in Anc[b]
  /\ tip' = b
  /\ UNCHANGED log

\* The block after the last one of the log becomes irreversible.
Finalize(b, t) ==
  /\ b # Genesis /\ Prev[b] = LastLogged
  /\ b \in Anc[t]
  /\ log' = Append(log, b)
  /\ tip' = t

Next == \E b \in Block : Move(b) \/ \E t \in Block : Finalize(b, t)

Spec == Init /\ [][Next]_<<log, tip>>
=============================================================================
