----------------------------- MODULE HeaderState -----------------------------
(***************************************************************************)
(* Block header states (libraries/chain/block_header_state.cpp) along one  *)
(* branch: how confirmations make a block proposed irreversible, how the   *)
(* producers' implied views make it irreversible, and how a producer       *)
(* schedule goes from proposed (global_property_object) to pending to      *)
(* active.                                                                 *)
(*                                                                         *)
(* A step is a whole block: the header state `next` computes, what         *)
(* controller_impl::start_block does with the proposed schedule, and what  *)
(* a transaction of the block proposes (controller::set_proposed_producers)*)
(* A schedule is the sequence of its producers; slots may be missed.       *)
(***************************************************************************)
EXTENDS Integers, Sequences, FiniteSets

CONSTANTS Producer,
          First,       \* the producer of the genesis schedule
          Schedule,    \* the schedules that may be proposed
          MaxTracked,  \* maximum_tracked_dpos_confirmations
          Repetitions, \* producer_repetitions: slots a producer has in a row
          AnyRange,    \* whether a header may confirm any range that is accepted,
                       \* or only the one its producer computes
          MaxMissed,   \* bound: slots missed between two blocks
          MaxNum       \* bound: the highest block number looked at

\* No producer is listed twice ("duplicate producer name in producer schedule").
Unique(S) == \A i, j \in DOMAIN S : S[i] = S[j] => i = j

ASSUME HeaderAssumption ==
  /\ First \in Producer /\ IsFiniteSet(Producer)
  /\ Schedule \subseteq Seq(Producer) \ {<<>>}
  /\ \A S \in Schedule : Unique(S)
  /\ MaxTracked \in Nat \ {0} /\ Repetitions \in Nat \ {0}
  /\ AnyRange \in BOOLEAN /\ MaxMissed \in Nat /\ MaxNum \in Nat \ {0}

VARIABLES hs,          \* the head's block_header_state
          gpo,         \* the proposed schedule; num = 0 when there is none
          confirmers,  \* history: who has confirmed each height
          needed,      \* history: the confirmations each height started from
          badVersion   \* TRUE when "wrong producer schedule version" was thrown
hvars == <<hs, gpo, confirmers, needed, badVersion>>

\* The producer whose slot t is.
get_scheduled_producer(h, t) ==
  h.active[(t % (Len(h.active) * Repetitions)) \div Repetitions + 1]

Members(S) == {S[i] : i \in DOMAIN S}

required_confs(n) == ((n * 2) \div 3) + 1

Override(f, p, v) == [q \in DOMAIN f \cup {p} |-> IF q = p THEN v ELSE f[q]]

(***************************************************************************)
(* calc_dpos_last_irreversible: one third into the producers' implied      *)
(* views, sorted from low to high (nth_element).                           *)
(***************************************************************************)
\* (mutant) the median
half_way(h, p) ==
  LET views == Override(h.implied, p, h.proposed)
      index == Cardinality(DOMAIN views) \div 2
  IN  CHOOSE v \in {views[q] : q \in DOMAIN views} :
        /\ Cardinality({q \in DOMAIN views : views[q] < v}) <= index
        /\ Cardinality({q \in DOMAIN views : views[q] <= v}) > index

calc_dpos_last_irreversible(h, p) ==
  LET P     == DOMAIN h.implied
      views == [q \in P |-> IF q = p THEN h.proposed ELSE h.implied[q]]
      index == (Cardinality(P) - 1) \div 3
  IN  IF P = {} THEN 0
      ELSE CHOOSE v \in {views[q] : q \in P} :
             /\ Cardinality({q \in P : views[q] < v}) <= index
             /\ Cardinality({q \in P : views[q] <= v}) > index

(***************************************************************************)
(* The confirmation window: the new block's count enters at the end (the   *)
(* oldest leaves when the window is full), the last c + 1 counts are       *)
(* decremented from the end, and the first that reaches zero makes its     *)
(* block proposed irreversible and drops it and what is before it.         *)
(***************************************************************************)
\* (mutant) the oldest count stays when the window is full
unbounded_window(h) == Append(h.confirm, required_confs(Len(h.active)))

Window(h) ==
  LET w == Append(h.confirm, required_confs(Len(h.active)))
  IN  IF Len(h.confirm) < MaxTracked THEN w ELSE Tail(w)

Confirm(h, c) ==
  LET w    == Window(h)
      L    == Len(w)
      zero == {i \in 1..L : i >= L - c /\ w[i] = 1}
      m    == CHOOSE i \in zero : \A j \in zero : j <= i
      down == [i \in 1..L |-> IF i >= L - c THEN w[i] - 1 ELSE w[i]]
  IN  IF zero = {} THEN [confirm |-> down, proposed |-> h.proposed]
      ELSE [confirm |-> SubSeq(down, m + 1, L), proposed |-> h.num + 1 - (L - m)]

\* A producer may not confirm a height it has confirmed before on this branch
\* ("double-confirming known range").
\* (mutant) not checked
may_confirm_again(h, p, c) == TRUE

CanConfirm(h, p, c) == p \in DOMAIN h.last => h.last[p] < h.num + 1 - c

\* What a producer confirms whose last block is on this branch: everything since
\* that block that is not irreversible yet (producer_plugin start_block).
blocks_to_confirm(h, p) ==
  LET since == IF p \in DOMAIN h.last THEN h.num - h.last[p] ELSE 0
  IN  IF since < h.num - h.irr THEN since ELSE h.num - h.irr

\* (mutant) a newcomer starts from zero
newcomer_from_zero(f, irr, S) == [q \in Members(S) |-> IF q \in DOMAIN f THEN f[q] ELSE 0]

\* A producer's entry in the maps of a schedule that becomes active: what it
\* was, or the last irreversible block for a newcomer.
Carried(f, irr, S) == [q \in Members(S) |-> IF q \in DOMAIN f THEN f[q] ELSE irr]

\* block_header_state::next, for a block of p in slot t that confirms the c
\* blocks before it.
next(h, t, p, c) ==
  LET irr     == calc_dpos_last_irreversible(h, p)
      promote == h.pending # <<>> /\ irr >= h.pendingLib
      S       == IF promote THEN h.pending ELSE h.active
      cnf     == Confirm(h, c)
  IN  [h EXCEPT
        !.num = h.num + 1, !.slot = t, !.irr = irr,
        !.confirm = cnf.confirm, !.proposed = cnf.proposed,
        !.active = S,
        !.activeVersion = IF promote THEN h.pendingVersion ELSE h.activeVersion,
        !.pending = IF promote THEN <<>> ELSE h.pending,
        !.last = Override(IF promote THEN Carried(h.last, irr, S) ELSE h.last, p, h.num + 1),
        !.implied = IF promote
                    THEN [q \in Members(S) |-> IF q = p THEN h.proposed
                                      ELSE Carried(h.implied, irr, S)[q]]
                    ELSE Override(h.implied, p, h.proposed)]

(***************************************************************************)
(* start_block: a schedule proposed in a block that is now irreversible    *)
(* becomes pending, if none was pending before this block.                 *)
(***************************************************************************)
NoProposal == [num |-> 0, producers |-> <<>>, version |-> 0]

TakesProposal(h, n) == gpo.num # 0 /\ gpo.num <= n.irr /\ h.pending = <<>>

\* _finish_next, with the new pending schedule the header carries.
finish_next(n) ==
  [n EXCEPT !.pending = gpo.producers, !.pendingVersion = gpo.version, !.pendingLib = n.num]

(***************************************************************************)
(* set_proposed_producers, called in block n on top of h, when g is what   *)
(* start_block left of the proposal.  (An empty schedule, which is refused *)
(* once disallow_empty_producer_schedule is active, is not proposed.)      *)
(***************************************************************************)
\* (mutant) always the version after the active schedule's
version_of_active(g, h, n, S) ==
  IF S = <<>> \/ g.num # 0 THEN g
  ELSE [num |-> n.num, producers |-> S, version |-> n.activeVersion + 1]

set_proposed_producers(g, h, n, S) ==
  LET waiting == IF TakesProposal(h, n) THEN gpo.producers ELSE h.pending
      version == IF TakesProposal(h, n) THEN gpo.version ELSE h.pendingVersion
  IN  IF \/ S = <<>>
         \/ g.num # 0
         \/ S = IF waiting = <<>> THEN n.active ELSE waiting
      THEN g
      ELSE [num |-> n.num, producers |-> S,
            version |-> 1 + IF waiting = <<>> THEN n.activeVersion ELSE version]

-----------------------------------------------------------------------------
\* The next block, in slot t, confirming the c blocks before it (there are not
\* more than hs.num of them); S is the schedule a transaction of it proposes,
\* <<>> for none.
NextBlock(t, c, S) ==
  /\ hs.num < MaxNum /\ ~badVersion
  /\ LET p == get_scheduled_producer(hs, t)
         n == next(hs, t, p, c)
         takes == TakesProposal(hs, n)
     IN  /\ CanConfirm(hs, p, c) /\ (AnyRange \/ c = blocks_to_confirm(hs, p))
         /\ IF takes /\ gpo.version # hs.activeVersion + 1
            THEN badVersion' = TRUE /\ UNCHANGED <<hs, gpo, confirmers, needed>>
            ELSE
              /\ hs' = IF takes THEN finish_next(n) ELSE n
              /\ gpo' = set_proposed_producers(IF takes THEN NoProposal ELSE gpo, hs, n, S)
              /\ confirmers' = [k \in 1..MaxNum |->
                                  IF k \in n.num - c .. n.num THEN confirmers[k] \cup {p}
                                                              ELSE confirmers[k]]
              /\ needed' = [needed EXCEPT ![n.num] = required_confs(Len(hs.active))]
              /\ UNCHANGED badVersion

\* initialize_blockchain_state: the genesis schedule is both active and pending.
HdrInit ==
  /\ hs = [num |-> 1, slot |-> 0, proposed |-> 0, irr |-> 0, confirm |-> <<>>,
           last |-> <<>>, implied |-> <<>>,
           active |-> <<First>>, activeVersion |-> 0,
           pending |-> <<First>>, pendingVersion |-> 0, pendingLib |-> 0]
  /\ gpo = NoProposal
  /\ confirmers = [k \in 1..MaxNum |-> {}] /\ needed = [k \in 1..MaxNum |-> 0]
  /\ badVersion = FALSE

HdrNext ==
  \E t \in hs.slot + 1 .. hs.slot + 1 + MaxMissed, c \in 0..hs.num, S \in Schedule \cup {<<>>} :
    NextBlock(t, c, S)

HdrSpec == HdrInit /\ [][HdrNext]_hvars

-----------------------------------------------------------------------------
Heights == 0..MaxNum

\* The header state is well formed: the maps have an entry for exactly the
\* producers the irreversibility calculation has to count, a count never
\* reaches or passes zero (uint8_t), and the window fits.
HdrTypeOK ==
  /\ {hs.num, hs.proposed, hs.irr, hs.pendingLib} \subseteq Heights
  /\ hs.active \in Seq(Producer) /\ hs.active # <<>> /\ hs.pending \in Seq(Producer)
  /\ hs.confirm \in Seq(1..required_confs(Cardinality(Producer)))
  /\ Len(hs.confirm) <= MaxTracked
  /\ hs.num > 1 => DOMAIN hs.implied = Members(hs.active) /\ Members(hs.active) \subseteq DOMAIN hs.last

\* The counts are exact: what is left to confirm of each height of the window
\* is what it needed less the number of different producers that have
\* confirmed it, whatever ranges they confirmed and however the schedule and
\* the window have changed meanwhile.  So the proposed irreversible block has
\* been confirmed by more than two thirds of the schedule of its height.
CountsAreExact ==
  /\ \A i \in 1..Len(hs.confirm) :
       LET k == hs.num - Len(hs.confirm) + i
       IN  k > hs.proposed /\ hs.confirm[i] = needed[k] - Cardinality(confirmers[k])
  /\ hs.proposed > 0 => Cardinality(confirmers[hs.proposed]) >= needed[hs.proposed]

\* What is irreversible was proposed irreversible, and more than two thirds of
\* the active producers have built on it as such (or joined after it).
LibHasSupermajority ==
  /\ hs.irr <= hs.proposed /\ hs.proposed <= hs.num
  /\ hs.num > 1 =>
       3 * Cardinality({q \in Members(hs.active) : hs.implied[q] >= hs.irr}) > 2 * Len(hs.active)

\* The last irreversible block, and the proposed one, never go back along a
\* branch.
LibNeverBack == [][hs'.irr >= hs.irr /\ hs'.proposed >= hs.proposed]_hvars

\* A schedule that is taken from the proposal always carries the version that
\* follows the active one ("wrong producer schedule version specified").
VersionsFollow == ~badVersion
=============================================================================
