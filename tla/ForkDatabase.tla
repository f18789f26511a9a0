---------------------------- MODULE ForkDatabase ----------------------------
(***************************************************************************)
(* The fork database (libraries/chain/fork_database.cpp): the tree of      *)
(* reversible blocks a node holds above its last irreversible block.       *)
(*                                                                         *)
(* Every operation of fork_database_impl is an operator from one value of  *)
(* the database to the next, so that the state machine of this module and  *)
(* the controller, which makes several calls in one step, use the same     *)
(* definitions.  A call that would throw is a call whose guard (Linkable,  *)
(* CanRemove, CanAdvanceRoot, Openable) is false.                          *)
(*                                                                         *)
(* Block ids are integers: the id only matters as the last tie break of    *)
(* the index (sha256_less).  What a block header says is fixed by its id,  *)
(* so previous, block_num and dpos_irreversible_blocknum are constant      *)
(* functions.                                                              *)
(***************************************************************************)
EXTENDS Integers

CONSTANTS Block,    \* the block ids that may ever be seen
          Genesis,  \* the id of the first block
          Prev,     \* Prev[b]: id of the block b builds on (none for Genesis)
          Num,      \* Num[b]: block_num
          Lib,      \* Lib[b]: dpos_irreversible_blocknum of b's header state
          Anc       \* Anc[b]: b and the blocks below it, down to Genesis

(***************************************************************************)
(* Blocks form a tree rooted in Genesis; Anc is the reflexive transitive   *)
(* closure of Prev.  Block numbers are bounded (uint32_t).                 *)
(***************************************************************************)
ASSUME TreeAssumption ==
  /\ Block \subseteq Nat
  /\ Genesis \in Block
  /\ Prev \in [Block \ {Genesis} -> Block]
  /\ Num \in [Block -> Nat \ {0}]
  /\ \E m \in Block : \A b \in Block : Num[b] <= Num[m]
  /\ Anc \in [Block -> SUBSET Block]
  /\ Anc[Genesis] = {Genesis}
  /\ \A b \in Block \ {Genesis} :
       /\ Num[b] = Num[Prev[b]] + 1
       /\ Anc[b] = Anc[Prev[b]] \cup {b}

(***************************************************************************)
(* What the header states promise about dpos_irreversible_blocknum on one  *)
(* branch: it is below the block's own number and does not go back (the    *)
(* latter as long as no schedule shrinks to producers that lag: see        *)
(* LibNeverBack in HeaderState).                                           *)
(***************************************************************************)
ASSUME LibAssumption ==
  /\ Lib \in [Block -> Nat]
  /\ \A b \in Block : Lib[b] < Num[b]
  /\ \A b \in Block \ {Genesis} : Lib[Prev[b]] <= Lib[b]

-----------------------------------------------------------------------------
(***************************************************************************)
(* index: the blocks of the multi_index; validated: those of them whose    *)
(* `validated` flag is set.                                                *)
(***************************************************************************)
ForkDb == [index : SUBSET Block, validated : SUBSET Block, root : Block, head : Block]

first_preferred(a, b) ==
  \/ Lib[a] > Lib[b]
  \/ Lib[a] = Lib[b] /\ Num[a] > Num[b]

\* The order of by_lib_block_num within one value of `validated`.
IndexBefore(a, b) ==
  \/ first_preferred(a, b)
  \/ ~first_preferred(b, a) /\ a < b

\* The first element of by_lib_block_num among the blocks of S.
FirstOf(S) == CHOOSE b \in S : \A c \in S \ {b} : IndexBefore(b, c)

Unvalidated(f) == f.index \ f.validated

\* Whether the root or the index holds a block.
get_block_header(f, id) == id = f.root \/ id \in f.index

reset(b) == [index |-> {}, validated |-> {}, root |-> b, head |-> b]

rollback_head_to_root(f) == [f EXCEPT !.validated = {}, !.head = f.root]

Linkable(f, b) == b # Genesis /\ get_block_header(f, Prev[b]) /\ b \notin f.index

(***************************************************************************)
(* add: a new, not yet validated block; head is then read again off the    *)
(* front of the index, whatever it was before.                             *)
(***************************************************************************)
add(f, b) ==
  [f EXCEPT !.index = f.index \cup {b},
            !.head  = IF f.validated = {} THEN f.head ELSE FirstOf(f.validated)]

(***************************************************************************)
(* mark_valid: unlike add, it only moves head to a block that is strictly  *)
(* preferred.                                                              *)
(***************************************************************************)
mark_valid_any(f, b) ==
  IF b \in f.validated THEN f ELSE [f EXCEPT !.validated = f.validated \cup {b}, !.head = b]

mark_valid_no_head(f, b) == [f EXCEPT !.validated = f.validated \cup {b}]

\* (mutant) head moves, the flag is not set
mark_valid_no_flag(f, b) == [f EXCEPT !.head = IF first_preferred(b, f.head) THEN b ELSE f.head]

mark_valid(f, b) ==
  LET valid     == f.validated \cup {b}
      candidate == FirstOf(valid)
  IN  IF b \in f.validated THEN f
      ELSE [f EXCEPT !.validated = valid,
                     !.head = IF first_preferred(candidate, f.head) THEN candidate ELSE f.head]

\* What the breadth-first walk of remove_impl collects from b: b and the
\* blocks of S that hang from it through blocks of S.
Subtree(S, b) == {b} \cup {c \in S : b \in Anc[c] /\ Anc[c] \ Anc[b] \subseteq S}

\* (mutant) without the assertion that head is not among the removed blocks
can_remove_any(f, b) == TRUE

CanRemove(f, b) == f.head \notin Subtree(f.index, b)

remove_one(f, b) == [f EXCEPT !.index = f.index \ {b}, !.validated = f.validated \ {b}]

remove_nothing(f, b) == f

remove(f, b) ==
  [f EXCEPT !.index = f.index \ Subtree(f.index, b),
            !.validated = f.validated \ Subtree(f.index, b)]

(***************************************************************************)
(* advance_root: the new root leaves the index first; then every block     *)
(* below it, down to the old root, is removed with whatever hangs from it. *)
(* The new root is out of the index by then, so what hangs from it stays.  *)
(***************************************************************************)
BlocksToRemove(f, b) == ((Anc[b] \ Anc[f.root]) \cup {f.root}) \ {b}

RemovedByAdvance(f, b) == UNION {Subtree(f.index \ {b}, a) : a \in BlocksToRemove(f, b)}

CanAdvanceRoot(f, b) ==
  /\ b \in f.index /\ b \in f.validated
  /\ f.root \in Anc[b] /\ Anc[b] \ Anc[f.root] \subseteq f.index
  /\ f.head \notin RemovedByAdvance(f, b)

\* (mutant) what hangs from the blocks below the new root stays
advance_keeps_forks(f, b) ==
  [f EXCEPT !.index = f.index \ Anc[b], !.validated = f.validated \ Anc[b], !.root = b]

advance_root(f, b) ==
  [f EXCEPT !.index     = (f.index \ {b}) \ RemovedByAdvance(f, b),
            !.validated = (f.validated \ {b}) \ RemovedByAdvance(f, b),
            !.root      = b]

\* The best block known, validated or not.
pending_head(f) ==
  IF Unvalidated(f) # {} /\ first_preferred(FirstOf(Unvalidated(f)), f.head)
  THEN FirstOf(Unvalidated(f))
  ELSE f.head

\* fetch_branch: the blocks from h down to the root whose number is at most n.
fetch_branch(f, h, n) == {a \in Anc[h] \cap f.index : Num[a] <= n}

\* One side of fetch_branch_from: the blocks of a's branch above the last
\* block it shares with b's.
fetch_branch_from(a, b) == Anc[a] \ Anc[b]

(***************************************************************************)
(* close writes the blocks from the least to the most preferred: a merge   *)
(* of the unvalidated and the validated part of the index, each read       *)
(* backwards, that writes an unvalidated block first only when the         *)
(* validated one is strictly preferred to it.  open adds them back in that *)
(* order, so each needs its previous block before it.                      *)
(***************************************************************************)
written_backwards(f, a, b) == first_preferred(a, b)

WrittenBefore(f, a, b) ==
  \/ first_preferred(b, a)
  \/ /\ ~first_preferred(a, b)
     /\ IF (a \in f.validated) = (b \in f.validated) THEN b < a ELSE a \in f.validated

Openable(f) ==
  /\ \A b \in f.index : \/ Prev[b] = f.root
                        \/ Prev[b] \in f.index /\ WrittenBefore(f, Prev[b], b)
  /\ get_block_header(f, f.head)
  /\ IF f.validated = {} THEN f.head = f.root
                         ELSE ~first_preferred(FirstOf(f.validated), f.head)

-----------------------------------------------------------------------------
VARIABLES fdb,   \* the fork_database_impl object; meaningless while closed
          saved  \* TRUE while fdb is the content of fork_db.dat
fvars == <<fdb, saved>>

FdbInit == fdb = reset(Genesis) /\ saved = FALSE

Add(b) ==
  /\ ~saved /\ Linkable(fdb, b)
  /\ fdb' = add(fdb, b)
  /\ UNCHANGED saved

MarkValid(b) ==
  /\ ~saved /\ b \in fdb.index
  /\ fdb' = mark_valid(fdb, b)
  /\ UNCHANGED saved

Remove(b) ==
  /\ ~saved /\ b \in fdb.index /\ CanRemove(fdb, b)
  /\ fdb' = remove(fdb, b)
  /\ UNCHANGED saved

AdvanceRoot(b) ==
  /\ ~saved /\ CanAdvanceRoot(fdb, b)
  /\ fdb' = advance_root(fdb, b)
  /\ UNCHANGED saved

\* The end of a replay that outran the fork database (controller_impl::replay).
Reset(b) ==
  /\ ~saved /\ fdb.root \in Anc[b]
  /\ fdb' = reset(b)
  /\ UNCHANGED saved

RollbackHeadToRoot ==
  /\ ~saved
  /\ fdb' = rollback_head_to_root(fdb)
  /\ UNCHANGED saved

\* close writes the content to the file and clears the object.
CloseDb ==
  /\ ~saved
  /\ saved' = TRUE
  /\ UNCHANGED fdb

\* open reads the file back and deletes it.
OpenDb ==
  /\ saved /\ Openable(fdb)
  /\ saved' = FALSE
  /\ UNCHANGED fdb

FdbNext ==
  \/ \E b \in Block : Add(b) \/ MarkValid(b) \/ Remove(b) \/ AdvanceRoot(b) \/ Reset(b)
  \/ RollbackHeadToRoot
  \/ CloseDb
  \/ OpenDb

FdbSpec == FdbInit /\ [][FdbNext]_fvars

-----------------------------------------------------------------------------
(***************************************************************************)
(* Properties.                                                             *)
(***************************************************************************)
\* fdb is a fork_database_impl object: `validated` is a flag of the elements of
\* the index, and head refers to the root or to an element, never to one that
\* remove or advance_root has erased.
FdbTypeOK ==
  /\ fdb \in ForkDb /\ saved \in BOOLEAN
  /\ fdb.validated \subseteq fdb.index
  /\ get_block_header(fdb, fdb.head)

\* add_impl's "unlinkable block" check, remove_impl's walk and advance_root's
\* choice of what to keep together leave no orphan: every block of the index
\* hangs from the root through blocks of the index ("invariant violation:
\* orphaned branch was present in forked database").
Linked(f) ==
  \A b \in f.index : /\ b # f.root
                     /\ f.root \in Anc[b]
                     /\ get_block_header(f, Prev[b])
NoOrphan == Linked(fdb)

\* head is the root or a validated block, no validated block is preferred to
\* it, and the whole branch from the root to it is there for log_irreversible
\* and for a fork switch to walk.
HeadBest(f) ==
  /\ f.head = f.root \/ f.head \in f.validated
  /\ \A v \in f.validated : ~first_preferred(v, f.head)
  /\ f.root \in Anc[f.head] /\ Anc[f.head] \ Anc[f.root] \subseteq f.index
HeadIsBest == HeadBest(fdb)

\* open_impl never refuses, nor fails to link, a file that close_impl wrote.
ReopensOwnFile == saved => Openable(fdb)

\* Except where the code gives the head up on purpose (rollback_head_to_root,
\* reset), no call moves head to a block less preferred than the one it was on.
HeadNeverWorsens ==
  [][fdb'.validated # {} => ~first_preferred(fdb.head, fdb'.head)]_fvars
=============================================================================
