------------------------- MODULE ForkDatabaseProofs -------------------------
(***************************************************************************)
(* Proofs about the fork database, for every tree of blocks that satisfies *)
(* TreeAssumption and LibAssumption.                                       *)
(*                                                                         *)
(* The first lemmas are about the tree (ancestors, and the first element   *)
(* of the preference order); then each operation is shown to preserve      *)
(* FdbInv; the theorems about FdbSpec follow.                              *)
(***************************************************************************)
EXTENDS ForkDatabase, WellFoundedInduction, TLAPS

\* A non-empty set of naturals has a smallest element.  Induction on block
\* numbers is used as the search for a smallest counterexample.
LEMMA SmallestNat ==
  ASSUME NEW T, T \subseteq Nat, T # {}
  PROVE  \E x \in T : \A y \in T : x <= y
<1> DEFINE R == {ss \in Nat \X Nat : ss[1] < ss[2]}
<1>1. IsWellFoundedOn(R, Nat)
  BY NatLessThanWellFounded DEF OpToRel
<1> HIDE DEF R
<1>2. PICK x \in T : \A y \in T : ~ (<<y, x>> \in R)
  BY <1>1, WFMin, Zenon
<1>3. \A y \in T : ~ (y < x)
  BY <1>2, Zenon DEF R
<1> QED BY <1>3

-----------------------------------------------------------------------------
\* What the assumptions say of one block.
LEMMA BlockFacts ==
  ASSUME NEW b \in Block
  PROVE  /\ b \in Nat
         /\ Num[b] \in Nat /\ Lib[b] \in Nat
         /\ Lib[b] < Num[b]
BY TreeAssumption, LibAssumption

\* A non-empty set of blocks has a member with the smallest block_num.
LEMMA LowestBlock ==
  ASSUME NEW S \in SUBSET Block, S # {}
  PROVE  \E c \in S : \A d \in S : Num[c] <= Num[d]
<1> DEFINE T == {Num[d] : d \in S}
<1>1. T \subseteq Nat /\ T # {}
  BY BlockFacts
<1>2. PICK n \in T : \A m \in T : n <= m
  BY <1>1, SmallestNat, Zenon
<1> QED BY <1>2

\* A block is its own ancestor, and its previous block is lower.
LEMMA AncStep ==
  ASSUME NEW b \in Block
  PROVE  /\ b \in Anc[b]
         /\ Anc[b] \subseteq Block
         /\ b # Genesis => /\ Prev[b] \in Block
                           /\ Num[b] = Num[Prev[b]] + 1
                           /\ Anc[b] = Anc[Prev[b]] \cup {b}
                           /\ Lib[Prev[b]] <= Lib[b]
BY TreeAssumption, LibAssumption

\* The genesis block is its own only ancestor.
LEMMA AncGenesis == Genesis \in Block /\ Anc[Genesis] = {Genesis}
BY TreeAssumption

\* Ancestry is transitive, and going up a branch neither block_num nor
\* dpos_irreversible_blocknum goes back.
LEMMA AncMonotone ==
  ASSUME NEW b \in Block, NEW a \in Anc[b]
  PROVE  /\ a \in Block /\ Anc[a] \subseteq Anc[b]
         /\ Num[a] <= Num[b] /\ Lib[a] <= Lib[b]
         /\ a # b => Num[a] < Num[b]
<1> DEFINE Good(c) == \A x \in Anc[c] : /\ Anc[x] \subseteq Anc[c]
                                        /\ Num[x] <= Num[c] /\ Lib[x] <= Lib[c]
                                        /\ x # c => Num[x] < Num[c]
           Bad == {c \in Block : ~Good(c)}
<1>1. ASSUME Bad # {} PROVE FALSE
  <2>1. PICK c \in Bad : \A d \in Bad : Num[c] <= Num[d]
    BY <1>1, LowestBlock, Zenon
  <2>2. c # Genesis
    BY <2>1, AncGenesis, BlockFacts
  <2>3. Prev[c] \in Block /\ Num[Prev[c]] < Num[c]
    BY <2>2, AncStep, BlockFacts
  <2>4. Good(Prev[c])
    BY <2>1, <2>3, BlockFacts
  <2>5. Good(c)
    BY <2>2, <2>4, AncStep, BlockFacts
  <2> QED BY <2>1, <2>5
<1>2. Good(b)
  BY <1>1
<1> QED BY <1>2, AncStep

\* The ancestors of a block lie on one branch.
LEMMA AncLinear ==
  ASSUME NEW b \in Block, NEW x \in Anc[b], NEW y \in Anc[b]
  PROVE  x \in Anc[y] \/ y \in Anc[x]
<1> DEFINE Good(c) == \A u, v \in Anc[c] : u \in Anc[v] \/ v \in Anc[u]
           Bad == {c \in Block : ~Good(c)}
<1>1. ASSUME Bad # {} PROVE FALSE
  <2>1. PICK c \in Bad : \A d \in Bad : Num[c] <= Num[d]
    BY <1>1, LowestBlock, Zenon
  <2>2. c # Genesis
    BY <2>1, AncGenesis
  <2>3. Prev[c] \in Block /\ Num[Prev[c]] < Num[c] /\ Anc[c] = Anc[Prev[c]] \cup {c}
    BY <2>2, AncStep, BlockFacts
  <2>4. Good(Prev[c])
    BY <2>1, <2>3, BlockFacts
  <2>5. Good(c)
    BY <2>3, <2>4
  <2> QED BY <2>1, <2>5
<1> QED BY <1>1

-----------------------------------------------------------------------------
\* by_lib_block_num has a first element among any non-empty set of blocks.
LEMMA FirstOfIsFirst ==
  ASSUME NEW S \in SUBSET Block, S # {}
  PROVE  /\ FirstOf(S) \in S
         /\ \A c \in S : ~first_preferred(c, FirstOf(S))
<1>1. PICK N \in Nat : \A b \in Block : Num[b] <= N
  BY TreeAssumption
<1> DEFINE SL == {N - Lib[b] : b \in S}
<1>2. PICK l \in SL : \A y \in SL : l <= y
  <2>1. SL \subseteq Nat /\ SL # {}
    BY <1>1, BlockFacts
  <2> QED BY <2>1, SmallestNat, Zenon
<1>3. PICK p \in S : \A c \in S : Lib[c] <= Lib[p]
  <2>1. PICK p \in S : l = N - Lib[p]
    BY <1>2
  <2>2. \A c \in S : N - Lib[p] <= N - Lib[c]
    BY <1>2, <2>1
  <2> QED BY <2>1, <2>2, <1>1, BlockFacts
<1> DEFINE P == {b \in S : Lib[b] = Lib[p]}
           SN == {N - Num[b] : b \in P}
<1>4. PICK n \in SN : \A y \in SN : n <= y
  <2>1. SN \subseteq Nat /\ SN # {}
    BY <1>1, <1>3, BlockFacts
  <2> QED BY <2>1, SmallestNat, Zenon
<1>5. PICK q \in P : \A c \in P : Num[c] <= Num[q]
  <2>1. PICK q \in P : n = N - Num[q]
    BY <1>4
  <2>2. \A c \in P : N - Num[q] <= N - Num[c]
    BY <1>4, <2>1
  <2> QED BY <2>1, <2>2, <1>1, BlockFacts
<1> DEFINE Q == {b \in P : Num[b] = Num[q]}
<1>6. PICK r \in Q : \A c \in Q : r <= c
  <2>1. Q \subseteq Nat /\ Q # {}
    BY <1>5, BlockFacts
  <2> QED BY <2>1, SmallestNat, Zenon
<1>7. \A c \in S \ {r} : IndexBefore(r, c)
  BY <1>3, <1>5, <1>6, BlockFacts DEF IndexBefore, first_preferred
<1>8. /\ FirstOf(S) \in S
      /\ \A c \in S \ {FirstOf(S)} : IndexBefore(FirstOf(S), c)
  BY <1>6, <1>7 DEF FirstOf
<1> QED
  BY <1>8, BlockFacts DEF IndexBefore, first_preferred
\* first_preferred is the strict part of a total preorder.
LEMMA NotPreferredTransitive ==
  ASSUME NEW a \in Block, NEW b \in Block, NEW c \in Block,
         ~first_preferred(a, b), ~first_preferred(b, c)
  PROVE  ~first_preferred(a, c)
BY BlockFacts DEF first_preferred

-----------------------------------------------------------------------------
(***************************************************************************)
(* The inductive invariant.  Linked and HeadBest are not inductive without *)
(* the whole branch of every block being in the index, because removing a  *)
(* block removes what hangs from it through the index only.                *)
(***************************************************************************)
Rooted(f, b) == f.root \in Anc[b] /\ Anc[b] \ Anc[f.root] \subseteq f.index

FdbInv(f) ==
  /\ f \in ForkDb
  /\ f.validated \subseteq f.index
  /\ f.root \notin f.index
  /\ \A b \in f.index : Rooted(f, b)
  /\ f.head = f.root \/ f.head \in f.validated
  /\ \A v \in f.validated : ~first_preferred(v, f.head)

\* The parts of FdbInv give what the runs check of a fork database.
LEMMA FdbInvImplies ==
  ASSUME NEW f, FdbInv(f)
  PROVE  Linked(f) /\ HeadBest(f)
<1> USE DEF FdbInv, ForkDb, Rooted
<1>1. ASSUME NEW b \in f.index
      PROVE  b # f.root /\ f.root \in Anc[b] /\ get_block_header(f, Prev[b])
  <2>1. b \in Block /\ b # f.root /\ f.root \in Anc[b] /\ Anc[b] \ Anc[f.root] \subseteq f.index
    OBVIOUS
  <2>2. b # Genesis
    BY <2>1, AncGenesis
  <2>3. f.root \in Anc[Prev[b]] /\ Prev[b] \in Anc[b] /\ Prev[b] \in Block
    BY <2>1, <2>2, AncStep
  <2>4. CASE Prev[b] \in Anc[f.root]
    <3>1. Num[Prev[b]] <= Num[f.root] /\ Num[f.root] <= Num[Prev[b]]
      BY <2>3, <2>4, AncMonotone
    <3>2. f.root = Prev[b]
      BY <3>1, <2>3, AncMonotone, BlockFacts
    <3> QED BY <2>1, <3>2 DEF get_block_header
  <2>5. CASE Prev[b] \notin Anc[f.root]
    BY <2>1, <2>3, <2>5 DEF get_block_header
  <2> QED BY <2>1, <2>4, <2>5
<1>2. f.root \in Anc[f.head] /\ Anc[f.head] \ Anc[f.root] \subseteq f.index
  BY AncStep
<1> QED BY <1>1, <1>2 DEF Linked, HeadBest

\* reset leaves a fork database that satisfies the invariant.
LEMMA ResetInv ==
  ASSUME NEW b \in Block
  PROVE  FdbInv(reset(b))
BY DEF FdbInv, ForkDb, reset, Rooted

\* rollback_head_to_root keeps the invariant: nothing is validated, head is the root.
LEMMA RollbackInv ==
  ASSUME NEW f, FdbInv(f)
  PROVE  FdbInv(rollback_head_to_root(f))
BY Zenon DEF FdbInv, ForkDb, rollback_head_to_root, Rooted

\* add of a block that links keeps the invariant, whether or not it moves head.
LEMMA AddInv ==
  ASSUME NEW f, FdbInv(f), NEW b \in Block, Linkable(f, b)
  PROVE  FdbInv(add(f, b))
<1> DEFINE g == add(f, b)
<1>1. /\ f \in ForkDb /\ f.validated \subseteq f.index /\ f.root \notin f.index
      /\ \A c \in f.index : f.root \in Anc[c] /\ Anc[c] \ Anc[f.root] \subseteq f.index
      /\ f.root \in Block /\ f.index \subseteq Block /\ f.head \in Block
  BY DEF FdbInv, ForkDb, Rooted
<1>2. /\ b # Genesis /\ b \notin f.index
      /\ Prev[b] = f.root \/ Prev[b] \in f.index
  BY DEF Linkable, get_block_header
<1>3. Prev[b] \in Block /\ Anc[b] = Anc[Prev[b]] \cup {b} /\ Num[b] = Num[Prev[b]] + 1
  BY <1>2, AncStep
<1>4. f.root \in Anc[Prev[b]]
  BY <1>1, <1>2, AncStep
<1>5. b # f.root
  BY <1>3, <1>4, AncMonotone, BlockFacts
<1>6. /\ g.index = f.index \cup {b} /\ g.validated = f.validated /\ g.root = f.root
      /\ g.head = IF f.validated = {} THEN f.head ELSE FirstOf(f.validated)
      /\ g \in ForkDb
  <2>1. f.validated # {} => FirstOf(f.validated) \in f.validated
    BY <1>1, FirstOfIsFirst DEF ForkDb
  <2> QED BY <1>1, <2>1, Zenon DEF add, ForkDb
<1>7. \A c \in g.index : Rooted(g, c)
  BY <1>1, <1>2, <1>3, <1>4, <1>6 DEF Rooted
<1>8. /\ g.head = g.root \/ g.head \in g.validated
      /\ \A v \in g.validated : ~first_preferred(v, g.head)
  BY <1>1, <1>6, FirstOfIsFirst DEF FdbInv, ForkDb
<1> QED BY <1>1, <1>5, <1>6, <1>7, <1>8 DEF FdbInv

\* mark_valid of any block of the index keeps the invariant.
LEMMA MarkValidInv ==
  ASSUME NEW f, FdbInv(f), NEW b \in f.index
  PROVE  FdbInv(mark_valid(f, b))
<1> DEFINE valid == f.validated \cup {b}
           g == mark_valid(f, b)
<1>1. /\ f \in ForkDb /\ valid \in SUBSET Block /\ valid \subseteq f.index /\ f.head \in Block
      /\ f.index \subseteq Block
  BY DEF FdbInv, ForkDb
<1>2. FirstOf(valid) \in valid /\ \A c \in valid : ~first_preferred(c, FirstOf(valid))
  BY <1>1, FirstOfIsFirst
<1>3. CASE b \in f.validated
  BY <1>3 DEF mark_valid
<1>4. CASE b \notin f.validated
  <2>1. /\ g.index = f.index /\ g.root = f.root /\ g.validated = valid
        /\ g.head = IF first_preferred(FirstOf(valid), f.head) THEN FirstOf(valid) ELSE f.head
        /\ g \in ForkDb
    BY <1>1, <1>2, <1>4, Zenon DEF mark_valid, ForkDb
  <2>2. g.head = g.root \/ g.head \in g.validated
    BY <1>2, <2>1 DEF FdbInv
  <2>3. ASSUME NEW v \in valid PROVE ~first_preferred(v, g.head)
    <3>1. CASE first_preferred(FirstOf(valid), f.head)
      BY <1>2, <2>1, <3>1
    <3>2. CASE ~first_preferred(FirstOf(valid), f.head)
      <4>1. /\ g.head = f.head
            /\ v \in Block /\ FirstOf(valid) \in Block /\ f.head \in Block
            /\ ~first_preferred(v, FirstOf(valid))
        BY <1>1, <1>2, <2>1, <3>2
      <4> QED BY <4>1, <3>2, NotPreferredTransitive
    <3> QED BY <3>1, <3>2
  <2> QED BY <1>1, <2>1, <2>2, <2>3, Zenon DEF FdbInv, Rooted
<1> QED BY <1>3, <1>4

\* remove keeps the invariant: what hangs from the removed block goes with it.
LEMMA RemoveInv ==
  ASSUME NEW f, FdbInv(f), NEW b \in f.index, CanRemove(f, b)
  PROVE  FdbInv(remove(f, b))
<1> DEFINE gone == Subtree(f.index, b)
           g == remove(f, b)
<1>1. /\ f \in ForkDb /\ f.validated \subseteq f.index /\ f.root \notin f.index
      /\ \A c \in f.index : f.root \in Anc[c] /\ Anc[c] \ Anc[f.root] \subseteq f.index
      /\ f.root \in Block /\ f.index \subseteq Block /\ f.head \in Block
  BY DEF FdbInv, ForkDb, Rooted
<1>2. /\ g.index = f.index \ gone /\ g.validated = f.validated \ gone
      /\ g.root = f.root /\ g.head = f.head /\ g \in ForkDb
  BY <1>1, Zenon DEF remove, ForkDb
<1>3. Anc[f.root] \subseteq Anc[b]
  BY <1>1, AncMonotone
<1>4. ASSUME NEW c \in g.index, NEW a \in Anc[c] \ Anc[f.root], a \in gone PROVE FALSE
  <2>1. c \in f.index /\ c \notin gone /\ c \in Block /\ a \in f.index /\ a \in Block
    BY <1>1, <1>2
  <2>2. b \in Anc[a]
    BY <1>4, <2>1, AncStep DEF Subtree
  <2>3. b \in Anc[c]
    BY <2>1, <2>2, AncMonotone
  <2>4. Anc[c] \ Anc[b] \subseteq f.index
    BY <1>1, <1>3, <2>1
  <2> QED BY <2>1, <2>3, <2>4 DEF Subtree
<1>5. \A c \in g.index : Rooted(g, c)
  BY <1>1, <1>2, <1>4 DEF Rooted
<1>6. g.head = g.root \/ g.head \in g.validated
  BY <1>2 DEF FdbInv, CanRemove
<1> QED BY <1>1, <1>2, <1>5, <1>6 DEF FdbInv

\* advance_root keeps exactly what hangs from the new root.
LEMMA AdvanceKeeps ==
  ASSUME NEW f, FdbInv(f), NEW b, CanAdvanceRoot(f, b)
  PROVE  (f.index \ {b}) \ RemovedByAdvance(f, b) = {c \in f.index \ {b} : b \in Anc[c]}
<1> DEFINE rest == f.index \ {b}
<1>1. /\ \A c \in f.index : f.root \in Anc[c] /\ Anc[c] \ Anc[f.root] \subseteq f.index
      /\ f.root \in Block /\ f.index \subseteq Block /\ b \in f.index /\ f.root \notin f.index
  BY DEF FdbInv, ForkDb, Rooted, CanAdvanceRoot
<1>2. f.root \in BlocksToRemove(f, b)
  BY <1>1 DEF BlocksToRemove
<1>3. ASSUME NEW c \in rest, b \notin Anc[c] PROVE c \in RemovedByAdvance(f, b)
  <2>1. f.root \in Anc[c] /\ Anc[c] \ Anc[f.root] \subseteq rest
    BY <1>1, <1>3
  <2>2. c \in Subtree(rest, f.root)
    BY <2>1 DEF Subtree
  <2> QED BY <1>2, <2>2 DEF RemovedByAdvance
<1>4. ASSUME NEW c \in rest, b \in Anc[c], c \in RemovedByAdvance(f, b) PROVE FALSE
  <2>1. PICK a \in BlocksToRemove(f, b) : c \in Subtree(rest, a)
    BY <1>4 DEF RemovedByAdvance
  <2>2. a \in Anc[b] /\ a # b
    BY <1>1, <2>1 DEF BlocksToRemove
  <2>3. b \notin Anc[a]
    BY <1>1, <2>2, AncMonotone, BlockFacts
  <2>4. c # a
    BY <1>4, <2>3
  <2> QED BY <1>4, <2>1, <2>3, <2>4 DEF Subtree
<1> QED BY <1>3, <1>4

\* advance_root to a validated block that does not cut head off keeps the invariant.
LEMMA AdvanceRootInv ==
  ASSUME NEW f, FdbInv(f), NEW b, CanAdvanceRoot(f, b)
  PROVE  FdbInv(advance_root(f, b))
<1> DEFINE g == advance_root(f, b)
<1>1. /\ f \in ForkDb /\ f.validated \subseteq f.index /\ f.root \notin f.index
      /\ \A c \in f.index : f.root \in Anc[c] /\ Anc[c] \ Anc[f.root] \subseteq f.index
      /\ f.root \in Block /\ f.index \subseteq Block /\ f.head \in Block
      /\ b \in f.index /\ b \in f.validated /\ f.head \notin RemovedByAdvance(f, b)
  BY DEF FdbInv, ForkDb, Rooted, CanAdvanceRoot
<1>2. /\ g.index = {c \in f.index \ {b} : b \in Anc[c]}
      /\ g.validated = (f.validated \ {b}) \ RemovedByAdvance(f, b)
      /\ g.root = b /\ g.head = f.head /\ g \in ForkDb
  BY <1>1, AdvanceKeeps, Zenon DEF advance_root, ForkDb
<1>3. g.validated = {c \in f.validated \ {b} : b \in Anc[c]}
  BY <1>1, <1>2, AdvanceKeeps
<1>4. Anc[f.root] \subseteq Anc[b]
  BY <1>1, AncMonotone
<1>5. ASSUME NEW c \in g.index PROVE Rooted(g, c)
  <2>1. c \in f.index /\ c \in Block /\ b \in Anc[c] /\ b \in Block
    BY <1>1, <1>2
  <2>2. ASSUME NEW x \in Anc[c] \ Anc[b] PROVE x \in g.index
    <3>1. x \in f.index
      BY <1>1, <1>4, <2>1, <2>2
    <3>2. b \in Anc[x] /\ x # b
      BY <2>1, <2>2, AncLinear, AncStep
    <3> QED BY <1>2, <3>1, <3>2
  <2> QED BY <1>2, <2>1, <2>2 DEF Rooted
<1>6. g.head = g.root \/ g.head \in g.validated
  <2>1. f.head # f.root
    BY <1>1 DEF RemovedByAdvance, BlocksToRemove, Subtree
  <2>2. f.head \in f.validated
    BY <2>1 DEF FdbInv
  <2> QED BY <1>1, <1>2, <2>2
<1>7. \A v \in g.validated : ~first_preferred(v, g.head)
  BY <1>2, <1>3 DEF FdbInv
<1> QED BY <1>1, <1>2, <1>3, <1>5, <1>6, <1>7 DEF FdbInv

\* A file written from a database that satisfies FdbInv is read back whole: a
\* block is always strictly preferred to its previous block, so close writes
\* the previous block first.
LEMMA InvOpenable ==
  ASSUME NEW f, FdbInv(f)
  PROVE  Openable(f)
<1>1. Linked(f) /\ f \in ForkDb /\ f.validated \subseteq f.index
  BY FdbInvImplies DEF FdbInv
<1>2. ASSUME NEW b \in f.index, Prev[b] # f.root
      PROVE  Prev[b] \in f.index /\ WrittenBefore(f, Prev[b], b)
  <2>1. b \in Block /\ b # Genesis /\ Prev[b] \in f.index
    BY <1>1, <1>2, AncGenesis DEF Linked, get_block_header, ForkDb
  <2>2. first_preferred(b, Prev[b])
    BY <2>1, AncStep, BlockFacts DEF first_preferred
  <2> QED BY <2>1, <2>2 DEF WrittenBefore
<1>3. get_block_header(f, f.head)
  BY <1>1 DEF FdbInv, get_block_header
<1>4. IF f.validated = {} THEN f.head = f.root
                          ELSE ~first_preferred(FirstOf(f.validated), f.head)
  BY FirstOfIsFirst DEF FdbInv, ForkDb
<1> QED BY <1>2, <1>3, <1>4 DEF Openable
-----------------------------------------------------------------------------
IInv == FdbInv(fdb) /\ saved \in BOOLEAN

\* The fork database that startup resets to genesis satisfies the invariant.
LEMMA InitIInv == FdbInit => IInv
BY ResetInv, AncGenesis, Zenon DEF FdbInit, IInv

\* Every operation of the fork database, close and open included, keeps the invariant.
LEMMA NextIInv == IInv /\ [FdbNext]_fvars => IInv'
<1> SUFFICES ASSUME FdbInv(fdb), saved \in BOOLEAN, [FdbNext]_fvars
             PROVE  FdbInv(fdb') /\ saved' \in BOOLEAN
  BY DEF IInv, FdbInv, ForkDb, Rooted
<1>1. ASSUME NEW b \in Block, Add(b) PROVE FdbInv(fdb') /\ saved' \in BOOLEAN
  BY <1>1, AddInv DEF Add
<1>2. ASSUME NEW b \in Block, MarkValid(b) PROVE FdbInv(fdb') /\ saved' \in BOOLEAN
  BY <1>2, MarkValidInv DEF MarkValid
<1>3. ASSUME NEW b \in Block, Remove(b) PROVE FdbInv(fdb') /\ saved' \in BOOLEAN
  BY <1>3, RemoveInv DEF Remove
<1>4. ASSUME NEW b \in Block, AdvanceRoot(b) PROVE FdbInv(fdb') /\ saved' \in BOOLEAN
  BY <1>4, AdvanceRootInv DEF AdvanceRoot
<1>5. ASSUME NEW b \in Block, Reset(b) PROVE FdbInv(fdb') /\ saved' \in BOOLEAN
  BY <1>5, ResetInv DEF Reset
<1>6. CASE RollbackHeadToRoot
  BY <1>6, RollbackInv DEF RollbackHeadToRoot
<1>7. CASE CloseDb
  BY <1>7 DEF CloseDb
<1>8. CASE OpenDb
  BY <1>8, Zenon DEF OpenDb
<1>9. CASE UNCHANGED fvars
  BY <1>9 DEF fvars
<1> QED BY <1>1, <1>2, <1>3, <1>4, <1>5, <1>6, <1>7, <1>8, <1>9 DEF FdbNext

\* The inductive invariant holds in every reachable state of the fork database.
THEOREM FdbInvariant == FdbSpec => []IInv
BY InitIInv, NextIInv, PTL DEF FdbSpec

\* Type correctness of the fork database object: no sequence of calls leaves head
\* at a block that remove or advance_root has erased.
THEOREM FdbTypeCorrect == FdbSpec => []FdbTypeOK
<1>1. IInv => FdbTypeOK
  BY DEF IInv, FdbInv, FdbTypeOK, get_block_header
<1> QED BY <1>1, FdbInvariant, PTL

\* No sequence of add, mark_valid, remove, advance_root, reset, rollback, close
\* and open leaves a block that does not hang from the root.
THEOREM FdbNoOrphan == FdbSpec => []NoOrphan
<1>1. IInv => NoOrphan
  BY FdbInvImplies DEF IInv, NoOrphan
<1> QED BY <1>1, FdbInvariant, PTL

\* head is always the root or a validated block none of the validated ones is
\* preferred to, and its whole branch is in the index.
THEOREM FdbHeadIsBest == FdbSpec => []HeadIsBest
<1>1. IInv => HeadIsBest
  BY FdbInvImplies DEF IInv, HeadIsBest
<1> QED BY <1>1, FdbInvariant, PTL

\* open never refuses a file close wrote.
THEOREM FdbReopens == FdbSpec => []ReopensOwnFile
<1>1. IInv => ReopensOwnFile
  BY InvOpenable DEF IInv, ReopensOwnFile
<1> QED BY <1>1, FdbInvariant, PTL

\* The root is never preferred to a block above it.
LEMMA RootNotPreferred ==
  ASSUME NEW f, FdbInv(f), NEW v \in f.index
  PROVE  ~first_preferred(f.root, v)
<1>1. v \in Block /\ f.root \in Block /\ f.root \in Anc[v]
  BY DEF FdbInv, ForkDb, Rooted
<1>2. Num[f.root] <= Num[v] /\ Lib[f.root] <= Lib[v]
  BY <1>1, AncMonotone
<1> QED BY <1>1, <1>2, BlockFacts DEF first_preferred

\* Only rollback_head_to_root and reset move head to a less preferred block.
THEOREM FdbHeadNeverWorsens == FdbSpec => HeadNeverWorsens
<1> DEFINE Step == fdb'.validated # {} => ~first_preferred(fdb.head, fdb'.head)
<1>1. ASSUME FdbInv(fdb), [FdbNext]_fvars, fdb'.validated # {}
      PROVE  ~first_preferred(fdb.head, fdb'.head)
  <2>0. /\ fdb \in ForkDb /\ fdb.head \in Block /\ fdb.validated \subseteq Block
        /\ fdb.validated \subseteq fdb.index
        /\ fdb.head = fdb.root \/ fdb.head \in fdb.validated
    BY <1>1 DEF FdbInv, ForkDb
  <2>1. ASSUME fdb'.head = fdb.head PROVE ~first_preferred(fdb.head, fdb'.head)
    BY <2>0, <2>1, BlockFacts DEF first_preferred
  <2>2. ASSUME NEW b \in Block, Add(b) PROVE ~first_preferred(fdb.head, fdb'.head)
    <3>1. /\ fdb'.validated = fdb.validated
          /\ fdb'.head = IF fdb.validated = {} THEN fdb.head ELSE FirstOf(fdb.validated)
      BY <2>0, <2>2 DEF Add, add, ForkDb
    <3>2. /\ FirstOf(fdb.validated) \in fdb.validated
          /\ \A c \in fdb.validated : ~first_preferred(c, FirstOf(fdb.validated))
      BY <1>1, <2>0, <3>1, FirstOfIsFirst
    <3> QED BY <1>1, <2>0, <3>1, <3>2, RootNotPreferred
  <2>3. ASSUME NEW b \in Block, MarkValid(b) PROVE ~first_preferred(fdb.head, fdb'.head)
    <3> DEFINE c == FirstOf(fdb.validated \cup {b})
    <3>1. fdb'.head = fdb.head \/ (fdb'.head = c /\ first_preferred(c, fdb.head))
      BY <2>0, <2>3 DEF MarkValid, mark_valid, ForkDb
    <3>2. c \in Block
      BY <2>0, FirstOfIsFirst
    <3>3. CASE fdb'.head = c /\ first_preferred(c, fdb.head)
      BY <2>0, <3>2, <3>3, BlockFacts DEF first_preferred
    <3> QED BY <2>1, <3>1, <3>3
  <2>4. ASSUME NEW b \in Block, Remove(b) \/ AdvanceRoot(b)
        PROVE  ~first_preferred(fdb.head, fdb'.head)
    BY <2>0, <2>1, <2>4, Zenon DEF Remove, remove, AdvanceRoot, advance_root, ForkDb
  <2>5. ASSUME NEW b \in Block, Reset(b) PROVE FALSE
    BY <1>1, <2>5 DEF Reset, reset
  <2>6. CASE RollbackHeadToRoot
    BY <1>1, <2>0, <2>6 DEF RollbackHeadToRoot, rollback_head_to_root, ForkDb
  <2>7. CASE CloseDb \/ OpenDb \/ UNCHANGED fvars
    BY <2>1, <2>7 DEF CloseDb, OpenDb, fvars
  <2> QED BY <1>1, <2>2, <2>3, <2>4, <2>5, <2>6, <2>7 DEF FdbNext
<1>2. IInv /\ [FdbNext]_fvars => [Step]_fvars
  BY <1>1 DEF IInv
<1> QED BY <1>2, FdbInvariant, PTL DEF FdbSpec, HeadNeverWorsens
=============================================================================
