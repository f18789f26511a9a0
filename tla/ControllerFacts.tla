-------------------------- MODULE ControllerFacts ---------------------------
(***************************************************************************)
(* What the proofs about the controller start from: its inductive          *)
(* invariant CInv, and the facts about the tree of blocks, the fork        *)
(* database and the loops of the handlers that follow from it.             *)
(*                                                                         *)
(* CInv says, loop by loop of the handlers, how the fork database, the     *)
(* block log, head and the branches of a fork switch lie to each other.    *)
(***************************************************************************)
EXTENDS Controller, ForkDatabaseProofs

\* head of the block log.
LogHead == LastOf(blog)

\* The root, or a block of the index that has been applied once.
Valid(f, b) == b = f.root \/ b \in f.validated

\* What a validated block is built on, above the root, is validated.
Closed(f) == \A v \in f.validated : Anc[v] \ Anc[f.root] \subseteq f.validated

\* The block log starts with genesis, has a block of each height and each is
\* built on the one before it.
LogChain ==
  /\ blog \in Seq(Block) /\ blog # <<>>
  /\ \A i \in 1..Len(blog) : Num[blog[i]] = i
  /\ \A i \in 2..Len(blog) : Prev[blog[i]] = blog[i - 1]

\* Where log_irreversible, maybe_switch_forks and apply_block are.
Appending == pc \in {"append", "advance", "advance_throw"}

Logging   == pc = "log" \/ Appending

Switching == pc \in {"pop", "apply", "apply_one", "unwind", "reapply", "empty_back"}

\* head is built on the block log, and on the tree of the fork database.
OnTree == LogHead \in Anc[head] /\ Valid(fdb, head)

(***************************************************************************)
(* While replay() pushes the reversible blocks of fork_db.dat one by one,  *)
(* the fork database's head is already at the end of their branch, so that *)
(* log_irreversible may append blocks that have not been applied again.    *)
(* The next block replay() pushes is refused then, and init fails.         *)
(***************************************************************************)
Lags ==
  /\ mode = "head" /\ ret = "replay" /\ (Appending \/ pc = "replay")
  /\ todo # {} /\ LogHead \notin Anc[head] /\ Len(applied) < Num[LogHead]

\* In irreversible mode only what is being logged is applied.
IrrOK ==
  /\ pc \in {"idle", "replay"} \/ Logging
  /\ fdb.head = head /\ fdb.root \in Anc[head]
  /\ fdb.validated = Anc[head] \ Anc[fdb.root]
  /\ Len(applied) = Num[head]

\* maybe_switch_forks from oh to nh.
SwitchFrom(oh, nh) ==
  /\ newBranch = Anc[nh] \ Anc[oh] /\ oldBranch = Anc[oh] \ Anc[nh]
  /\ Valid(fdb, oh) /\ LogHead \in Anc[oh] /\ LogHead \in Anc[nh]
  /\ pc = "pop" => head \in oldBranch
  /\ pc = "unwind" => head \in newBranch
  /\ pc \in {"pop", "apply", "apply_one"} =>
       /\ get_block_header(fdb, nh)
       /\ ret # "replay" => nh = fdb.head \/ first_preferred(nh, fdb.head)
  /\ ret = "replay" =>
       /\ pc = "apply_one" /\ nh # Genesis /\ Prev[nh] = head /\ oh = head
       /\ nh \in Anc[fdb.head] /\ todo = Anc[fdb.head] \ Anc[nh]

\* A switch of forks happens in head mode only.
SwitchOK == mode = "head" /\ \E oh, nh \in Block : SwitchFrom(oh, nh)

\* What replay() still has to push is what is left of the branch.
ReplayOK == head \in Anc[fdb.head] /\ todo = Anc[fdb.head] \ Anc[head]

\* log_irreversible: head is the fork database's, or on the way to it.
LogOK ==
  /\ Len(applied) = Num[head] /\ (mode = "irreversible" => ret = "idle")
  /\ IF ret = "replay" THEN mode = "head" /\ (ReplayOK \/ Lags) ELSE head = fdb.head

\* The blocks to log lead from the block log head to a block of the fork
\* database, in head mode on the branch of its head.
AppendOK ==
  /\ fdb.root \in Anc[LogHead] /\ LogHead \in Anc[fdb.head]
  /\ pc = "append" =>
       /\ toLog # {}
       /\ \E y \in fdb.index : /\ LogHead \in Anc[y] /\ toLog = Anc[y] \ Anc[LogHead]
                               /\ mode = "head" => y \in Anc[fdb.head]

\* The session of a block that is being produced on top of head.
PendingOK ==
  /\ Len(applied) = Num[head] + 1
  /\ \E b \in Block \ {Genesis} : pending = {b} /\ Prev[b] = head /\ b \notin fdb.index

\* The invariant while the process runs, and after it stopped.
UpOK ==
  /\ OnTree \/ Lags
  /\ committed = Num[LogHead] \/ Lags
  /\ ~Appending => fdb.root = LogHead
  /\ mode = "irreversible" => IrrOK
  /\ Switching => SwitchOK
  /\ Logging => LogOK
  /\ Appending => AppendOK
  /\ pc = "idle" /\ pending # {} => PendingOK
  /\ pc = "replay" => ReplayOK \/ Lags
  /\ pc \in {"replay", "init"} => ret = pc

DownOK ==
  /\ fdb.root = LogHead \/ \E k \in 1..Len(blog) : fdb = reset(blog[k])
  /\ committed = Num[fdb.root] \/ Len(applied) < Num[fdb.root]

\* The types of the variables other than the fork database and the block log.
Typed ==
  /\ saved \in BOOLEAN /\ head \in Block /\ applied \in Seq(Block)
  /\ committed \in 0..Len(applied)
  /\ pending \in SUBSET Mine /\ mode \in Modes
  /\ pc \in Loops /\ ret \in {"idle", "replay", "init"}
  /\ newBranch \subseteq Block /\ oldBranch \subseteq Block
  /\ todo \subseteq Block /\ toLog \subseteq Block
  /\ fails \in 0..MaxFails /\ restarts \in 0..MaxRestarts

\* The inductive invariant.
CInv ==
  /\ Typed /\ FdbInv(fdb) /\ Closed(fdb) /\ LogChain
  /\ ~Replays => todo = {}
  /\ pending # {} => mode = "head" /\ (pc = "idle" \/ (Logging /\ ret = "idle"))
  /\ IF Up THEN UpOK ELSE DownOK

\* startup() goes on from the fork database's head.
StartupKeeps(m) ==
  /\ fdb' = Opened(fdb, m) /\ fdb.root = LogHead /\ head' = fdb'.head /\ pc' = "replay"
  /\ Num[head'] <= Len(applied) /\ \A i \in 1..Num[head'] : applied'[i] = applied[i]

\* startup() goes on from the k-th block of the block log and applies those up to
\* the j-th.
StartupAppends(k, j) ==
  /\ fdb' = reset(blog[j]) /\ head' = blog[j] /\ k <= Len(applied) /\ k < j
  /\ \A i \in 1..k : applied'[i] = applied[i]
  /\ \A i \in k + 1..j : applied'[i] = blog[i]

\* startup() leaves the state of its head.
Started(m) ==
  /\ Len(applied') = Num[head']
  /\ \/ StartupKeeps(m)
     \/ \E k, j \in 1..Len(blog) : fdb = reset(blog[k]) /\ StartupAppends(k, j)

\* So does a startup() that replays the block log from genesis.
Replayed(m) ==
  /\ Len(applied') = Num[head']
  /\ \E j \in 1..Len(blog) :
       /\ head' = blog[j] /\ \A i \in 1..j : applied'[i] = blog[i]
       /\ \/ fdb' = reset(blog[j])
          \/ saved /\ fdb' = Opened(fdb, m) /\ fdb.root = LogHead /\ pc' = "replay"
             /\ head' = LogHead

\* What the two ways to start a node leave.
Restarted ==
  \A m \in Modes : \A n : (Startup(m, n) => Started(m)) /\ (ReplayBlockchain(m, n) => Replayed(m))

-----------------------------------------------------------------------------
(***************************************************************************)
(* Sequences: the block log and the revisions of the state database.       *)
(***************************************************************************)
\* What a sequence holds is in the set it is a sequence over.
LEMMA SeqElement ==
  ASSUME NEW S, NEW s \in Seq(S), NEW i \in 1..Len(s)
  PROVE  s[i] \in S
OBVIOUS

\* A length is a natural number, and zero for the empty sequence alone.
LEMMA SeqLength ==
  ASSUME NEW S, NEW s \in Seq(S)
  PROVE  /\ Len(s) \in Nat /\ DOMAIN s = 1..Len(s)
         /\ s # <<>> => Len(s) # 0
OBVIOUS

\* Append adds the element at the end and leaves the others in place.
LEMMA SeqAppend ==
  ASSUME NEW S, NEW s \in Seq(S), NEW x \in S
  PROVE  /\ Append(s, x) \in Seq(S) /\ Append(s, x) # <<>>
         /\ Len(Append(s, x)) = Len(s) + 1
         /\ \A i \in 1..Len(s) : Append(s, x)[i] = s[i]
         /\ Append(s, x)[Len(s) + 1] = x
<1>1. Append(s, x) \in Seq(S) /\ Len(Append(s, x)) = Len(s) + 1 /\ Append(s, x)[Len(s) + 1] = x
  OBVIOUS
<1>2. \A i \in 1..Len(s) : Append(s, x)[i] = s[i]
  OBVIOUS
<1>3. Append(s, x) # <<>>
  BY <1>1
<1> QED BY <1>1, <1>2, <1>3

\* SubSeq takes the elements from m to n.
LEMMA SeqPart ==
  ASSUME NEW S, NEW s, NEW m \in Int, NEW n \in Int, \A i \in m..n : s[i] \in S
  PROVE  /\ SubSeq(s, m, n) \in Seq(S)
         /\ Len(SubSeq(s, m, n)) = IF m <= n THEN n - m + 1 ELSE 0
         /\ \A i \in 1..n - m + 1 : SubSeq(s, m, n)[i] = s[m + i - 1]
OBVIOUS

\* The elements of the second sequence follow those of the first.
LEMMA SeqJoin ==
  ASSUME NEW S, NEW s \in Seq(S), NEW t \in Seq(S)
  PROVE  /\ s \o t \in Seq(S) /\ Len(s \o t) = Len(s) + Len(t)
         /\ \A i \in 1..Len(s) + Len(t) : (s \o t)[i] = IF i <= Len(s) THEN s[i] ELSE t[i - Len(s)]
OBVIOUS

-----------------------------------------------------------------------------
(***************************************************************************)
(* The tree of blocks.                                                     *)
(***************************************************************************)
\* Of two blocks of a branch the lower one is an ancestor of the other.
LEMMA AncLower ==
  ASSUME NEW b \in Block, NEW x \in Anc[b], NEW y \in Anc[b], Num[x] <= Num[y]
  PROVE  x \in Anc[y]
<1>1. x \in Block /\ y \in Block /\ Num[x] \in Nat /\ Num[y] \in Nat
  BY AncMonotone, BlockFacts
<1>2. CASE y \in Anc[x]
  <2>1. y # x => Num[y] < Num[x]
    BY <1>1, <1>2, AncMonotone
  <2> QED BY <1>1, <2>1, AncStep
<1> QED BY <1>2, AncLinear

\* The ancestors of a block other than itself are lower and less preferred.
LEMMA AncWorse ==
  ASSUME NEW b \in Block, NEW a \in Anc[b], a # b
  PROVE  first_preferred(b, a) /\ ~first_preferred(a, b) /\ b \notin Anc[a]
<1>1. /\ a \in Block /\ Num[a] < Num[b] /\ Lib[a] <= Lib[b]
      /\ Num[a] \in Nat /\ Num[b] \in Nat /\ Lib[a] \in Nat /\ Lib[b] \in Nat
  BY AncMonotone, BlockFacts
<1>2. b \notin Anc[a]
  BY <1>1, AncMonotone
<1> QED BY <1>1, <1>2 DEF first_preferred

\* The first block of the branch from x up to y is built on x.
LEMMA BranchLowest ==
  ASSUME NEW y \in Block, NEW x \in Anc[y], Anc[y] \ Anc[x] # {},
         NEW b, b = Lowest(Anc[y] \ Anc[x])
  PROVE  /\ b \in Anc[y] \ Anc[x] /\ b \in Block /\ b # Genesis /\ Prev[b] = x
         /\ Num[b] = Num[x] + 1 /\ Anc[b] = Anc[x] \cup {b}
         /\ (Anc[y] \ Anc[x]) \ {b} = Anc[y] \ Anc[b]
<1> DEFINE S == Anc[y] \ Anc[x]
<1>1. x \in Block /\ Anc[y] \subseteq Block /\ x \in Anc[x] /\ Anc[x] \subseteq Anc[y]
  BY AncMonotone, AncStep
<1>2. b \in S /\ \A c \in S : Num[b] <= Num[c]
  <2>1. S \in SUBSET Block
    BY <1>1
  <2>2. \E c \in S : \A d \in S : Num[c] <= Num[d]
    BY <2>1, LowestBlock, Zenon
  <2> QED BY <2>2 DEF Lowest
<1>3. b \in Block /\ b \in Anc[y] /\ b \notin Anc[x]
  BY <1>1, <1>2
<1>4. x \in Anc[b]
  BY <1>3, AncLinear
<1>5. b # Genesis
  BY <1>3, <1>4, <1>1, AncGenesis
<1>6. /\ Prev[b] \in Block /\ Num[b] = Num[Prev[b]] + 1 /\ Anc[b] = Anc[Prev[b]] \cup {b}
      /\ Num[Prev[b]] \in Nat /\ Num[b] \in Nat /\ Prev[b] \in Anc[Prev[b]]
  BY <1>3, <1>5, AncStep, BlockFacts, Zenon
<1>7. Prev[b] \in Anc[x]
  <2>1. Prev[b] \in Anc[y]
    <3>1. Anc[b] \subseteq Anc[y]
      BY <1>3, AncMonotone
    <3> QED BY <1>6, <3>1, Zenon
  <2> QED BY <1>2, <1>6, <2>1, SMTT(40)
<1>8. x \in Anc[Prev[b]]
  BY <1>1, <1>3, <1>4, <1>6
<1>9. Prev[b] = x
  BY <1>1, <1>6, <1>7, <1>8, AncWorse
<1>10. S \ {b} = Anc[y] \ Anc[b]
  BY <1>6, <1>9
<1> QED BY <1>3, <1>5, <1>6, <1>9, <1>10

-----------------------------------------------------------------------------
(***************************************************************************)
(* The operations of the fork database, beyond FdbInv.                     *)
(***************************************************************************)
\* The blocks a fork database holds are built on its root; head is one of them
\* that has been validated, or the root.
LEMMA FdbFacts ==
  ASSUME NEW f, FdbInv(f)
  PROVE  /\ f.index \subseteq Block /\ f.validated \subseteq f.index /\ f.root \in Block
         /\ f.head \in Block /\ Valid(f, f.head) /\ f.root \notin f.index
         /\ \A b : Valid(f, b) => get_block_header(f, b)
         /\ \A b : get_block_header(f, b) =>
              b \in Block /\ f.root \in Anc[b] /\ Anc[b] \ Anc[f.root] \subseteq f.index
         /\ \A b \in f.index : b \notin Anc[f.root] /\ b # Genesis
<1>1. /\ f.index \subseteq Block /\ f.validated \subseteq f.index /\ f.root \in Block
      /\ f.head \in Block /\ Valid(f, f.head) /\ f.root \notin f.index
  BY DEF FdbInv, ForkDb, Valid
<1>2. \A b : Valid(f, b) => get_block_header(f, b)
  BY <1>1 DEF Valid, get_block_header
<1>3. ASSUME NEW b, get_block_header(f, b)
      PROVE  b \in Block /\ f.root \in Anc[b] /\ Anc[b] \ Anc[f.root] \subseteq f.index
  <2>1. CASE b = f.root
    BY <1>1, <2>1, AncStep
  <2>2. CASE b \in f.index
    BY <1>1, <2>2 DEF FdbInv, Rooted
  <2> QED BY <1>3, <2>1, <2>2 DEF get_block_header
<1>4. ASSUME NEW b \in f.index PROVE b \notin Anc[f.root] /\ b # Genesis
  <2>1. b \in Block /\ f.root \in Anc[b] /\ b # f.root
    BY <1>1, <1>3 DEF get_block_header
  <2>2. b \notin Anc[f.root]
    BY <1>1, <2>1, AncWorse
  <2>3. b # Genesis
    BY <1>1, <2>1, AncGenesis
  <2> QED BY <2>2, <2>3
<1> QED BY <1>1, <1>2, <1>3, <1>4

\* The validated blocks reach from every valid block down to the root.
LEMMA ClosedDown ==
  ASSUME NEW f, FdbInv(f), Closed(f), NEW v, Valid(f, v), NEW a \in Anc[v] \ Anc[f.root]
  PROVE  a \in f.validated
BY DEF Valid, Closed

\* A block that is the only best one of a set is its first.
LEMMA FirstOfBest ==
  ASSUME NEW S \in SUBSET Block, NEW b \in S, \A c \in S \ {b} : first_preferred(b, c)
  PROVE  FirstOf(S) = b
<1>1. FirstOf(S) \in S /\ ~first_preferred(b, FirstOf(S))
  BY FirstOfIsFirst
<1> QED BY <1>1

\* pending_head is a block the fork database holds, head or one better than it.
LEMMA PendingHeadFacts ==
  ASSUME NEW f, FdbInv(f)
  PROVE  /\ get_block_header(f, pending_head(f))
         /\ pending_head(f) = f.head \/ first_preferred(pending_head(f), f.head)
<1>1. get_block_header(f, f.head)
  BY FdbFacts
<1>2. CASE Unvalidated(f) # {} /\ first_preferred(FirstOf(Unvalidated(f)), f.head)
  <2>1. Unvalidated(f) \in SUBSET Block /\ Unvalidated(f) \subseteq f.index
    BY FdbFacts DEF Unvalidated
  <2>2. FirstOf(Unvalidated(f)) \in f.index
    BY <1>2, <2>1, FirstOfIsFirst
  <2> QED BY <1>2, <2>2 DEF pending_head, get_block_header
<1>3. CASE ~(Unvalidated(f) # {} /\ first_preferred(FirstOf(Unvalidated(f)), f.head))
  BY <1>1, <1>3 DEF pending_head
<1> QED BY <1>2, <1>3

\* reset() leaves a root and nothing else.
LEMMA ResetFacts ==
  ASSUME NEW b \in Block
  PROVE  /\ reset(b).index = {} /\ reset(b).validated = {} /\ reset(b).root = b
         /\ reset(b).head = b /\ pending_head(reset(b)) = b
         /\ FdbInv(reset(b)) /\ Closed(reset(b))
BY ResetInv DEF reset, pending_head, Unvalidated, Closed

\* add() of a block whose previous block is known.
LEMMA AddFacts ==
  ASSUME NEW f, FdbInv(f), Closed(f), NEW b \in Block, Linkable(f, b)
  PROVE  /\ add(f, b).index = f.index \cup {b} /\ add(f, b).validated = f.validated
         /\ add(f, b).root = f.root /\ FdbInv(add(f, b)) /\ Closed(add(f, b))
         /\ f.validated = {} => add(f, b).head = f.head
         /\ f.validated # {} => add(f, b).head = FirstOf(f.validated)
<1>1. /\ add(f, b).index = f.index \cup {b} /\ add(f, b).validated = f.validated
      /\ add(f, b).root = f.root
      /\ f.validated = {} => add(f, b).head = f.head
      /\ f.validated # {} => add(f, b).head = FirstOf(f.validated)
  BY DEF add, FdbInv, ForkDb
<1>2. FdbInv(add(f, b))
  BY AddInv
<1> QED BY <1>1, <1>2 DEF Closed

\* mark_valid() of a block whose previous block is validated.
LEMMA MarkValidFacts ==
  ASSUME NEW f, FdbInv(f), Closed(f), NEW b \in f.index, Valid(f, Prev[b])
  PROVE  LET m == mark_valid(f, b)
         IN  /\ FdbInv(m) /\ Closed(m) /\ m.index = f.index /\ m.root = f.root
             /\ m.validated = f.validated \cup {b}
             /\ b \in f.validated => m = f
<1>0. PICK g : g = mark_valid(f, b)
  OBVIOUS
<1>1. /\ g.index = f.index /\ g.root = f.root /\ g.validated = f.validated \cup {b}
      /\ b \in f.validated => g = f
  BY <1>0 DEF mark_valid, FdbInv, ForkDb
<1>2. FdbInv(g)
  BY <1>0, MarkValidInv
<1>3. b \in Block /\ b # Genesis
  BY FdbFacts
<1>4. Anc[b] = Anc[Prev[b]] \cup {b}
  BY <1>3, AncStep
<1>5. Anc[b] \ Anc[f.root] \subseteq f.validated \cup {b}
  BY <1>4 DEF Valid, Closed
<1>6. Closed(g)
  BY <1>1, <1>5 DEF Closed
<1> QED BY <1>0, <1>1, <1>2, <1>6, Zenon

\* The root can follow the block log: nothing that head is built on is removed.
LEMMA CanAdvance ==
  ASSUME NEW f, FdbInv(f), Closed(f), NEW b, f.root \in Anc[b], b # f.root, b \in Anc[f.head]
  PROVE  CanAdvanceRoot(f, b)
<1>1. f.root \in Block /\ f.head \in Block /\ Valid(f, f.head) /\ b \in Block
  BY FdbFacts, AncMonotone
<1>2. b \notin Anc[f.root]
  BY <1>1, AncWorse
<1>3. b \in f.validated /\ b \in f.index
  BY <1>1, <1>2, ClosedDown, FdbFacts
<1>4. Anc[b] \ Anc[f.root] \subseteq f.index
  BY <1>3, FdbFacts DEF get_block_header
<1>5. ASSUME f.head \in RemovedByAdvance(f, b) PROVE FALSE
  <2>1. PICK a \in BlocksToRemove(f, b) : f.head \in Subtree(f.index \ {b}, a)
    BY <1>5, Zenon DEF RemovedByAdvance
  <2>2. a \in Anc[b] /\ a # b
    BY <2>1 DEF BlocksToRemove
  <2>3. b \notin Anc[a]
    BY <1>1, <2>2, AncWorse
  <2>4. CASE f.head = a
    BY <2>3, <2>4
  <2>5. CASE Anc[f.head] \ Anc[a] \subseteq f.index \ {b}
    BY <2>3, <2>5
  <2> QED BY <2>1, <2>4, <2>5 DEF Subtree
<1> QED BY <1>3, <1>4, <1>5 DEF CanAdvanceRoot

\* What is built on the new root stays.
LEMMA AdvanceFacts ==
  ASSUME NEW f, FdbInv(f), Closed(f), NEW b, f.root \in Anc[b], b # f.root, b \in Anc[f.head]
  PROVE  LET a == advance_root(f, b)
         IN  /\ FdbInv(a) /\ Closed(a) /\ a.root = b /\ a.head = f.head
             /\ a.index = {c \in f.index \ {b} : b \in Anc[c]}
             /\ a.validated = {c \in f.validated \ {b} : b \in Anc[c]}
             /\ \A v \in Block : Valid(f, v) /\ b \in Anc[v] => Valid(a, v)
<1>0. PICK g : g = advance_root(f, b)
  OBVIOUS
<1>1. CanAdvanceRoot(f, b) /\ b \in Block /\ f.root \in Block
  BY CanAdvance, FdbFacts, AncMonotone
<1>2. FdbInv(g)
  BY <1>0, <1>1, AdvanceRootInv
<1>3. (f.index \ {b}) \ RemovedByAdvance(f, b) = {c \in f.index \ {b} : b \in Anc[c]}
  BY <1>1, AdvanceKeeps
<1>4. /\ g.root = b /\ g.head = f.head
      /\ g.index = (f.index \ {b}) \ RemovedByAdvance(f, b)
      /\ g.validated = (f.validated \ {b}) \ RemovedByAdvance(f, b)
  BY <1>0 DEF advance_root, FdbInv, ForkDb
<1>5. f.validated \subseteq f.index
  BY FdbFacts
<1>6. g.validated = {c \in f.validated \ {b} : b \in Anc[c]}
  BY <1>3, <1>4, <1>5
<1>7. ASSUME NEW v \in Block, Valid(f, v), b \in Anc[v] PROVE Valid(g, v)
  <2>1. CASE v = f.root
    BY <1>1, <1>7, <2>1, AncWorse
  <2>2. CASE v \in f.validated
    BY <1>4, <1>6, <1>7, <2>2 DEF Valid
  <2> QED BY <1>7, <2>1, <2>2 DEF Valid
<1>8. ASSUME NEW v \in g.validated, NEW c \in Anc[v] \ Anc[b] PROVE c \in g.validated
  <2>1. v \in f.validated /\ b \in Anc[v] /\ v \in Block
    BY <1>6, <1>5, FdbFacts
  <2>2. c \notin Anc[f.root]
    <3>1. Anc[f.root] \subseteq Anc[b]
      BY <1>1, AncMonotone
    <3> QED BY <1>8, <3>1
  <2>3. c \in f.validated
    BY <2>1, <2>2 DEF Closed
  <2>4. b \in Anc[c] /\ c # b
    <3>1. b \in Anc[c]
      BY <2>1, <1>8, AncLinear
    <3>2. c # b
      BY <1>1, <1>8, AncStep
    <3> QED BY <3>1, <3>2
  <2> QED BY <1>6, <2>3, <2>4
<1>9. Closed(g)
  BY <1>4, <1>8 DEF Closed
<1> QED BY <1>0, <1>2, <1>3, <1>4, <1>6, <1>7, <1>9, Zenon

\* A block on the way to nh, the head to be, does not take the place of nh; nh
\* itself becomes head.
LEMMA MarkValidTowards ==
  ASSUME NEW f, FdbInv(f), Closed(f), NEW b \in f.index, Valid(f, Prev[b]),
         NEW nh \in Block, b \in Anc[nh], nh = f.head \/ first_preferred(nh, f.head)
  PROVE  LET g == mark_valid(f, b)
         IN  /\ nh = g.head \/ first_preferred(nh, g.head)
             /\ b = nh => g.head = nh
<1> DEFINE g == mark_valid(f, b)
           S == f.validated \cup {b}
           c == FirstOf(S)
<1>1. /\ b \in f.validated => g = f
      /\ b \notin f.validated => g.head = IF first_preferred(c, f.head) THEN c ELSE f.head
  BY DEF mark_valid, FdbInv, ForkDb
<1>2. /\ f.head \in Block /\ b \in Block /\ S \in SUBSET Block
      /\ \A v \in f.validated : ~first_preferred(v, f.head) /\ v \in Block
  BY FdbFacts DEF FdbInv
<1>3. c \in S /\ \A d \in S : ~first_preferred(d, c)
  BY <1>2, FirstOfIsFirst
<1>4. ~first_preferred(b, nh)
  <2>1. ~first_preferred(nh, nh)
    BY BlockFacts DEF first_preferred
  <2> QED BY <2>1, AncWorse
<1>5. CASE b \in f.validated
  <2>1. b = nh => ~first_preferred(nh, f.head)
    BY <1>2, <1>5
  <2> QED BY <1>1, <1>5, <2>1
<1>6. CASE b \notin f.validated /\ nh = f.head
  <2>1. ~first_preferred(c, f.head)
    BY <1>2, <1>3, <1>4, <1>6
  <2> QED BY <1>1, <1>6, <2>1
<1>7. CASE b \notin f.validated /\ first_preferred(nh, f.head)
  <2>1. ASSUME NEW v \in f.validated PROVE first_preferred(nh, v)
    <3>1. ~first_preferred(v, f.head) /\ v \in Block
      BY <1>2
    <3>2. /\ Lib[v] \in Nat /\ Num[v] \in Nat /\ Lib[f.head] \in Nat /\ Num[f.head] \in Nat
          /\ Lib[nh] \in Nat /\ Num[nh] \in Nat
      BY <1>2, <3>1, BlockFacts
    <3> QED BY <1>7, <3>1, <3>2 DEF first_preferred
  <2>2. CASE b = nh
    <3>1. c = nh
      BY <1>2, <2>1, <2>2, FirstOfBest
    <3> QED BY <1>1, <1>7, <2>2, <3>1
  <2>3. CASE b # nh
    <3>1. first_preferred(nh, b)
      BY <2>3, AncWorse
    <3> QED BY <1>1, <1>3, <1>7, <2>1, <2>3, <3>1
  <2> QED BY <2>2, <2>3
<1> QED BY <1>5, <1>6, <1>7

-----------------------------------------------------------------------------
(***************************************************************************)
(* What holds in the loops of the handlers.                                *)
(***************************************************************************)
\* The head of the block log is a block, as high as the log is long.
LEMMA LogFacts ==
  ASSUME LogChain
  PROVE  LogHead \in Block /\ Len(blog) \in Nat \ {0} /\ Num[LogHead] = Len(blog)
<1>1. blog \in Seq(Block) /\ blog # <<>>
  BY DEF LogChain
<1>2. Len(blog) \in Nat /\ Len(blog) # 0
  BY <1>1, SeqLength
<1>3. Len(blog) \in 1..Len(blog)
  BY <1>2
<1>4. blog[Len(blog)] \in Block
  BY <1>1, <1>3, SeqElement
<1> QED BY <1>2, <1>3, <1>4 DEF LogChain, LogHead, LastOf

\* What holds in the loops of a fork switch.
LEMMA SwitchFacts ==
  ASSUME CInv, Switching
  PROVE  /\ Typed /\ FdbInv(fdb) /\ Closed(fdb) /\ LogChain /\ (~Replays => todo = {})
         /\ pending = {} /\ mode = "head" /\ OnTree /\ committed = Num[LogHead]
         /\ fdb.root = LogHead /\ LogHead \in Block /\ SwitchOK
         /\ \A oh, nh \in Block : SwitchFrom(oh, nh) =>
              /\ LogHead \in Anc[oh] /\ LogHead \in Anc[nh]
              /\ Anc[LogHead] \subseteq Anc[oh] /\ Anc[LogHead] \subseteq Anc[nh]
<1>1. UpOK /\ ~Lags /\ ~Appending
  BY DEF CInv, Up, Switching, Lags, Appending
<1>2. LogHead \in Block
  BY LogFacts DEF CInv
<1>3. pending = {}
  BY <1>1 DEF CInv, Switching, Logging
<1>4. SwitchOK
  BY <1>1 DEF UpOK
<1>5. ASSUME NEW oh \in Block, NEW nh \in Block, SwitchFrom(oh, nh)
      PROVE  /\ LogHead \in Anc[oh] /\ LogHead \in Anc[nh]
             /\ Anc[LogHead] \subseteq Anc[oh] /\ Anc[LogHead] \subseteq Anc[nh]
  BY <1>5, AncMonotone DEF SwitchFrom
<1> QED BY <1>1, <1>2, <1>3, <1>4, <1>5 DEF CInv, UpOK, SwitchOK

\* Below a valid block other than the root there is another one.
LEMMA OneDown ==
  ASSUME NEW f, FdbInv(f), Closed(f), NEW h, Valid(f, h), h # f.root
  PROVE  h \in Block /\ h # Genesis /\ Prev[h] \in Block /\ f.root \in Anc[Prev[h]]
         /\ Valid(f, Prev[h])
<1>1. h \in f.index /\ h \in Block /\ h # Genesis /\ f.root \in Block /\ f.root \in Anc[h]
  BY FdbFacts DEF Valid, get_block_header
<1>2. Prev[h] \in Block /\ Anc[h] = Anc[Prev[h]] \cup {h} /\ Prev[h] \in Anc[Prev[h]]
  BY <1>1, AncStep
<1>3. f.root \in Anc[Prev[h]]
  BY <1>1, <1>2
<1>4. CASE Prev[h] \in Anc[f.root]
  <2>1. Prev[h] = f.root
    BY <1>1, <1>3, <1>4, AncWorse
  <2> QED BY <1>1, <1>2, <1>3, <2>1 DEF Valid
<1>5. CASE Prev[h] \notin Anc[f.root]
  <2>1. Prev[h] \in f.validated
    BY <1>2, <1>5, ClosedDown
  <2> QED BY <1>1, <1>2, <1>3, <2>1 DEF Valid
<1> QED BY <1>1, <1>2, <1>3, <1>4, <1>5

\* apply_block's effect on the state database.
LEMMA AppendApplied ==
  ASSUME applied \in Seq(Block), committed \in 0..Len(applied), NEW b \in Block
  PROVE  /\ Append(applied, b) \in Seq(Block) /\ committed \in 0..Len(Append(applied, b))
         /\ Len(applied) \in Nat /\ Len(Append(applied, b)) = Len(applied) + 1
<1>1. /\ Append(applied, b) \in Seq(Block) /\ Len(applied) \in Nat
      /\ Len(Append(applied, b)) = Len(applied) + 1
  BY SeqAppend, SeqLength
<1> QED BY <1>1

\* The next block of the new branch: it is held, and built on a valid head.
LEMMA NextFacts ==
  ASSUME CInv, pc \in {"apply_one", "apply"}, NEW oh \in Block, NEW nh \in Block,
         SwitchFrom(oh, nh), NEW b \in newBranch, Prev[b] = head
  PROVE  /\ b \in fdb.index /\ b \in Block /\ b # Genesis /\ b \in Anc[nh] /\ b \notin Anc[oh]
         /\ b \notin Anc[head] /\ Anc[b] = Anc[head] \cup {b} /\ Num[b] = Num[head] + 1
         /\ ret = "replay" => b = nh /\ b \in fdb.validated
<1>1. Switching
  BY DEF Switching
<1>2. /\ FdbInv(fdb) /\ Closed(fdb) /\ fdb.root = LogHead /\ head \in Block
      /\ Anc[LogHead] \subseteq Anc[oh]
  BY <1>1, SwitchFacts DEF Typed
<1>3. /\ newBranch = Anc[nh] \ Anc[oh] /\ get_block_header(fdb, nh)
      /\ ret = "replay" => Prev[nh] = head /\ nh # Genesis /\ oh = head /\ nh \in Anc[fdb.head]
  BY DEF SwitchFrom
<1>4. b \in fdb.index /\ b \in Anc[nh] /\ b \notin Anc[oh] /\ b \notin Anc[fdb.root]
  BY <1>2, <1>3, FdbFacts
<1>5. b \in Block /\ b # Genesis
  BY <1>2, <1>4, FdbFacts
<1>6. Anc[b] = Anc[head] \cup {b} /\ Num[b] = Num[head] + 1 /\ Num[head] \in Nat
  BY <1>2, <1>5, AncStep, BlockFacts
<1>7. b \notin Anc[head]
  <2>1. b \in Anc[head] => Num[b] <= Num[head]
    BY <1>2, AncMonotone
  <2> QED BY <1>6, <2>1
<1>8. ASSUME ret = "replay" PROVE b = nh /\ b \in fdb.validated
  <2>1. Anc[nh] = Anc[head] \cup {nh}
    BY <1>3, <1>8, AncStep
  <2>2. b = nh
    BY <1>4, <1>7, <2>1
  <2>3. Valid(fdb, fdb.head)
    BY <1>2, FdbFacts
  <2> QED BY <1>2, <1>3, <1>4, <1>8, <2>2, <2>3, ClosedDown
<1> QED BY <1>4, <1>5, <1>6, <1>7, <1>8

\* What holds in log_irreversible.
LEMMA LoggingFacts ==
  ASSUME CInv, Logging
  PROVE  /\ Typed /\ FdbInv(fdb) /\ Closed(fdb) /\ LogChain /\ (~Replays => todo = {})
         /\ pending # {} => mode = "head" /\ ret = "idle"
         /\ UpOK /\ LogOK /\ LogHead \in Block /\ Num[LogHead] = Len(blog)
         /\ mode = "irreversible" => IrrOK /\ head = fdb.head
         /\ mode \in {"head", "irreversible"}
<1>1. Up /\ pc # "idle"
  BY DEF Logging, Appending, Up
<1>2. UpOK /\ LogOK
  BY <1>1 DEF CInv, UpOK
<1>3. LogHead \in Block /\ Num[LogHead] = Len(blog)
  BY LogFacts DEF CInv
<1>4. mode = "irreversible" => IrrOK /\ head = fdb.head
  BY <1>2 DEF UpOK, IrrOK
<1> QED BY <1>1, <1>2, <1>3, <1>4, ControllerAssumption DEF CInv, Typed

\* The block the loop of log_irreversible turns to is built on the block log.
LEMMA AppendFacts ==
  ASSUME CInv, pc = "append", NEW b, b = Lowest(toLog)
  PROVE  /\ b \in fdb.index /\ b \in Block /\ b # Genesis /\ Prev[b] = LogHead
         /\ Num[b] = Num[LogHead] + 1 /\ Anc[b] = Anc[LogHead] \cup {b}
         /\ fdb.root \in Anc[b] /\ b \notin Anc[fdb.root]
         /\ \E y \in fdb.index : /\ b \in Anc[y] /\ toLog \ {b} = Anc[y] \ Anc[b]
                                 /\ mode = "head" => y \in Anc[fdb.head] /\ b \in Anc[fdb.head]
<1>1. Logging /\ Appending
  BY DEF Logging, Appending
<1>2. FdbInv(fdb) /\ AppendOK /\ LogHead \in Block
  BY <1>1, LoggingFacts DEF UpOK
<1>3. PICK y \in fdb.index : /\ LogHead \in Anc[y] /\ toLog = Anc[y] \ Anc[LogHead]
                             /\ mode = "head" => y \in Anc[fdb.head]
  BY <1>2 DEF AppendOK
<1>4. y \in Block /\ toLog # {} /\ fdb.root \in Anc[LogHead]
  BY <1>2, FdbFacts DEF AppendOK
<1>5. /\ b \in Anc[y] \ Anc[LogHead] /\ b \in Block /\ b # Genesis /\ Prev[b] = LogHead
      /\ Num[b] = Num[LogHead] + 1 /\ Anc[b] = Anc[LogHead] \cup {b}
      /\ toLog \ {b} = Anc[y] \ Anc[b]
  BY <1>3, <1>4, BranchLowest
<1>6. fdb.root \in Anc[b] /\ b \notin Anc[fdb.root]
  <2>1. Anc[fdb.root] \subseteq Anc[LogHead]
    BY <1>2, <1>4, AncMonotone
  <2> QED BY <1>4, <1>5, <2>1
<1>7. b \in fdb.index
  BY <1>2, <1>5, <1>6, FdbFacts DEF get_block_header
<1>8. mode = "head" => b \in Anc[fdb.head]
  <2>1. fdb.head \in Block
    BY <1>2, FdbFacts
  <2>2. y \in Anc[fdb.head] => Anc[y] \subseteq Anc[fdb.head]
    BY <2>1, AncMonotone
  <2> QED BY <1>3, <1>5, <2>2
<1> QED BY <1>3, <1>5, <1>6, <1>7, <1>8

\* Irreversible mode: what is applied before it is logged becomes the head of
\* the fork database.
LEMMA IrrApply ==
  ASSUME CInv, pc = "append", mode = "irreversible", NEW b, b = Lowest(toLog),
         CanApply(b), ApplyBlock(b)
  PROVE  /\ FdbInv(fdb') /\ Closed(fdb') /\ fdb'.index = fdb.index /\ fdb'.root = fdb.root
         /\ fdb'.head = b /\ head' = b /\ Valid(fdb', b) /\ fdb.root \in Anc[b]
         /\ fdb'.validated = Anc[b] \ Anc[fdb.root] /\ LogHead \in Anc[b]
         /\ applied' \in Seq(Block) /\ Len(applied') = Num[b]
         /\ committed \in 0..Len(applied')
<1>1. Logging
  BY DEF Logging, Appending
<1>2. FdbInv(fdb) /\ Closed(fdb) /\ IrrOK /\ head = fdb.head /\ Typed
  BY <1>1, LoggingFacts
<1>3. /\ b \in fdb.index /\ b \in Block /\ b # Genesis /\ Prev[b] = LogHead
      /\ Num[b] = Num[LogHead] + 1 /\ Anc[b] = Anc[LogHead] \cup {b}
      /\ fdb.root \in Anc[b] /\ b \notin Anc[fdb.root]
  BY AppendFacts
<1>4. /\ Prev[b] = head /\ head = LogHead /\ Len(applied) = Num[head] /\ head \in Block
      /\ LogHead \in Anc[LogHead]
  BY <1>2, <1>3, AncStep DEF CanApply, Revision, Typed
<1>5. fdb' = mark_valid(fdb, b) /\ head' = b /\ applied' = Append(applied, b)
  BY DEF ApplyBlock
<1>6. Valid(fdb, Prev[b])
  BY <1>2, <1>4, FdbFacts, Zenon
<1>7. PICK g : g = mark_valid(fdb, b)
  OBVIOUS
<1>8. /\ FdbInv(g) /\ Closed(g) /\ g.index = fdb.index /\ g.root = fdb.root
      /\ g.validated = fdb.validated \cup {b}
  <2>1. FdbInv(fdb) /\ Closed(fdb) /\ b \in fdb.index
    BY <1>2, <1>3, Zenon
  <2> QED BY <1>6, <1>7, <2>1, MarkValidFacts, Zenon
<1>9. g.head = b
  <2>1. first_preferred(b, fdb.head)
    <3>1. head \in Anc[b] /\ head # b
      <4>1. Num[b] \in Nat /\ Num[head] \in Nat
        BY <1>3, <1>4, BlockFacts
      <4> QED BY <1>3, <1>4, <4>1
    <3> QED BY <1>2, <1>3, <3>1, AncWorse
  <2>2. b \in Anc[b]
    BY <1>3, AncStep
  <2> QED BY <1>2, <1>3, <1>6, <1>7, <2>1, <2>2, MarkValidTowards
<1>10. g.validated = Anc[b] \ Anc[fdb.root]
  BY <1>2, <1>3, <1>4, <1>8, Zenon DEF IrrOK
<1>11. /\ applied' \in Seq(Block) /\ committed \in 0..Len(applied')
       /\ Len(applied') = Num[b]
  BY <1>2, <1>3, <1>4, <1>5, AppendApplied, Zenon DEF Typed
<1>12. Valid(g, b)
  BY <1>8, Zenon DEF Valid
<1> QED BY <1>3, <1>4, <1>5, <1>7, <1>8, <1>9, <1>10, <1>11, <1>12, Zenon

\* What holds between handlers.
LEMMA IdleFacts ==
  ASSUME CInv, pc = "idle"
  PROVE  /\ Typed /\ FdbInv(fdb) /\ Closed(fdb) /\ LogChain /\ (~Replays => todo = {})
         /\ OnTree /\ committed = Num[LogHead] /\ fdb.root = LogHead /\ LogHead \in Block
         /\ pending # {} => mode = "head" /\ PendingOK
         /\ mode = "irreversible" => IrrOK
<1>1. UpOK /\ ~Appending /\ ~Lags
  BY DEF CInv, Up, Appending, Lags
<1>2. LogHead \in Block
  BY LogFacts DEF CInv
<1> QED BY <1>1, <1>2 DEF CInv, UpOK

\* pop_block's assertion holds, and there is a revision to undo.
LEMMA PopFacts ==
  ASSUME CInv, PopBlock
  PROVE  /\ get_block_header(fdb, Prev[head]) /\ head # Genesis /\ head \in Block
         /\ pending = {} /\ committed < Num[head]
<1>1. pc \in {"pop", "unwind"} /\ Switching
  BY Zenon DEF PopBlock, Switching
<1>2. /\ Typed /\ FdbInv(fdb) /\ Closed(fdb) /\ pending = {} /\ OnTree /\ committed = Num[LogHead]
      /\ fdb.root = LogHead /\ LogHead \in Block /\ SwitchOK
  BY <1>1, SwitchFacts
<1>3. PICK oh \in Block, nh \in Block : SwitchFrom(oh, nh)
  BY <1>2, Zenon DEF SwitchOK
<1>4. head # LogHead
  BY <1>1, <1>3, Zenon DEF SwitchFrom
<1>5. head \in Block /\ head # Genesis /\ Valid(fdb, Prev[head])
  BY <1>2, <1>4, OneDown, Zenon DEF OnTree
<1>6. get_block_header(fdb, Prev[head])
  BY <1>2, <1>5, FdbFacts, Zenon
<1>7. Num[LogHead] < Num[head]
  BY <1>2, <1>4, <1>5, AncMonotone DEF OnTree
<1> QED BY <1>2, <1>5, <1>6, <1>7, Zenon

\* A block that is removed because it failed does not carry the fork database's
\* head, if it failed by itself.
LEMMA CanRemoveFailed ==
  ASSUME CInv, NEW b, ApplyFails(b), Len(applied) = Num[head]
  PROVE  CanRemove(fdb, b)
<1>1. pc \in {"apply_one", "apply"} /\ Switching /\ b \in newBranch /\ Prev[b] = head
  BY Zenon DEF ApplyFails, Switching
<1>2. FdbInv(fdb) /\ Closed(fdb) /\ SwitchOK
  BY <1>1, SwitchFacts, Zenon
<1>3. PICK oh \in Block, nh \in Block : SwitchFrom(oh, nh)
  BY <1>2 DEF SwitchOK
<1>4. b \in fdb.index /\ b \in Block
  BY <1>1, <1>3, NextFacts
<1>5. b \notin fdb.validated
  BY <1>1, Zenon DEF ApplyFails, CanApply, Revision
<1>6. ASSUME fdb.head \in Subtree(fdb.index, b) PROVE FALSE
  <2>1. b \in Anc[fdb.head] /\ b \notin Anc[fdb.root]
    BY <1>2, <1>4, <1>6, AncStep, FdbFacts, Zenon DEF Subtree
  <2>2. Valid(fdb, fdb.head)
    BY <1>2, FdbFacts, Zenon
  <2>3. b \in fdb.validated
    BY <1>2, <2>1, <2>2, ClosedDown
  <2> QED BY <1>5, <2>3
<1> QED BY <1>6 DEF CanRemove

\* What maybe_switch_forks starts from, once fdb' is the fork database.
LEMMA SwitchBegins ==
  ASSUME NEW nh \in Block, NEW r \in {"idle", "replay", "init"}, MaybeSwitchForks(nh, r),
         FdbInv(fdb'), Valid(fdb', head), get_block_header(fdb', nh), fdb'.root = LogHead,
         head' = head, blog' = blog, committed' = committed, mode' = mode, pending' = {},
         mode = "head", committed = Num[LogHead],
         r # "replay" => nh = fdb'.head \/ first_preferred(nh, fdb'.head),
         r = "replay" => /\ nh # Genesis /\ Prev[nh] = head /\ nh \in Anc[fdb'.head]
                         /\ todo' = Anc[fdb'.head] \ Anc[nh]
  PROVE  /\ UpOK' /\ pc' \in Loops \ {"down"} /\ ret' = r
         /\ newBranch' \subseteq Block /\ oldBranch' \subseteq Block
<1>1. LogHead' = LogHead /\ LogHead \in Anc[head] /\ LogHead \in Anc[nh] /\ head \in Block
  BY FdbFacts DEF LogHead
<1>2. OnTree'
  BY <1>1 DEF OnTree
<1>3. /\ newBranch' = Anc[nh] \ Anc[head] /\ oldBranch' = Anc[head] \ Anc[nh] /\ ret' = r
      /\ pc' = IF nh = head THEN r
               ELSE IF Prev[nh] = head THEN "apply_one"
               ELSE IF oldBranch' # {} THEN "pop"
               ELSE "apply"
  BY DEF MaybeSwitchForks, fetch_branch_from
<1>4. r = "replay" => nh # head
  <2>1. nh # Genesis => Num[nh] = Num[Prev[nh]] + 1 /\ Num[Prev[nh]] \in Nat
    BY AncStep, BlockFacts
  <2> QED BY <2>1
<1>5. oldBranch' # {} => head \in oldBranch'
  <2>1. head \in Anc[nh] => Anc[head] \subseteq Anc[nh]
    BY AncMonotone, Zenon
  <2> QED BY <1>1, <1>3, <2>1, AncStep
<1>6. SwitchFrom(head, nh)' \/ pc' \in {"idle", "init"}
  BY <1>1, <1>3, <1>4, <1>5, Zenon DEF SwitchFrom
<1>7. Switching' => SwitchOK'
  BY <1>1, <1>6, Zenon DEF Switching, SwitchOK
<1>8. pc' \in {"apply_one", "pop", "apply", "idle", "init"} /\ (pc' = "init" => ret' = pc')
  BY <1>3, <1>4
<1>9. UpOK'
  BY <1>1, <1>2, <1>7, <1>8 DEF UpOK, Appending, Logging
<1>10. newBranch' \subseteq Block /\ oldBranch' \subseteq Block
  BY <1>1, <1>3, AncStep
<1> QED BY <1>3, <1>8, <1>9, <1>10 DEF Loops

\* A handler that has been left, in normal operation or out of init.
LEMMA Leaves ==
  ASSUME Typed', FdbInv(fdb'), Closed(fdb'), LogChain', ~Replays => todo' = {}, pending' = {},
         fdb'.root = LogHead', pc' \in {"idle", "down"},
         pc' = "idle" => /\ OnTree' /\ committed' = Num[LogHead']
                         /\ mode' = "irreversible" => IrrOK',
         pc' = "down" => committed' = Num[LogHead'] \/ Len(applied') < Num[LogHead']
  PROVE  CInv'
<1>1. CASE pc' = "idle"
  <2>1. UpOK'
    BY <1>1 DEF UpOK, Appending, Switching, Logging
  <2> QED BY <1>1, <2>1 DEF CInv, Up
<1>2. CASE pc' = "down"
  <2>1. DownOK'
    BY <1>2 DEF DownOK
  <2> QED BY <1>2, <2>1 DEF CInv, Up
<1> QED BY <1>1, <1>2

\* chainbase's undo takes one revision off, none that is committed.
LEMMA UndoFacts ==
  ASSUME applied \in Seq(Block), committed \in 0..Len(applied)
  PROVE  /\ Undo(applied) \in Seq(Block) /\ committed \in 0..Len(Undo(applied))
         /\ Len(applied) \in Nat
         /\ Len(Undo(applied)) = IF Len(applied) > committed THEN Len(applied) - 1 ELSE Len(applied)
<1>1. Len(applied) \in Nat
  BY SeqLength
<1>2. CASE Len(applied) > committed
  <2> DEFINE n == Len(applied) - 1
  <2>1. n \in Nat /\ 1 \in Int /\ n \in Int /\ \A i \in 1..n : i \in 1..Len(applied)
    BY <1>1, <1>2
  <2>2. \A i \in 1..n : applied[i] \in Block
    BY <2>1, SeqElement
  <2> HIDE DEF n
  <2>3. /\ SubSeq(applied, 1, n) \in Seq(Block)
        /\ Len(SubSeq(applied, 1, n)) = IF 1 <= n THEN n - 1 + 1 ELSE 0
    BY <2>1, <2>2, SeqPart
  <2>4. Len(SubSeq(applied, 1, n)) = n
    BY <2>1, <2>3
  <2> USE DEF n
  <2> QED BY <1>1, <1>2, <2>3, <2>4 DEF Undo
<1>3. CASE ~(Len(applied) > committed)
  BY <1>1, <1>3 DEF Undo
<1> QED BY <1>1, <1>2, <1>3

-----------------------------------------------------------------------------
(***************************************************************************)
(* The invariants of what the state database and head are worth.           *)
(*                                                                         *)
(* They do not hold of every node.  A producing node whose blog.append     *)
(* throws drops the session of a block that is head already (Sound rules it*)
(* out), and a node that is started again with a branch it has not executed*)
(* may find it invalid half way (Steady and Resident are the two ways to   *)
(* rule it out).                                                           *)
(***************************************************************************)
\* Appends to the block log do not fail, or the node does not produce.
Sound == MaxFails = 0 \/ Mine = {}
\* Blocks execute.
Steady == MayFail = {}
\* The process is not started again.
Resident == MaxRestarts = 0

\* The revision of the state database is on par with head; the one session that
\* is open beyond it is that of the block being produced.
LenInv ==
  /\ Up /\ pending = {} => Len(applied) = Num[head]
  /\ Logging /\ pending # {} => pending = {head}
  /\ pc = "advance_throw" => pending = {}

\* The assertions on the revision of the state database, and the one of
\* commit_block on the block it produced.
StateAssertions == {"remove head", "revision is not head"}
ProducedAssertion == {"produced block is not head"}

\* No block of the fork database is preferred to h.
Quiet(f, h) == \A u \in f.index : ~first_preferred(u, h)

\* During a switch from oh to nh only nh may be preferred to oh; when a block of
\* the new branch has failed, nh is gone.
QuietSwitch(oh, nh) ==
  /\ newBranch = Anc[nh] \ Anc[oh] /\ oldBranch = Anc[oh] \ Anc[nh]
  /\ \A u \in fdb.index \ {nh} : ~first_preferred(u, oh)
  /\ pc \in {"pop", "apply", "apply_one"} => nh \in fdb.index /\ ~first_preferred(oh, nh)
  /\ pc \in {"unwind", "reapply"} => nh \notin fdb.index
  /\ pc = "apply_one" => head = oh /\ Prev[nh] = oh
  /\ pc # "apply_one" => oldBranch # {}

\* A node that is never started again is on the best block it knows, between
\* handlers and when it logs.
ResidentInv ==
  /\ pc \notin {"down", "replay", "init", "empty_back"} /\ ret = "idle"
  /\ mode = "head" /\ ~Switching => Quiet(fdb, head)
  /\ Switching => \E oh, nh \in Block : QuietSwitch(oh, nh)

\* The fork database's head is the only best of the validated blocks.
Tight(f) == \A v \in f.validated \ {f.head} : first_preferred(f.head, v)

\* During a switch to nh no block is preferred to nh, which is not validated yet.
SteadySwitch(nh) ==
  /\ nh \in newBranch /\ nh \in fdb.index \ fdb.validated /\ newBranch \subseteq Anc[nh]
  /\ \A v \in fdb.validated : first_preferred(nh, v)
  /\ first_preferred(nh, fdb.head)
  /\ Quiet(fdb, nh)

\* As long as blocks execute, the heads are the same between handlers, and no
\* switch is ever given up.
SteadyInv ==
  /\ invalid = {} /\ pc \notin {"unwind", "reapply", "empty_back"}
  /\ ~Switching \/ ret = "replay" => Tight(fdb)
  /\ pc \in {"idle", "init"} => head = fdb.head
  /\ Switching /\ ret # "replay" => \E nh \in Block : SteadySwitch(nh)

\* The first Num[h] revisions of s are the branch that ends in h.
Chain(s, h) == \A i \in 1..Num[h] : s[i] \in Anc[h] /\ Num[s[i]] = i

\* The state database holds head's chain; when the node is stopped, head is on
\* the branch that fork_db.dat calls head.
ChainInv ==
  /\ Up \/ saved => Chain(applied, head)
  /\ ~Up /\ saved => head \in Anc[fdb.head] /\ Len(applied) = Num[head]
  /\ ~Up /\ ~saved => committed = 0
  /\ Up /\ ret = "replay" => head \in Anc[fdb.head]
  /\ pc = "idle" => \A b \in pending : applied[Num[head] + 1] = b

\* head is the best block known: that of the fork database, in irreversible mode
\* the block log head.  A fork database that was rolled back to its root is what
\* init starts the best branch from.
BestInv ==
  /\ Up /\ mode = "irreversible" => head = LogHead
  /\ Up /\ mode = "head" /\ ~Switching /\ (pc = "idle" \/ ret # "replay") => Quiet(fdb, fdb.head)
  /\ ~Up \/ ret = "replay" => fdb.head = fdb.root \/ Quiet(fdb, fdb.head)

\* What the fork database's head makes irreversible is in the block log, between
\* handlers and while replay() is under way: there is nothing to log then that has
\* not been applied again.
LoggedInv ==
  /\ pc \in {"idle", "init", "replay", "advance"} \/ (~Up /\ saved) \/ ret = "replay"
       => Lib[fdb.head] <= Num[LogHead]
  /\ pc = "append" /\ mode = "head" => \E y \in toLog : Lib[fdb.head] <= Num[y]
  /\ pc = "advance_throw" => mode = "irreversible"
  /\ Up /\ ret = "replay" => ~Appending /\ LogHead \in Anc[head]

\* The two kinds of node whose state database stays with head.
Calm == SteadyInv \/ (Resident /\ ResidentInv)

\* Everything a producing node undoes was done above what is committed.
LEMMA UndoOne ==
  ASSUME Typed, NEW n \in Nat, Len(applied) = n + 1, committed <= n
  PROVE  Len(Undo(applied)) = n
<1>1. applied \in Seq(Block) /\ committed \in Nat /\ Len(applied) > committed
  BY DEF Typed
<1>2. Undo(applied) = SubSeq(applied, 1, n)
  BY <1>1 DEF Undo
<1>3. Len(SubSeq(applied, 1, n)) = n
  BY <1>1, SeqPart
<1> QED BY <1>2, <1>3

\* A block is being produced on top of head.
LEMMA ProducingFacts ==
  ASSUME CInv, pc = "idle", pending # {}
  PROVE  /\ Typed /\ Len(applied) = Num[head] + 1 /\ Num[head] \in Nat /\ committed <= Num[head]
         /\ OnTree /\ mode = "head" /\ FdbInv(fdb) /\ Closed(fdb) /\ head \in Block
         /\ \E b \in Block \ {Genesis} : pending = {b} /\ Prev[b] = head /\ b \notin fdb.index
<1>1. Up /\ UpOK /\ Typed /\ mode = "head" /\ FdbInv(fdb) /\ Closed(fdb) /\ LogChain
  BY DEF CInv, Up
<1>2. ~Lags
  BY DEF Lags, Appending
<1>3. OnTree /\ committed = Num[LogHead] /\ PendingOK
  BY <1>1, <1>2 DEF UpOK
<1>4. head \in Block /\ Num[head] \in Nat
  BY <1>1, BlockFacts DEF Typed
<1>5. Num[LogHead] <= Num[head]
  BY <1>3, <1>4, AncMonotone DEF OnTree
<1> QED BY <1>1, <1>3, <1>4, <1>5 DEF PendingOK

\* A block of the old branch is one higher than the one it is built on.
LEMMA ReapplyFacts ==
  ASSUME CInv, NEW b, Reapply(b)
  PROVE  /\ b \in Block /\ b # Genesis /\ Num[b] = Num[head] + 1 /\ pending = {} /\ Typed
         /\ b \in fdb.validated /\ fdb' = fdb /\ Anc[b] = Anc[head] \cup {b}
<1>1. pc = "reapply" /\ Switching /\ b \in oldBranch /\ Prev[b] = head
  BY DEF Reapply, Switching
<1>2. /\ Typed /\ FdbInv(fdb) /\ Closed(fdb) /\ pending = {} /\ SwitchOK
      /\ fdb.root = LogHead /\ LogHead \in Block
  BY <1>1, SwitchFacts
<1>3. PICK oh \in Block, nh \in Block : SwitchFrom(oh, nh)
  BY <1>2 DEF SwitchOK
<1>4. b \in Anc[oh] /\ b \notin Anc[nh] /\ LogHead \in Anc[nh] /\ Valid(fdb, oh)
  BY <1>1, <1>3 DEF SwitchFrom
<1>5. b \in Block /\ b # Genesis
  <2>1. LogHead \in Anc[oh] /\ Anc[LogHead] \subseteq Anc[nh] /\ LogHead \in Anc[LogHead]
    BY <1>2, <1>3, <1>4, AncMonotone, AncStep DEF SwitchFrom
  <2>2. LogHead \in Anc[b] \/ b \in Anc[LogHead]
    BY <1>4, <2>1, AncLinear
  <2>3. b # Genesis
    BY <1>4, <2>1, <2>2, AncGenesis
  <2> QED BY <1>4, <2>3, AncMonotone
<1>6. b \notin Anc[LogHead]
  BY <1>4, AncMonotone
<1>7. b \in fdb.validated
  BY <1>2, <1>4, <1>6, ClosedDown
<1>8. Num[b] = Num[head] + 1 /\ Anc[b] = Anc[head] \cup {b}
  BY <1>1, <1>5, AncStep
<1>9. fdb' = fdb
  BY <1>7 DEF Reapply, ApplyBlock, mark_valid
<1> QED BY <1>2, <1>5, <1>7, <1>8, <1>9

\* No block of a branch fails: it is built on head, the revision is on par, and
\* blocks execute.
LEMMA SteadyNoFail ==
  ASSUME CInv, SteadyInv, LenInv, NEW b, ApplyFails(b)
  PROVE  FALSE
<1>1. pc \in {"apply_one", "apply"} /\ Switching /\ Up /\ Prev[b] = head /\ ~CanApply(b)
  BY Zenon DEF ApplyFails, Switching, Up
<1>2. pending = {}
  BY <1>1, SwitchFacts
<1>3. Revision = Num[head]
  BY <1>1, <1>2 DEF LenInv, Revision
<1> QED BY <1>1, <1>3 DEF CanApply, SteadyInv

\* A node that is stopped while it waits is one whose heads agree; only a node that
\* is not starting up gives a switch up.
LEMMA CalmFacts ==
  ASSUME CInv, LenInv, Calm
  PROVE  /\ Shutdown => head = fdb.head
         /\ \A b : ApplyFails(b) \/ Reapply(b) => ret = "idle"
         /\ EmptyBack => ret = "idle"
<1>1. CASE SteadyInv
  BY <1>1, SteadyNoFail DEF SteadyInv, Shutdown, Reapply, EmptyBack
<1>2. CASE Resident /\ ResidentInv
  <2>1. ~(restarts < MaxRestarts)
    BY <1>2 DEF CInv, Typed, Resident
  <2> QED BY <1>2, <2>1 DEF ResidentInv, Shutdown
<1> QED BY <1>1, <1>2 DEF Calm

\* replay() pushes a block its fork database has validated.
LEMMA ReplayedIsKnown ==
  ASSUME CInv, ReplayPushBlock
  PROVE  /\ fdb' = fdb /\ ret = "replay" /\ ret' = "replay"
         /\ pc' = "down" \/ pc' = "apply_one"
<1>1. pc = "replay" /\ todo # {} /\ Up /\ ~Appending
  BY Zenon DEF ReplayPushBlock, Up, Appending
<1>2. /\ FdbInv(fdb) /\ UpOK /\ LogHead \in Block
  BY <1>1, LogFacts DEF CInv
<1>3. fdb.root = LogHead /\ ret = "replay" /\ (ReplayOK \/ Lags)
  BY <1>1, <1>2 DEF UpOK
<1>4. PICK b : b = Lowest(todo)
  OBVIOUS
<1>5. IF Prev[b] = head /\ get_block_header(fdb, Prev[b])
      THEN /\ fdb' = IF b \in fdb.index THEN fdb ELSE add(fdb, b)
           /\ MaybeSwitchForks(b, "replay")
      ELSE Throw /\ fdb' = fdb /\ ret' = ret
  BY <1>4, Zenon DEF ReplayPushBlock
<1>6. CASE ~(Prev[b] = head /\ get_block_header(fdb, Prev[b]))
  <2>1. Throw /\ fdb' = fdb /\ ret' = ret
    BY <1>5, <1>6
  <2> QED BY <1>3, <2>1 DEF Throw
<1>7. CASE Prev[b] = head /\ get_block_header(fdb, Prev[b])
  <2>1. LogHead \in Anc[head]
    BY <1>2, <1>3, <1>7, FdbFacts
  <2>2. ReplayOK
    BY <1>3, <2>1 DEF Lags
  <2>3. /\ fdb.head \in Block /\ get_block_header(fdb, fdb.head) /\ head \in Anc[fdb.head]
        /\ todo = Anc[fdb.head] \ Anc[head]
    BY <1>2, <2>2, FdbFacts DEF ReplayOK
  <2>4. b \in Anc[fdb.head] \ Anc[head] /\ b \in Block
    BY <1>1, <1>4, <2>3, BranchLowest
  <2>5. b \in fdb.index
    <3>1. Anc[fdb.root] \subseteq Anc[head] /\ head \in Block
      BY <1>3, <2>1, <2>3, AncMonotone
    <3> QED BY <1>2, <2>3, <2>4, <3>1, FdbFacts, Zenon
  <2>6. b # head
    BY <2>3, <2>4, AncMonotone, AncStep
  <2> QED BY <1>3, <1>5, <1>7, <2>5, <2>6 DEF MaybeSwitchForks
<1> QED BY <1>6, <1>7

=============================================================================
