------------------------ MODULE ControllerStepProofs ------------------------
(***************************************************************************)
(* The steps of a running controller keep the invariant: a block is pushed,*)
(* the fork switch it may start, log_irreversible, and production; for     *)
(* every tree of blocks, every set of blocks that fail and every number of *)
(* failed appends.                                                         *)
(***************************************************************************)
EXTENDS ControllerFacts

-----------------------------------------------------------------------------
(***************************************************************************)
(* The steps of a fork switch, and of log_irreversible.                    *)
(***************************************************************************)
\* A branch has a block of every height from genesis on.
LEMMA AncAtHeight ==
  ASSUME NEW b \in Block, NEW n \in 1..Num[b]
  PROVE  \E a \in Anc[b] : Num[a] = n
<1> DEFINE Reaches(x) == \A k \in 1..Num[x] : \E a \in Anc[x] : Num[a] = k
           bad == {x \in Block : ~Reaches(x)}
<1>1. ASSUME bad # {} PROVE FALSE
  <2>1. PICK x \in bad : \A d \in bad : Num[x] <= Num[d]
    BY <1>1, LowestBlock, Zenon
  <2>2. x \in Block /\ x \in Anc[x] /\ Num[x] \in Nat
    BY <2>1, AncStep, BlockFacts
  <2>3. PICK k \in 1..Num[x] : \A a \in Anc[x] : Num[a] # k
    BY <2>1
  <2>4. x # Genesis
    BY <2>2, <2>3, AncGenesis, ControllerAssumption
  <2>5. /\ Prev[x] \in Block /\ Num[x] = Num[Prev[x]] + 1 /\ Anc[x] = Anc[Prev[x]] \cup {x}
        /\ Num[Prev[x]] \in Nat
    BY <2>2, <2>4, AncStep, BlockFacts
  <2>6. k # Num[x]
    BY <2>2, <2>3
  <2>7. k \in 1..Num[Prev[x]]
    BY <2>2, <2>5, <2>6
  <2>8. Prev[x] \notin bad
    BY <2>1, <2>5
  <2>9. \E a \in Anc[Prev[x]] : Num[a] = k
    BY <2>5, <2>7, <2>8
  <2> QED BY <2>3, <2>5, <2>9
<1> QED BY <1>1

\* remove takes nothing away that is not built on b.
LEMMA RemoveFacts ==
  ASSUME NEW f, FdbInv(f), Closed(f), NEW b \in f.index, CanRemove(f, b),
         NEW g, g = remove(f, b)
  PROVE  /\ FdbInv(g) /\ Closed(g) /\ g.root = f.root /\ g.head = f.head
         /\ \A v \in Block : Valid(f, v) /\ b \notin Anc[v] => Valid(g, v)
<1> DEFINE Sub == Subtree(f.index, b)
<1>1. /\ g.root = f.root /\ g.head = f.head /\ g.validated = f.validated \ Sub
  BY DEF remove, FdbInv, ForkDb
<1>2. FdbInv(g)
  BY RemoveInv
<1>3. b \in Block /\ \A c \in Sub : b \in Anc[c]
  <2>1. b \in Block
    BY FdbFacts
  <2> QED BY <2>1, AncStep DEF Subtree
<1>4. \A v \in Block : Valid(f, v) /\ b \notin Anc[v] => Valid(g, v)
  BY <1>1, <1>3 DEF Valid
<1>5. ASSUME NEW v \in g.validated, NEW c \in Anc[v] \ Anc[f.root], c \in Sub PROVE FALSE
  <2>1. /\ v \in f.validated /\ v \in f.index /\ v \in Block
        /\ Anc[v] \ Anc[f.root] \subseteq f.index /\ v \notin Sub
    BY <1>1, FdbFacts DEF get_block_header
  <2>2. b \in Anc[c] /\ Anc[c] \subseteq Anc[v]
    BY <1>3, <1>5, <2>1, AncMonotone
  <2>3. f.root \in Anc[b] /\ Anc[f.root] \subseteq Anc[b]
    <3>1. f.root \in Anc[b]
      BY FdbFacts DEF get_block_header
    <3> QED BY <1>3, <3>1, AncMonotone
  <2>4. v \in Sub
    BY <2>1, <2>2, <2>3 DEF Subtree
  <2> QED BY <2>1, <2>4
<1>6. Closed(g)
  BY <1>1, <1>5 DEF Closed
<1> QED BY <1>1, <1>2, <1>4, <1>6

\* The node starts with genesis in the block log, the state and the fork database.
LEMMA CInvInit == Init => CInv
<1> SUFFICES ASSUME Init PROVE CInv
  OBVIOUS
<1>1. Genesis \in Block /\ Num[Genesis] = 1 /\ Anc[Genesis] = {Genesis}
  BY AncGenesis, ControllerAssumption
<1>2. /\ fdb = reset(Genesis) /\ saved = FALSE /\ head = Genesis /\ applied = <<Genesis>>
      /\ committed = 1 /\ blog = <<Genesis>> /\ pending = {} /\ mode \in Modes
      /\ pc = "idle" /\ ret = "idle" /\ newBranch = {} /\ oldBranch = {} /\ todo = {}
      /\ toLog = {} /\ fails = 0 /\ restarts = 0
  BY DEF Init, FdbInit
<1>3. /\ fdb.root = Genesis /\ fdb.head = Genesis /\ fdb.validated = {}
      /\ FdbInv(fdb) /\ Closed(fdb)
  BY <1>1, <1>2, ResetFacts
<1>4. blog \in Seq(Block) /\ blog # <<>> /\ Len(blog) = 1 /\ blog[1] = Genesis /\ LogHead = Genesis
  BY <1>1, <1>2 DEF LogHead, LastOf
<1>5. LogChain
  BY <1>1, <1>4 DEF LogChain
<1>6. applied \in Seq(Block) /\ Len(applied) = 1
  BY <1>1, <1>2
<1>7. Typed
  <2>1. committed \in 0..Len(applied) /\ 0 \in 0..MaxFails /\ 0 \in 0..MaxRestarts
    BY <1>2, <1>6, ControllerAssumption
  <2> QED BY <1>1, <1>2, <1>6, <2>1, Zenon DEF Typed, Loops
<1>8. OnTree
  BY <1>1, <1>2, <1>3, <1>4 DEF OnTree, Valid
<1>9. UpOK
  BY <1>1, <1>2, <1>3, <1>4, <1>6, <1>8
     DEF UpOK, IrrOK, Appending, Switching, Logging
<1> QED BY <1>2, <1>3, <1>5, <1>7, <1>9 DEF CInv, Up

\* In irreversible mode a new block does not move the fork database's head.
LEMMA IrrAdd ==
  ASSUME FdbInv(fdb), Closed(fdb), IrrOK, head \in Block, NEW b \in Block, Linkable(fdb, b)
  PROVE  add(fdb, b).head = head
<1> DEFINE V == fdb.validated
<1>1. fdb.head = head /\ V = Anc[head] \ Anc[fdb.root] /\ fdb.root \in Anc[head]
  BY DEF IrrOK
<1>2. CASE V = {}
  BY <1>1, <1>2, AddFacts
<1>3. CASE V # {}
  <2>1. head \in V
    <3>1. head \in Anc[fdb.root] => Anc[head] \subseteq Anc[fdb.root]
      BY AncMonotone, FdbFacts
    <3> QED BY <1>1, <1>3, <3>1, AncStep
  <2>2. V \in SUBSET Block /\ \A c \in V \ {head} : first_preferred(head, c)
    BY <1>1, AncStep, AncWorse
  <2>3. FirstOf(V) = head
    BY <2>1, <2>2, FirstOfBest
  <2> QED BY <1>3, <2>3, AddFacts
<1> QED BY <1>2, <1>3

\* push_block.
LEMMA PushBlockStep ==
  ASSUME CInv, NEW b \in Block, PushBlock(b)
  PROVE  CInv'
<1>1. /\ Typed /\ FdbInv(fdb) /\ Closed(fdb) /\ LogChain /\ (~Replays => todo = {}) /\ UpOK
      /\ pc = "idle" /\ pending = {} /\ Linkable(fdb, b) /\ fdb' = add(fdb, b)
  BY DEF CInv, PushBlock, Up
<1>2. OnTree /\ committed = Num[LogHead] /\ fdb.root = LogHead
  BY <1>1 DEF UpOK, Lags, Appending
<1>3. /\ UNCHANGED <<saved, head, applied, committed, blog, pending, mode, todo, toLog, fails,
                     restarts>>
  BY DEF PushBlock, db
<1>4. /\ FdbInv(fdb') /\ Closed(fdb') /\ fdb'.root = fdb.root /\ fdb'.validated = fdb.validated
  BY <1>1, AddFacts
<1>5. LogChain' /\ LogHead' = LogHead /\ LogHead \in Block
  BY <1>1, <1>3, LogFacts DEF LogChain, LogHead
<1>6. OnTree' /\ Valid(fdb', head)
  BY <1>2, <1>3, <1>4, <1>5 DEF OnTree, Valid
<1>7. CASE mode = "irreversible"
  <2>1. pc' = "log" /\ ret' = "idle" /\ UNCHANGED <<newBranch, oldBranch>>
    BY <1>7 DEF PushBlock, branch
  <2>2. IrrOK
    BY <1>1, <1>7 DEF UpOK
  <2>3. fdb'.head = head /\ Len(applied) = Num[head]
    BY <1>1, <2>2, IrrAdd DEF Typed, IrrOK
  <2>4. IrrOK'
    BY <1>3, <1>4, <2>1, <2>2, <2>3 DEF IrrOK, Logging
  <2>5. LogOK'
    BY <1>3, <2>1, <2>3 DEF LogOK
  <2>6. UpOK'
    BY <1>2, <1>3, <1>4, <1>5, <1>6, <2>1, <2>4, <2>5 DEF UpOK, Appending, Switching
  <2>7. Typed'
    BY <1>1, <1>3, <2>1 DEF Typed, Loops
  <2> QED BY <1>1, <1>3, <1>4, <1>5, <2>1, <2>6, <2>7 DEF CInv, Up
<1>8. CASE mode # "irreversible"
  <2> DEFINE nh == pending_head(fdb')
  <2>1. MaybeSwitchForks(nh, "idle")
    BY <1>8 DEF PushBlock
  <2>2. mode = "head"
    BY <1>1, <1>8, ControllerAssumption DEF Typed
  <2>3. /\ get_block_header(fdb', nh) /\ nh \in Block
        /\ nh = fdb'.head \/ first_preferred(nh, fdb'.head)
    BY <1>4, PendingHeadFacts, FdbFacts
  <2> HIDE DEF nh
  <2>4. /\ UpOK' /\ pc' \in Loops \ {"down"} /\ ret' = "idle"
        /\ newBranch' \subseteq Block /\ oldBranch' \subseteq Block
    BY <1>1, <1>2, <1>3, <1>4, <1>6, <2>1, <2>2, <2>3, SwitchBegins
  <2>5. Typed'
    BY <1>1, <1>3, <2>4 DEF Typed
  <2> QED BY <1>1, <1>3, <1>4, <1>5, <2>4, <2>5 DEF CInv, Up
<1> QED BY <1>7, <1>8

\* A fork switch that goes on.
LEMMA Switches ==
  ASSUME Typed', FdbInv(fdb'), Closed(fdb'), LogChain', ~Replays => todo' = {}, pending' = {},
         fdb'.root = LogHead', committed' = Num[LogHead'], OnTree', mode' = "head", Switching',
         NEW oh \in Block, NEW nh \in Block, SwitchFrom(oh, nh)'
  PROVE  CInv'
<1>1. UpOK'
  BY DEF UpOK, Appending, Switching, Logging, SwitchOK
<1> QED BY <1>1 DEF CInv, Up, Switching

\* pop_block.
LEMMA PopBlockStep ==
  ASSUME CInv, PopBlock
  PROVE  CInv'
<1>1. pc \in {"pop", "unwind"} /\ Switching
  BY Zenon DEF PopBlock, Switching
<1>2. /\ Typed /\ FdbInv(fdb) /\ Closed(fdb) /\ LogChain /\ (~Replays => todo = {})
      /\ pending = {} /\ mode = "head" /\ OnTree /\ committed = Num[LogHead]
      /\ fdb.root = LogHead /\ LogHead \in Block /\ SwitchOK
  BY <1>1, SwitchFacts
<1>3. PICK oh \in Block, nh \in Block : SwitchFrom(oh, nh)
  BY <1>2 DEF SwitchOK
<1>4. /\ LogHead \in Anc[oh] /\ LogHead \in Anc[nh] /\ ret # "replay"
      /\ newBranch = Anc[nh] \ Anc[oh] /\ oldBranch = Anc[oh] \ Anc[nh]
      /\ pc = "pop" => head \in oldBranch
      /\ pc = "unwind" => head \in newBranch
  BY <1>1, <1>3 DEF SwitchFrom
<1>5. head # LogHead
  BY <1>1, <1>4
<1>6. Prev[head] \in Block /\ LogHead \in Anc[Prev[head]] /\ Valid(fdb, Prev[head])
  BY <1>2, <1>5, OneDown, Zenon DEF OnTree
<1>7. /\ head' = Prev[head] /\ applied' = Undo(applied)
      /\ UNCHANGED <<fdb, saved, committed, blog, pending, mode, ret, newBranch, oldBranch, todo,
                     toLog, fails, restarts>>
  BY Zenon DEF PopBlock, branch
<1>8. /\ pc' \in {"pop", "apply", "unwind", "reapply", "empty_back"}
      /\ pc' = "pop" => head' \in oldBranch
      /\ pc' = "unwind" => head' \in newBranch
      /\ pc' = "apply" => pc = "pop"
      /\ pc' = "pop" => pc = "pop"
  BY <1>1, <1>7, Zenon DEF PopBlock, AfterUnwind
<1>9. LogHead' = LogHead /\ LogChain'
  BY <1>2, <1>7 DEF LogHead, LogChain
<1>10. SwitchFrom(oh, nh)'
  BY <1>3, <1>4, <1>7, <1>8, <1>9 DEF SwitchFrom
<1>11. Typed'
  <2>1. applied' \in Seq(Block) /\ committed \in 0..Len(applied')
    BY <1>2, <1>7, UndoFacts, Zenon DEF Typed
  <2> QED BY <1>2, <1>6, <1>7, <1>8, <2>1 DEF Typed, Loops
<1>12. OnTree'
  BY <1>6, <1>7, <1>9, Zenon DEF OnTree
<1>13. Switching'
  BY <1>8 DEF Switching
<1> QED BY <1>2, <1>7, <1>9, <1>10, <1>11, <1>12, <1>13, Switches

\* Throw out of a fork switch: head is on the tree, so that the node goes on, or
\* init ends.
LEMMA ThrowStep ==
  ASSUME Typed, pc # "down", Throw, FdbInv(fdb'), Closed(fdb'), LogChain, ~Replays => todo = {},
         pending = {}, mode = "head", committed = Num[LogHead], fdb'.root = LogHead,
         UNCHANGED <<committed, blog, pending, mode, ret, newBranch, oldBranch, todo, toLog,
                     fails, restarts>>,
         applied' \in Seq(Block), committed \in 0..Len(applied'),
         head' \in Block, LogHead \in Anc[head'], Valid(fdb', head')
  PROVE  CInv'
<1>1. pc' \in {"idle", "down"} /\ saved' \in BOOLEAN
  BY Zenon DEF Throw, Typed
<1>2. LogHead' = LogHead /\ LogChain'
  BY Zenon DEF LogHead, LogChain
<1>3. Typed'
  BY <1>1 DEF Typed, Loops
<1>4. OnTree'
  BY <1>2 DEF OnTree
<1> QED BY <1>1, <1>2, <1>3, <1>4, Leaves, Zenon

\* The read of branches.second.back() of an empty deque.
LEMMA EmptyBackStep ==
  ASSUME CInv, EmptyBack
  PROVE  CInv'
<1>1. pc = "empty_back" /\ Switching
  BY DEF EmptyBack, Switching
<1>2. /\ Typed /\ FdbInv(fdb) /\ Closed(fdb) /\ LogChain /\ (~Replays => todo = {})
      /\ pending = {} /\ mode = "head" /\ OnTree /\ committed = Num[LogHead]
      /\ fdb.root = LogHead
  BY <1>1, SwitchFacts
<1>3. /\ Throw /\ UNCHANGED <<fdb, head, applied, committed, blog, pending, mode, ret, newBranch,
                              oldBranch, todo, toLog, fails, restarts>>
  BY DEF EmptyBack, db, branch
<1>4. /\ applied' \in Seq(Block) /\ committed \in 0..Len(applied') /\ head' \in Block
      /\ LogHead \in Anc[head'] /\ Valid(fdb', head')
  BY <1>2, <1>3 DEF Typed, OnTree
<1> QED BY <1>1, <1>2, <1>3, <1>4, ThrowStep

\* The old branch is applied again: all of it has been validated before.
LEMMA ReapplyStep ==
  ASSUME CInv, NEW b, Reapply(b)
  PROVE  CInv'
<1>1. pc = "reapply" /\ Switching /\ b \in oldBranch /\ Prev[b] = head
  BY DEF Reapply, Switching
<1>2. /\ Typed /\ FdbInv(fdb) /\ Closed(fdb) /\ LogChain /\ (~Replays => todo = {})
      /\ pending = {} /\ mode = "head" /\ OnTree /\ committed = Num[LogHead]
      /\ fdb.root = LogHead /\ LogHead \in Block /\ SwitchOK
  BY <1>1, SwitchFacts
<1>3. PICK oh \in Block, nh \in Block : SwitchFrom(oh, nh)
  BY <1>2 DEF SwitchOK
<1>4. /\ LogHead \in Anc[oh] /\ LogHead \in Anc[nh] /\ Anc[LogHead] \subseteq Anc[nh]
      /\ oldBranch = Anc[oh] \ Anc[nh] /\ Valid(fdb, oh) /\ ret # "replay"
  BY <1>1, <1>2, <1>3, SwitchFacts, Zenon DEF SwitchFrom
<1>5. b \in fdb.validated /\ b \in fdb.index /\ b \in Block /\ b # Genesis
  <2>1. b \in Anc[oh] \ Anc[fdb.root]
    BY <1>1, <1>2, <1>4, Zenon
  <2>2. b \in fdb.validated
    BY <1>2, <1>4, <2>1, ClosedDown
  <2> QED BY <1>2, <2>2, FdbFacts, Zenon
<1>6. mark_valid(fdb, b) = fdb
  BY <1>1, <1>2, <1>5, MarkValidFacts DEF OnTree
<1>7. /\ fdb' = fdb /\ head' = b /\ applied' = Append(applied, b)
      /\ UNCHANGED <<committed, blog, pending, mode, ret, newBranch, oldBranch, todo,
                     toLog, fails, restarts>>
  BY <1>6 DEF Reapply, ApplyBlock, branch
<1>8. /\ applied' \in Seq(Block) /\ committed \in 0..Len(applied') /\ head' \in Block
      /\ LogHead \in Anc[head'] /\ Valid(fdb', head')
  <2>1. Anc[b] = Anc[head] \cup {b}
    BY <1>1, <1>5, AncStep
  <2> QED BY <1>2, <1>5, <1>7, <2>1, AppendApplied DEF Typed, OnTree, Valid
<1>9. CASE UNCHANGED <<pc, saved>>
  <2>1. LogHead' = LogHead /\ LogChain'
    BY <1>2, <1>7 DEF LogHead, LogChain
  <2>2. SwitchFrom(oh, nh)'
    BY <1>1, <1>3, <1>4, <1>7, <1>9, <2>1 DEF SwitchFrom
  <2>3. Typed'
    BY <1>2, <1>7, <1>8, <1>9, Zenon DEF Typed
  <2>4. OnTree' /\ Switching'
    BY <1>1, <1>8, <1>9, <2>1 DEF OnTree, Switching
  <2> QED BY <1>2, <1>7, <2>1, <2>2, <2>3, <2>4, Switches
<1>10. CASE Throw
  <2>1. FdbInv(fdb') /\ Closed(fdb') /\ fdb'.root = LogHead
    BY <1>2, <1>7
  <2> QED BY <1>1, <1>2, <1>7, <1>8, <1>10, <2>1, ThrowStep
<1> QED BY <1>9, <1>10 DEF Reapply

\* A block that fails leaves the fork database, but neither head nor the old
\* branch hangs from it.
LEMMA ApplyFailsStep ==
  ASSUME CInv, NEW b, ApplyFails(b)
  PROVE  CInv'
<1>1. pc \in {"apply_one", "apply"} /\ Switching /\ b \in newBranch /\ Prev[b] = head
  BY Zenon DEF ApplyFails, Switching
<1>2. /\ Typed /\ FdbInv(fdb) /\ Closed(fdb) /\ LogChain /\ (~Replays => todo = {})
      /\ pending = {} /\ mode = "head" /\ OnTree /\ committed = Num[LogHead]
      /\ fdb.root = LogHead /\ LogHead \in Block /\ SwitchOK
  BY <1>1, SwitchFacts
<1>3. PICK oh \in Block, nh \in Block : SwitchFrom(oh, nh)
  BY <1>2 DEF SwitchOK
<1>4. b \in fdb.index /\ b \notin Anc[oh] /\ b \notin Anc[head]
  BY <1>1, <1>3, NextFacts
<1>5. UNCHANGED <<head, applied, committed, blog, pending, mode, ret, newBranch, oldBranch, todo,
                  toLog, fails, restarts>>
  BY Zenon DEF ApplyFails, db, branch
<1>6. /\ FdbInv(fdb') /\ Closed(fdb') /\ fdb'.root = LogHead
      /\ Valid(fdb', head) /\ Valid(fdb', oh)
  <2>1. Valid(fdb, oh) /\ Valid(fdb, head) /\ head \in Block
    BY <1>2, <1>3 DEF SwitchFrom, OnTree, Typed
  <2>2. CASE CanRemove(fdb, b)
    <3>1. fdb' = remove(fdb, b)
      BY <2>2 DEF ApplyFails
    <3> QED BY <1>2, <1>4, <2>1, <2>2, <3>1, RemoveFacts
  <2>3. CASE fdb' = fdb
    BY <1>2, <2>1, <2>3
  <2> QED BY <2>2, <2>3, Zenon DEF ApplyFails
<1>7. /\ applied' \in Seq(Block) /\ committed \in 0..Len(applied') /\ head' \in Block
      /\ LogHead \in Anc[head'] /\ Valid(fdb', head')
  BY <1>2, <1>5, <1>6 DEF Typed, OnTree
<1>8. CASE Throw
  BY <1>1, <1>2, <1>5, <1>6, <1>7, <1>8, ThrowStep
<1>9. CASE /\ pc = "apply" /\ UNCHANGED saved
           /\ pc' = IF head \in newBranch THEN "unwind" ELSE AfterUnwind
  <2>1. /\ pc' \in {"unwind", "reapply", "empty_back"} /\ (pc' = "unwind" => head \in newBranch)
        /\ ret # "replay"
    BY <1>3, <1>9 DEF AfterUnwind, SwitchFrom
  <2>2. LogHead' = LogHead /\ LogChain'
    BY <1>2, <1>5 DEF LogHead, LogChain
  <2>3. SwitchFrom(oh, nh)'
    BY <1>3, <1>5, <1>6, <2>1, <2>2 DEF SwitchFrom
  <2>4. Typed'
    BY <1>2, <1>5, <1>9, <2>1, Zenon DEF Typed, Loops
  <2>5. OnTree' /\ Switching'
    BY <1>7, <2>1, <2>2 DEF OnTree, Switching
  <2> QED BY <1>2, <1>5, <1>6, <2>2, <2>3, <2>4, <2>5, Switches
<1> QED BY <1>1, <1>8, <1>9, Zenon DEF ApplyFails

\* apply_block of the next block of the new branch; the last one is the head that
\* the fork database has by then.
LEMMA ApplyNextStep ==
  ASSUME CInv, NEW b, ApplyNext(b)
  PROVE  CInv'
<1>1. pc \in {"apply_one", "apply"} /\ Switching /\ b \in newBranch /\ Prev[b] = head
  BY DEF ApplyNext, Switching
<1>2. /\ Typed /\ FdbInv(fdb) /\ Closed(fdb) /\ LogChain /\ (~Replays => todo = {})
      /\ pending = {} /\ mode = "head" /\ OnTree /\ committed = Num[LogHead]
      /\ fdb.root = LogHead /\ LogHead \in Block /\ SwitchOK
  BY <1>1, SwitchFacts
<1>3. PICK oh \in Block, nh \in Block : SwitchFrom(oh, nh)
  BY <1>2 DEF SwitchOK
<1>4. /\ b \in fdb.index /\ b \in Block /\ b \in Anc[nh] /\ b \notin Anc[oh]
      /\ Anc[b] = Anc[head] \cup {b} /\ Num[b] = Num[head] + 1
      /\ ret = "replay" => b = nh /\ b \in fdb.validated
  BY <1>1, <1>3, NextFacts
<1>5. /\ fdb' = mark_valid(fdb, b) /\ head' = b /\ applied' = Append(applied, b)
      /\ Len(applied) = Num[head]
      /\ pc' = IF \E c \in newBranch : Num[c] > Num[b] THEN pc ELSE "log"
      /\ UNCHANGED <<saved, committed, blog, pending, mode, ret, newBranch, oldBranch, todo,
                     toLog, fails, restarts>>
  BY DEF ApplyNext, ApplyBlock, CanApply, Revision, branch
<1>6. /\ FdbInv(fdb') /\ Closed(fdb') /\ fdb'.root = LogHead /\ fdb'.index = fdb.index
      /\ fdb'.validated = fdb.validated \cup {b} /\ (b \in fdb.validated => fdb' = fdb)
  <2>1. Valid(fdb, Prev[b]) /\ b \in fdb.index /\ fdb' = mark_valid(fdb, b)
    BY <1>1, <1>2, <1>4, <1>5 DEF OnTree
  <2>2. FdbInv(fdb) /\ Closed(fdb) /\ fdb.root = LogHead
    BY <1>2
  <2>3. PICK g : g = fdb'
    OBVIOUS
  <2>4. /\ FdbInv(g) /\ Closed(g) /\ g.index = fdb.index /\ g.root = fdb.root
        /\ g.validated = fdb.validated \cup {b}
        /\ b \in fdb.validated => g = fdb
    BY <2>1, <2>2, <2>3, MarkValidFacts
  <2> QED BY <2>2, <2>3, <2>4
<1>7. ret # "replay" =>
        /\ nh = fdb'.head \/ first_preferred(nh, fdb'.head)
        /\ b = nh => fdb'.head = nh
  <2>1. ret # "replay" => nh = fdb.head \/ first_preferred(nh, fdb.head)
    BY <1>1, <1>3, Zenon DEF SwitchFrom
  <2>2. /\ FdbInv(fdb) /\ Closed(fdb) /\ b \in fdb.index /\ Valid(fdb, Prev[b])
        /\ nh \in Block /\ b \in Anc[nh] /\ fdb' = mark_valid(fdb, b)
    BY <1>1, <1>2, <1>4, <1>5, Zenon DEF OnTree
  <2> QED BY <2>1, <2>2, MarkValidTowards, Zenon
<1>8. LogHead' = LogHead /\ LogChain'
  BY <1>2, <1>5, Zenon DEF LogHead, LogChain
<1>9. /\ applied' \in Seq(Block) /\ committed \in 0..Len(applied')
      /\ Len(applied') = Num[b]
  BY <1>2, <1>4, <1>5, AppendApplied DEF Typed
<1>10. OnTree' /\ Typed'
  BY <1>1, <1>2, <1>4, <1>5, <1>6, <1>8, <1>9, Zenon DEF OnTree, Valid, Typed, Loops
<1>11. /\ newBranch = Anc[nh] \ Anc[oh] /\ get_block_header(fdb, nh) /\ Valid(fdb, oh)
       /\ ret = "replay" => nh \in Anc[fdb.head] /\ todo = Anc[fdb.head] \ Anc[nh]
  BY <1>1, <1>3 DEF SwitchFrom
<1>12. CASE \E c \in newBranch : Num[c] > Num[b]
  <2>1. ret # "replay"
    <3>1. PICK c \in newBranch : Num[c] > Num[b]
      BY <1>12
    <3>2. c \in Anc[nh] /\ Num[c] <= Num[nh] /\ Num[c] \in Nat /\ Num[nh] \in Nat
      BY <1>11, AncMonotone, BlockFacts, Zenon
    <3> QED BY <1>4, <3>1, <3>2
  <2>2. pc' = pc
    BY <1>5, <1>12
  <2>3. Valid(fdb', oh) /\ get_block_header(fdb', nh)
    BY <1>2, <1>6, <1>11 DEF Valid, get_block_header
  <2>4. SwitchFrom(oh, nh)'
    BY <1>1, <1>3, <1>5, <1>7, <1>8, <2>1, <2>2, <2>3, Zenon DEF SwitchFrom
  <2>5. Switching'
    BY <1>1, <2>2 DEF Switching
  <2> QED BY <1>2, <1>5, <1>6, <1>8, <1>10, <2>4, <2>5, Switches, Zenon
<1>13. CASE ~\E c \in newBranch : Num[c] > Num[b]
  <2>1. pc' = "log"
    BY <1>5, <1>13
  <2>2. b = nh
    <3>1. nh \notin Anc[oh]
      <4>1. nh \in Anc[oh] => Anc[nh] \subseteq Anc[oh]
        BY AncMonotone
      <4> QED BY <1>4, <4>1
    <3>2. nh \in newBranch
      BY <1>11, <3>1, AncStep
    <3>3. b # nh => Num[b] < Num[nh] /\ Num[b] \in Nat /\ Num[nh] \in Nat
      BY <1>4, AncMonotone, BlockFacts
    <3> QED BY <1>13, <3>2, <3>3
  <2>3. LogOK'
    BY <1>2, <1>4, <1>5, <1>6, <1>7, <1>9, <1>11, <2>2, Zenon DEF LogOK, ReplayOK
  <2>4. UpOK'
    BY <1>2, <1>5, <1>6, <1>8, <1>10, <2>1, <2>3 DEF UpOK, Switching, Appending
  <2> QED BY <1>2, <1>5, <1>6, <1>8, <1>10, <2>1, <2>4, Zenon DEF CInv, Up
<1> QED BY <1>12, <1>13

\* The handler returns after log_irreversible.
LEMMA ReturnStep ==
  ASSUME Typed, Logging, Return, FdbInv(fdb'), Closed(fdb'), LogChain, ~Replays => todo = {},
         OnTree' \/ Lags, committed = Num[LogHead] \/ Lags, fdb'.root = LogHead,
         ret = "replay" => mode = "head" /\ (ReplayOK' \/ Lags),
         mode = "irreversible" => /\ fdb'.head = head /\ fdb'.root \in Anc[head]
                                  /\ fdb'.validated = Anc[head] \ Anc[fdb'.root]
                                  /\ Len(applied) = Num[head] /\ ret # "init",
         UNCHANGED <<head, committed, blog, mode, ret, newBranch, oldBranch, todo, fails, restarts>>,
         toLog' \subseteq Block
  PROVE  CInv'
<1>1. pc' = ret /\ pending' = {} /\ applied' = applied /\ saved' = saved
  BY DEF Return
<1>2. pc' \in {"idle", "replay", "init"} /\ ret' = ret
  BY <1>1 DEF Typed
<1>3. LogHead' = LogHead /\ LogChain'
  BY DEF LogHead, LogChain
<1>4. Typed'
  BY <1>1, <1>2 DEF Typed, Loops
<1>5. Lags => Lags'
  BY <1>1, <1>3 DEF Lags
<1>6. mode = "irreversible" => IrrOK'
  BY <1>1, <1>2, Zenon DEF IrrOK, Logging
<1>7. UpOK'
  BY <1>1, <1>2, <1>3, <1>5, <1>6 DEF UpOK, Appending, Logging, Switching
<1> QED BY <1>1, <1>2, <1>3, <1>4, <1>7 DEF CInv, Up

\* The handler is left with an exception after log_irreversible.
LEMMA ThrowLogStep ==
  ASSUME Typed, Logging, ThrowAndAbort, FdbInv(fdb'), Closed(fdb'), LogChain,
         ~Replays => todo = {}, pending # {} => ret = "idle",
         fdb'.root = LogHead, OnTree' \/ Lags, committed = Num[LogHead] \/ Lags,
         mode = "irreversible" => /\ fdb'.head = head /\ fdb'.root \in Anc[head]
                                  /\ fdb'.validated = Anc[head] \ Anc[fdb'.root]
                                  /\ Len(applied) = Num[head] /\ pending = {},
         UNCHANGED <<head, committed, blog, mode, ret, newBranch, oldBranch, todo, fails, restarts>>,
         toLog' \subseteq Block
  PROVE  CInv'
<1>1. /\ pc' \in {"idle", "down"} /\ saved' \in BOOLEAN /\ pending' = {}
      /\ pc' = "idle" <=> ret = "idle"
      /\ applied' = IF pending = {} THEN applied ELSE Undo(applied)
  BY Zenon DEF ThrowAndAbort, Throw, Typed
<1>2. LogHead' = LogHead /\ LogChain'
  BY Zenon DEF LogHead, LogChain
<1>3. applied' \in Seq(Block) /\ committed \in 0..Len(applied')
  BY <1>1, UndoFacts DEF Typed
<1>4. Typed'
  BY <1>1, <1>3 DEF Typed, Loops
<1>5. pc' = "idle" => OnTree' /\ committed' = Num[LogHead']
  BY <1>1, <1>2 DEF Lags
<1>6. mode = "irreversible" /\ pc' = "idle" => IrrOK'
  BY <1>1, <1>2 DEF IrrOK
<1>7. pc' = "down" => committed' = Num[LogHead'] \/ Len(applied') < Num[LogHead']
  BY <1>1, <1>2 DEF Lags
<1> QED BY <1>1, <1>2, <1>4, <1>5, <1>6, <1>7, Leaves

\* log_irreversible up to its loop.  In irreversible mode the fork head may be
\* on a branch that has not been applied.
LEMMA BeginLogStep ==
  ASSUME CInv, BeginLog
  PROVE  CInv'
<1>1. pc = "log" /\ Logging /\ ~Appending /\ Up
  BY Zenon DEF BeginLog, Logging, Appending, Up
<1>2. /\ Typed /\ FdbInv(fdb) /\ Closed(fdb) /\ LogChain /\ (~Replays => todo = {})
      /\ pending # {} => mode = "head" /\ ret = "idle"
      /\ UpOK /\ LogOK /\ LogHead \in Block
      /\ mode = "irreversible" => IrrOK /\ head = fdb.head
      /\ mode \in {"head", "irreversible"}
  BY <1>1, LoggingFacts
<1>3. ~Lags /\ OnTree /\ committed = Num[LogHead] /\ fdb.root = LogHead
  BY <1>1, <1>2 DEF UpOK, Lags
<1>4. UNCHANGED <<fdb, head, committed, blog, mode, ret, newBranch, oldBranch, todo, fails,
                  restarts>>
  BY Zenon DEF BeginLog, branch
<1> DEFINE fh == fork_db_head
<1>5. fh \in Block /\ get_block_header(fdb, fh) /\ (mode = "head" => fh = fdb.head)
  <2>1. mode = "head" => fh = fdb.head
    BY DEF fork_db_head
  <2>2. mode = "irreversible" => fh = pending_head(fdb)
    BY DEF fork_db_head
  <2>3. get_block_header(fdb, fh)
    BY <1>2, <2>1, <2>2, PendingHeadFacts, FdbFacts
  <2> QED BY <1>2, <2>1, <2>3, FdbFacts
<1> HIDE DEF fh
<1>6. LogHead' = LogHead /\ LogChain' /\ OnTree'
  BY <1>2, <1>3, <1>4 DEF LogHead, LogChain, OnTree
<1>7. CASE Lib[fh] <= Num[LogHead]
  <2>1. Return /\ toLog' = toLog
    BY <1>3, <1>7, Zenon DEF BeginLog, LogHead, fh
  <2>2. ret = "replay" => mode = "head" /\ ReplayOK'
    BY <1>2, <1>3, <1>4, Zenon DEF LogOK, ReplayOK
  <2>3. mode = "irreversible" => /\ fdb'.head = head /\ fdb'.root \in Anc[head]
                                 /\ fdb'.validated = Anc[head] \ Anc[fdb'.root]
                                 /\ Len(applied) = Num[head] /\ ret # "init"
    BY <1>2, <1>4, Zenon DEF IrrOK, LogOK
  <2>4. FdbInv(fdb') /\ Closed(fdb') /\ fdb'.root = LogHead /\ toLog' \subseteq Block
    BY <1>2, <1>3, <1>4, <2>1 DEF Typed
  <2> QED BY <1>1, <1>2, <1>3, <1>4, <1>6, <2>1, <2>2, <2>3, <2>4, ReturnStep
<1>8. CASE ~(Lib[fh] <= Num[LogHead])
  <2>1. /\ toLog' = fetch_branch(fdb, fh, Lib[fh]) /\ pc' = "append"
        /\ UNCHANGED <<applied, pending, saved>>
    BY <1>3, <1>8, Zenon DEF BeginLog, LogHead, fh
  <2>2. /\ fdb.root \in Anc[fh] /\ Anc[fh] \ Anc[fdb.root] \subseteq fdb.index
        /\ \A c \in fdb.index : c \notin Anc[fdb.root]
    BY <1>2, <1>5, FdbFacts, Zenon
  <2>3. /\ Num[fh] \in Nat /\ Lib[fh] \in Nat /\ Lib[fh] < Num[fh] /\ Num[LogHead] \in Nat
        /\ Lib[fh] \in 1..Num[fh] /\ Num[LogHead] < Lib[fh]
    BY <1>2, <1>5, <1>8, BlockFacts
  <2>4. PICK y \in Anc[fh] : Num[y] = Lib[fh]
    BY <1>5, <2>3, AncAtHeight
  <2>5. y \in Block /\ LogHead \in Anc[y] /\ y \notin Anc[LogHead] /\ Anc[y] \subseteq Anc[fh]
    <3>1. y \in Block /\ Anc[y] \subseteq Anc[fh]
      BY <1>5, AncMonotone
    <3>2. LogHead \in Anc[y]
      BY <1>3, <1>5, <2>2, <2>3, <2>4, AncLower
    <3>3. y \in Anc[LogHead] => Num[y] <= Num[LogHead]
      BY <1>2, AncMonotone
    <3> QED BY <2>3, <2>4, <3>1, <3>2, <3>3
  <2>6. toLog' = Anc[y] \ Anc[LogHead]
    <3>1. ASSUME NEW a \in toLog' PROVE a \in Anc[y] \ Anc[LogHead]
      <4>1. a \in Anc[fh] /\ a \in fdb.index /\ Num[a] <= Num[y]
        BY <2>1, <2>4, <3>1 DEF fetch_branch
      <4>2. a \in Anc[y]
        BY <1>5, <4>1, AncLower
      <4> QED BY <1>3, <2>2, <4>1, <4>2
    <3>2. ASSUME NEW a \in Anc[y] \ Anc[LogHead] PROVE a \in toLog'
      <4>1. a \in Anc[fh] /\ a \in fdb.index
        BY <1>3, <2>2, <2>5, <3>2
      <4>2. Num[a] <= Num[y]
        BY <2>5, <3>2, AncMonotone
      <4> QED BY <2>1, <2>4, <4>1, <4>2 DEF fetch_branch
    <3> QED BY <3>1, <3>2
  <2>7. y \in fdb.index /\ y \in toLog' /\ toLog' \subseteq Block
    BY <1>3, <2>2, <2>4, <2>5, <2>6, AncStep
  <2>8. LogHead \in Anc[fdb.head] /\ fdb.root \in Anc[LogHead]
    BY <1>2, <1>3, FdbFacts, AncStep, Zenon
  <2>9. AppendOK'
    BY <1>4, <1>5, <1>6, <2>4, <2>5, <2>6, <2>7, <2>8, Zenon DEF AppendOK
  <2>10. LogOK' /\ (mode = "irreversible" => IrrOK')
    BY <1>2, <1>3, <1>4, <2>1, Zenon DEF LogOK, ReplayOK, IrrOK, Logging, Appending
  <2>11. Typed'
    BY <1>2, <1>4, <2>1, <2>7, Zenon DEF Typed, Loops
  <2>12. UpOK'
    BY <1>3, <1>4, <1>6, <2>1, <2>9, <2>10 DEF UpOK, Switching, Appending
  <2>13. Logging' /\ Up' /\ FdbInv(fdb') /\ Closed(fdb')
    BY <1>2, <1>4, <2>1, Zenon DEF Logging, Appending, Up
  <2> QED BY <1>2, <1>4, <1>6, <2>1, <2>11, <2>12, <2>13 DEF CInv
<1> QED BY <1>7, <1>8

\* blog.append throws, or apply_block does: nothing else has changed than, in
\* irreversible mode, head.
LEMMA AppendStopsStep ==
  ASSUME CInv, AppendApplyFails \/ AppendOutOfSpace
  PROVE  CInv'
<1>1. /\ pc = "append" /\ Logging /\ Appending /\ pc' = "advance_throw"
      /\ UNCHANGED <<saved, committed, blog, pending, mode, ret, newBranch, oldBranch, todo,
                     toLog, restarts>>
      /\ fails' \in 0..MaxFails
  <2>1. fails \in 0..MaxFails /\ MaxFails \in Nat
    BY ControllerAssumption DEF CInv, Typed
  <2>2. CASE AppendApplyFails
    BY <2>1, <2>2 DEF AppendApplyFails, Logging, Appending, branch, db
  <2>3. CASE AppendOutOfSpace
    <3>1. fails < MaxFails /\ fails' = fails + 1
      BY <2>3 DEF AppendOutOfSpace
    <3>2. fails' \in 0..MaxFails
      BY <2>1, <3>1
    <3> QED BY <2>3, <3>2 DEF AppendOutOfSpace, Logging, Appending, branch
  <2> QED BY <2>2, <2>3
<1>2. /\ Typed /\ FdbInv(fdb) /\ Closed(fdb) /\ LogChain /\ (~Replays => todo = {})
      /\ pending # {} => mode = "head" /\ ret = "idle"
      /\ UpOK /\ LogOK /\ LogHead \in Block
      /\ mode = "irreversible" => IrrOK /\ head = fdb.head
      /\ mode \in {"head", "irreversible"}
  BY <1>1, LoggingFacts
<1>3. LogHead' = LogHead /\ LogChain' /\ Logging' /\ Appending' /\ Up' /\ ~Switching'
  BY <1>1, <1>2 DEF LogHead, LogChain, Logging, Appending, Up, Switching
<1>4. fdb.root \in Anc[LogHead] /\ LogHead \in Anc[fdb.head]
  BY <1>1, <1>2 DEF UpOK, AppendOK
<1>5. CASE UNCHANGED <<fdb, head, applied>>
  <2>1. Typed'
    BY <1>1, <1>2, <1>5 DEF Typed, Loops
  <2>2. (OnTree => OnTree') /\ (Lags => Lags')
    BY <1>1, <1>3, <1>5 DEF OnTree, Lags
  <2>3. LogOK'
    BY <1>1, <1>2, <1>5, <2>2 DEF LogOK, ReplayOK
  <2>4. AppendOK'
    BY <1>1, <1>3, <1>4, <1>5 DEF AppendOK
  <2>5. mode = "irreversible" => IrrOK'
    BY <1>2, <1>3, <1>5 DEF IrrOK
  <2>6. UpOK'
    BY <1>1, <1>2, <1>3, <2>2, <2>3, <2>4, <2>5 DEF UpOK
  <2> QED BY <1>1, <1>2, <1>3, <1>5, <2>1, <2>6 DEF CInv
<1>6. CASE ~UNCHANGED <<fdb, head, applied>>
  <2>1. PICK b : b = Lowest(toLog)
    OBVIOUS
  <2>2. mode = "irreversible" /\ CanApply(b) /\ ApplyBlock(b)
    BY <1>6, <2>1 DEF AppendApplyFails, AppendOutOfSpace, db
  <2>3. /\ FdbInv(fdb') /\ Closed(fdb') /\ fdb'.index = fdb.index /\ fdb'.root = fdb.root
        /\ fdb'.head = b /\ head' = b /\ Valid(fdb', b) /\ fdb.root \in Anc[b]
        /\ fdb'.validated = Anc[b] \ Anc[fdb.root] /\ LogHead \in Anc[b]
        /\ applied' \in Seq(Block) /\ Len(applied') = Num[b]
        /\ committed \in 0..Len(applied')
    BY <1>1, <2>1, <2>2, IrrApply, Zenon
  <2>4. b \in Block
    BY <1>1, <2>1, AppendFacts
  <2>5. Typed'
    BY <1>1, <1>2, <2>3, <2>4, Zenon DEF Typed, Loops
  <2>6. OnTree' /\ IrrOK' /\ AppendOK'
    BY <1>1, <1>3, <1>4, <2>3, Zenon DEF OnTree, IrrOK, AppendOK
  <2>7. LogOK'
    BY <1>1, <1>2, <2>2, <2>3, Zenon DEF LogOK
  <2>8. committed = Num[LogHead]
    BY <1>2, <2>2, Zenon DEF UpOK, Lags
  <2>9. UpOK'
    BY <1>1, <1>3, <2>2, <2>6, <2>7, <2>8 DEF UpOK
  <2> QED BY <1>1, <1>2, <1>3, <2>3, <2>5, <2>9, Zenon DEF CInv
<1> QED BY <1>5, <1>6

\* chainbase commits the revisions up to n, as far as there are any.
LEMMA CommitFacts ==
  ASSUME NEW s, Len(s) \in Nat, NEW n \in Nat, committed \in Nat, committed <= Len(s)
  PROVE  /\ Commit(s, n) \in 0..Len(s)
         /\ committed <= n /\ n <= Len(s) => Commit(s, n) = n
BY DEF Commit

\* One turn of the loop: the block log grows by the block built on its head.  If
\* head does not reach it (Lags), replay() is under way and not finished.
LEMMA AppendBlockStep ==
  ASSUME CInv, AppendBlock
  PROVE  CInv' /\ LogHead' \in Block /\ blog' = Append(blog, LogHead') /\ Prev[LogHead'] = LogHead
         /\ LogHead' # Genesis
<1>1. pc = "append" /\ Logging /\ Appending
  BY DEF AppendBlock, Logging, Appending
<1>2. /\ Typed /\ FdbInv(fdb) /\ Closed(fdb) /\ LogChain /\ (~Replays => todo = {})
      /\ pending # {} => mode = "head" /\ ret = "idle"
      /\ UpOK /\ LogOK /\ LogHead \in Block /\ Num[LogHead] = Len(blog)
      /\ mode = "irreversible" => IrrOK /\ head = fdb.head
      /\ mode \in {"head", "irreversible"}
  BY <1>1, LoggingFacts
<1>3. PICK b : b = Lowest(toLog)
  OBVIOUS
<1>4. /\ b \in fdb.index /\ b \in Block /\ b # Genesis /\ Prev[b] = LogHead
      /\ Num[b] = Num[LogHead] + 1 /\ Anc[b] = Anc[LogHead] \cup {b}
      /\ fdb.root \in Anc[b]
  BY <1>1, <1>3, AppendFacts
<1>5. PICK y \in fdb.index : /\ b \in Anc[y] /\ toLog \ {b} = Anc[y] \ Anc[b]
                             /\ mode = "head" => y \in Anc[fdb.head] /\ b \in Anc[fdb.head]
  BY <1>1, <1>3, AppendFacts
<1>6. /\ IF mode = "irreversible" THEN CanApply(b) /\ ApplyBlock(b)
                                  ELSE UNCHANGED <<fdb, head, applied>>
      /\ blog' = Append(blog, b) /\ committed' = Commit(applied', Num[b])
      /\ toLog' = toLog \ {b} /\ pc' = IF toLog' = {} THEN "advance" ELSE pc
      /\ UNCHANGED <<saved, pending, mode, ret, newBranch, oldBranch, todo, fails, restarts>>
  BY <1>3, Zenon DEF AppendBlock, branch
<1>7. /\ Len(blog) \in Nat /\ Num[LogHead] \in Nat /\ Num[b] \in Nat
      /\ Len(blog') = Len(blog) + 1 /\ LogHead' = b
      /\ blog' \in Seq(Block) /\ \A i \in 1..Len(blog) : blog'[i] = blog[i]
  <2>1. /\ blog \in Seq(Block) /\ Len(blog) \in Nat
    BY <1>2, LogFacts DEF LogChain
  <2>2. /\ blog' \in Seq(Block) /\ Len(blog') = Len(blog) + 1
        /\ blog'[Len(blog) + 1] = b /\ \A i \in 1..Len(blog) : blog'[i] = blog[i]
    BY <1>4, <1>6, <2>1, SeqAppend, SeqLength, SMTT(40)
  <2> QED BY <1>2, <1>4, <2>1, <2>2, BlockFacts DEF LogHead, LastOf
<1>8. LogChain'
  <2>1. blog' # <<>>
    BY <1>7, SeqLength
  <2>2. ASSUME NEW i \in 1..Len(blog') PROVE Num[blog'[i]] = i
    <3>1. CASE i \in 1..Len(blog)
      BY <1>2, <1>7, <3>1 DEF LogChain
    <3>2. CASE i = Len(blog')
      BY <1>2, <1>4, <1>7, <3>2 DEF LogHead, LastOf
    <3> QED BY <1>7, <3>1, <3>2
  <2>3. ASSUME NEW i \in 2..Len(blog') PROVE Prev[blog'[i]] = blog'[i - 1]
    <3>1. i \in 1..Len(blog') /\ i - 1 \in 1..Len(blog) /\ blog'[i - 1] = blog[i - 1]
      BY <1>7
    <3>2. CASE i \in 2..Len(blog)
      <4>1. blog'[i] = blog[i]
        BY <1>7, <3>2
      <4> QED BY <1>2, <3>1, <3>2, <4>1 DEF LogChain
    <3>3. CASE i = Len(blog')
      <4>1. i - 1 = Len(blog)
        BY <1>7, <3>3
      <4>2. blog[i - 1] = LogHead /\ blog'[i] = LogHead'
        BY <3>3, <4>1 DEF LogHead, LastOf
      <4> QED BY <1>4, <1>7, <3>1, <4>2
    <3> QED BY <1>7, <3>2, <3>3
  <2> QED BY <1>7, <2>1, <2>2, <2>3 DEF LogChain
<1>9. /\ pc' \in {"append", "advance"} /\ Logging' /\ Appending' /\ Up' /\ ~Switching'
      /\ pc' = "append" => toLog' # {}
      /\ toLog' \subseteq Block
  BY <1>1, <1>2, <1>6, Zenon DEF Logging, Appending, Up, Switching, Typed
<1>10. ASSUME FdbInv(fdb'), Closed(fdb'), fdb'.index = fdb.index, fdb'.root = fdb.root,
              b \in Anc[fdb'.head], mode = "head" => fdb' = fdb,
              head' \in Block, applied' \in Seq(Block), committed' \in 0..Len(applied'),
              OnTree' \/ Lags', committed' = Num[b] \/ Lags', mode = "irreversible" => IrrOK', LogOK'
       PROVE  CInv'
  <2>1. Typed'
    BY <1>2, <1>6, <1>9, <1>10, Zenon DEF Typed, Loops
  <2>2. AppendOK'
    BY <1>4, <1>5, <1>6, <1>7, <1>9, <1>10, Zenon DEF AppendOK
  <2>3. UpOK'
    BY <1>6, <1>7, <1>9, <1>10, <2>2, Zenon DEF UpOK
  <2> QED BY <1>2, <1>6, <1>8, <1>9, <1>10, <2>1, <2>3, Zenon DEF CInv
<1>11. CASE mode = "irreversible"
  <2>1. CanApply(b) /\ ApplyBlock(b)
    BY <1>6, <1>11, Zenon
  <2>2. /\ FdbInv(fdb') /\ Closed(fdb') /\ fdb'.index = fdb.index /\ fdb'.root = fdb.root
        /\ fdb'.head = b /\ head' = b /\ Valid(fdb', b)
        /\ fdb'.validated = Anc[b] \ Anc[fdb.root]
        /\ applied' \in Seq(Block) /\ Len(applied') = Num[b]
    BY <1>1, <1>3, <1>11, <2>1, IrrApply, Zenon
  <2>3. committed' = Num[b] /\ committed' \in 0..Len(applied')
    <3>1. committed = Num[LogHead]
      BY <1>2, <1>11, Zenon DEF UpOK, Lags
    <3>2. /\ Len(applied') \in Nat /\ Num[b] \in Nat /\ committed \in Nat
          /\ committed <= Len(applied') /\ committed <= Num[b] /\ Num[b] <= Len(applied')
      <4>1. /\ Num[LogHead] \in Nat /\ Num[b] = Num[LogHead] + 1 /\ Len(applied') = Num[b]
        BY <1>4, <1>7, <2>2, Zenon
      <4> QED BY <3>1, <4>1
    <3> QED BY <1>6, <3>2, CommitFacts, Zenon
  <2>4. OnTree' /\ b \in Anc[b]
    BY <1>4, <1>7, <2>2, AncStep, Zenon DEF OnTree
  <2>5. IrrOK'
    BY <1>4, <1>9, <2>2, Zenon DEF IrrOK
  <2>6. LogOK'
    BY <1>2, <1>6, <1>11, <2>2, Zenon DEF LogOK
  <2>7. CInv'
    BY <1>4, <1>10, <1>11, <2>2, <2>3, <2>4, <2>5, <2>6, Zenon
  <2> QED BY <1>4, <1>6, <1>7, <2>7, Zenon
<1>12. CASE mode = "head"
  <2>1. /\ fdb' = fdb /\ head' = head /\ applied' = applied /\ b \in Anc[fdb.head]
        /\ head \in Block /\ Len(applied) = Num[head] /\ committed \in 0..Len(applied)
        /\ Len(applied) \in Nat /\ Num[head] \in Nat /\ applied \in Seq(Block)
        /\ fdb.head \in Block
    BY <1>2, <1>5, <1>6, <1>12, SeqLength, BlockFacts, FdbFacts, Zenon DEF Typed, LogOK
  <2>2. committed' \in 0..Len(applied)
    <3>1. committed \in Nat /\ committed <= Len(applied)
      BY <2>1
    <3> QED BY <1>6, <1>7, <2>1, <3>1, CommitFacts, Zenon
  <2>3. CASE Lags
    <3>1. b \notin Anc[head]
      <4>1. b \in Anc[head] => Anc[b] \subseteq Anc[head]
        BY <2>1, AncMonotone
      <4>2. LogHead \in Anc[LogHead]
        BY <1>2, AncStep
      <4> QED BY <1>4, <2>3, <4>1, <4>2 DEF Lags
    <3>2. Len(applied) < Num[b]
      <4>1. Len(applied) < Num[LogHead]
        BY <2>3 DEF Lags
      <4> QED BY <1>4, <1>7, <2>1, <4>1
    <3>3. Lags'
      BY <1>6, <1>7, <1>9, <2>1, <2>3, <3>1, <3>2, Zenon DEF Lags
    <3>4. LogOK'
      BY <1>2, <1>6, <2>1, <2>3, <3>3, Zenon DEF LogOK, Lags
    <3>5. CInv'
      BY <1>2, <1>10, <1>12, <2>1, <2>2, <3>3, <3>4, Zenon
    <3> QED BY <1>4, <1>6, <1>7, <3>5, Zenon
  <2>4. CASE ~Lags
    <3>1. OnTree /\ committed = Num[LogHead]
      BY <1>2, <2>4 DEF UpOK
    <3>2. head \in Anc[fdb.head] /\ (ret # "replay" => head = fdb.head) /\ (ret = "replay" => ReplayOK)
      BY <1>2, <2>1, <2>4, AncStep, Zenon DEF LogOK, ReplayOK
    <3>3. CASE b \in Anc[head]
      <4>1. Num[b] <= Len(applied)
        BY <2>1, <3>3, AncMonotone
      <4>2. committed' = Num[b]
        <5>1. /\ committed \in Nat /\ committed <= Len(applied) /\ committed <= Num[b]
          <6>1. /\ Num[LogHead] \in Nat /\ Num[b] = Num[LogHead] + 1 /\ Len(applied) \in Nat
                /\ committed \in 0..Len(applied)
            BY <1>4, <1>7, <2>1, Zenon
          <6> QED BY <3>1, <6>1
        <5> QED BY <1>6, <1>7, <2>1, <4>1, <5>1, CommitFacts, Zenon
      <4>3. OnTree'
        BY <1>7, <2>1, <3>1, <3>3, Zenon DEF OnTree
      <4>4. LogOK'
        BY <1>2, <1>6, <1>12, <2>1, <3>2, Zenon DEF LogOK, ReplayOK
      <4>5. CInv'
        BY <1>2, <1>10, <1>12, <2>1, <2>2, <4>2, <4>3, <4>4, Zenon
      <4> QED BY <1>4, <1>6, <1>7, <4>5, Zenon
    <3>4. CASE b \notin Anc[head]
      <4>1. ret = "replay" /\ ReplayOK
        BY <2>1, <3>2, <3>4
      <4>2. b \in todo
        BY <2>1, <3>4, <4>1 DEF ReplayOK
      <4>3. Len(applied) < Num[b]
        <5>1. Num[b] <= Num[head] => b \in Anc[head]
          BY <2>1, <3>2, AncLower
        <5> QED BY <1>7, <2>1, <3>4, <5>1
      <4>4. Lags'
        BY <1>6, <1>7, <1>9, <1>12, <2>1, <3>4, <4>1, <4>2, <4>3, Zenon DEF Lags
      <4>5. LogOK'
        BY <1>2, <1>6, <1>12, <2>1, <4>1, <4>4, Zenon DEF LogOK
      <4>6. CInv'
        BY <1>2, <1>10, <1>12, <2>1, <2>2, <4>4, <4>5, Zenon
      <4> QED BY <1>4, <1>6, <1>7, <4>6
    <3> QED BY <3>3, <3>4
  <2> QED BY <2>3, <2>4
<1> QED BY <1>2, <1>11, <1>12

\* The root follows the block log; nothing that head is built on goes with it.
LEMMA AdvanceStep ==
  ASSUME CInv, AdvanceRootToLog
  PROVE  CInv'
<1>1. pc \in {"advance", "advance_throw"} /\ Logging /\ Appending
  BY Zenon DEF AdvanceRootToLog, Logging, Appending
<1>2. /\ Typed /\ FdbInv(fdb) /\ Closed(fdb) /\ LogChain /\ (~Replays => todo = {})
      /\ pending # {} => mode = "head" /\ ret = "idle"
      /\ UpOK /\ LogOK /\ LogHead \in Block
      /\ mode = "irreversible" => IrrOK /\ head = fdb.head
  BY <1>1, LoggingFacts
<1>3. fdb.root \in Anc[LogHead] /\ LogHead \in Anc[fdb.head] /\ fdb.root \in Block /\ fdb.head \in Block
  BY <1>1, <1>2, FdbFacts, Zenon DEF UpOK, AppendOK
<1>4. LogHead = fdb.root \/ CanAdvanceRoot(fdb, LogHead)
  BY <1>2, <1>3, CanAdvance, Zenon
<1>5. /\ fdb' = IF LogHead # fdb.root THEN advance_root(fdb, LogHead) ELSE fdb
      /\ pc = "advance" => Return
      /\ pc = "advance_throw" => ThrowAndAbort
      /\ toLog' = {}
      /\ UNCHANGED <<head, committed, blog, mode, ret, newBranch, oldBranch, todo, fails, restarts>>
  BY <1>1, <1>4, Zenon DEF AdvanceRootToLog, LogHead, branch
<1>6. /\ FdbInv(fdb') /\ Closed(fdb') /\ fdb'.root = LogHead /\ fdb'.head = fdb.head
      /\ \A v \in Block : Valid(fdb, v) /\ LogHead \in Anc[v] => Valid(fdb', v)
  <2>1. CASE LogHead = fdb.root
    BY <1>2, <1>5, <2>1, Zenon
  <2>2. CASE LogHead # fdb.root
    <3>1. PICK g : g = fdb'
      OBVIOUS
    <3>2. /\ FdbInv(fdb) /\ Closed(fdb) /\ fdb.root \in Anc[LogHead] /\ LogHead # fdb.root
          /\ LogHead \in Anc[fdb.head] /\ g = advance_root(fdb, LogHead)
      BY <1>2, <1>3, <1>5, <2>2, <3>1, Zenon
    <3>3. /\ FdbInv(g) /\ Closed(g) /\ g.root = LogHead /\ g.head = fdb.head
          /\ \A v \in Block : Valid(fdb, v) /\ LogHead \in Anc[v] => Valid(g, v)
      BY <3>2, AdvanceFacts, Zenon
    <3> QED BY <3>1, <3>3, Zenon
  <2> QED BY <2>1, <2>2, Zenon
<1>7. LogHead' = LogHead
  BY <1>5 DEF LogHead
<1>8. OnTree' \/ Lags
  BY <1>2, <1>5, <1>6, <1>7, Zenon DEF UpOK, OnTree, Typed
<1>9. ret = "replay" => mode = "head" /\ (ReplayOK' \/ Lags)
  BY <1>2, <1>5, <1>6, Zenon DEF LogOK, ReplayOK
<1>10. ASSUME mode = "irreversible"
       PROVE  /\ fdb'.head = head /\ fdb'.root \in Anc[head]
              /\ fdb'.validated = Anc[head] \ Anc[fdb'.root]
              /\ Len(applied) = Num[head] /\ ret # "init" /\ pending = {}
  <2>1. /\ fdb.head = head /\ fdb.validated = Anc[head] \ Anc[fdb.root] /\ Len(applied) = Num[head]
        /\ ret = "idle" /\ pending = {}
    BY <1>2, <1>10 DEF IrrOK, LogOK
  <2>2. fdb'.validated = Anc[head] \ Anc[LogHead]
    <3>1. CASE LogHead = fdb.root
      BY <1>5, <2>1, <3>1
    <3>2. CASE LogHead # fdb.root
      <4>1. fdb'.validated = {c \in fdb.validated \ {LogHead} : LogHead \in Anc[c]}
        BY <1>2, <1>3, <1>5, <3>2, AdvanceFacts, Zenon
      <4>2. Anc[fdb.root] \subseteq Anc[LogHead] /\ LogHead \in Anc[LogHead]
        BY <1>2, <1>3, AncMonotone, AncStep, Zenon
      <4>3. ASSUME NEW c \in Anc[head], LogHead \in Anc[c], c # LogHead PROVE c \notin Anc[LogHead]
        BY <1>3, <2>1, <4>3, AncMonotone, AncWorse
      <4>4. ASSUME NEW c \in Anc[head], c \notin Anc[LogHead] PROVE LogHead \in Anc[c]
        BY <1>3, <2>1, <4>4, AncLinear
      <4> QED BY <2>1, <4>1, <4>2, <4>3, <4>4
    <3> QED BY <3>1, <3>2
  <2> QED BY <1>3, <1>6, <2>1, <2>2, Zenon
<1>11. committed = Num[LogHead] \/ Lags
  BY <1>2 DEF UpOK
<1>12. toLog' \subseteq Block
  BY <1>5
<1>13. CASE pc = "advance"
  <2>1. Return
    BY <1>5, <1>13
  <2> QED BY <1>1, <1>2, <1>5, <1>6, <1>8, <1>9, <1>10, <1>11, <1>12, <2>1, ReturnStep, Zenon
<1>14. CASE pc = "advance_throw"
  <2>1. ThrowAndAbort
    BY <1>5, <1>14
  <2> QED BY <1>1, <1>2, <1>5, <1>6, <1>8, <1>10, <1>11, <1>12, <2>1, ThrowLogStep, Zenon
<1> QED BY <1>1, <1>13, <1>14

-----------------------------------------------------------------------------

-----------------------------------------------------------------------------
(***************************************************************************)
(* Production.                                                             *)
(***************************************************************************)
\* Nothing the invariant speaks of changes.
LEMMA StutterStep ==
  ASSUME CInv,
         UNCHANGED <<fdb, saved, head, applied, committed, blog, pending, mode, pc, ret, newBranch,
                     oldBranch, todo, toLog, fails, restarts>>
  PROVE  CInv'
<1>1. LogHead' = LogHead /\ (LogChain => LogChain') /\ (Typed => Typed')
  BY DEF LogHead, LogChain, Typed
<1>2. (OnTree => OnTree') /\ (Lags => Lags') /\ (IrrOK => IrrOK')
  BY <1>1, Zenon DEF OnTree, Lags, IrrOK, Logging, Appending
<1>3. SwitchOK => SwitchOK'
  BY <1>1, Zenon DEF SwitchOK, SwitchFrom
<1>4. (LogOK => LogOK') /\ (AppendOK => AppendOK') /\ (PendingOK => PendingOK')
  BY <1>1, <1>2, Zenon DEF LogOK, ReplayOK, AppendOK, PendingOK
<1>5. (UpOK => UpOK') /\ (DownOK => DownOK')
  BY <1>1, <1>2, <1>3, <1>4, Zenon DEF UpOK, DownOK, Switching, Logging, Appending, ReplayOK
<1> QED BY <1>1, <1>5 DEF CInv, Up, Logging, Appending

\* start_block of a producer.
LEMMA StartBlockStep ==
  ASSUME CInv, NEW b \in Mine, StartBlock(b)
  PROVE  CInv'
<1>1. pc = "idle" /\ pending = {} /\ mode = "head" /\ b \notin fdb.index /\ Prev[b] = head
  BY Zenon DEF StartBlock
<1>2. /\ Typed /\ FdbInv(fdb) /\ Closed(fdb) /\ LogChain /\ (~Replays => todo = {})
      /\ OnTree /\ committed = Num[LogHead] /\ fdb.root = LogHead
  BY <1>1, IdleFacts
<1>3. UNCHANGED <<fdb, saved, head, committed, blog, mode, pc, ret, newBranch, oldBranch, todo,
                  toLog, fails, restarts>>
  BY Zenon DEF StartBlock, branch
<1>4. CASE Revision = Num[head]
  <2>1. pending' = {b} /\ applied' = Append(applied, b)
    BY <1>4, Zenon DEF StartBlock
  <2>2. b \in Block \ {Genesis}
    BY ControllerAssumption
  <2>3. /\ applied' \in Seq(Block) /\ committed \in 0..Len(applied')
        /\ Len(applied') = Num[head] + 1
    BY <1>2, <1>4, <2>1, <2>2, AppendApplied, Zenon DEF Typed, Revision
  <2>4. Typed'
    BY <1>2, <1>3, <2>1, <2>3, Zenon DEF Typed
  <2>5. LogHead' = LogHead /\ LogChain' /\ OnTree'
    BY <1>2, <1>3, Zenon DEF LogHead, LogChain, OnTree
  <2>6. PendingOK'
    BY <1>1, <1>3, <2>1, <2>2, <2>3, Zenon DEF PendingOK
  <2>7. UpOK'
    BY <1>1, <1>2, <1>3, <2>5, <2>6, Zenon DEF UpOK, Appending, Switching, Logging
  <2> QED BY <1>1, <1>2, <1>3, <2>4, <2>5, <2>7, Zenon DEF CInv, Up
<1>5. CASE Revision # Num[head]
  BY <1>3, <1>5, StutterStep, Zenon DEF StartBlock
<1> QED BY <1>4, <1>5

\* abort_block.
LEMMA AbortBlockStep ==
  ASSUME CInv, AbortBlock
  PROVE  CInv'
<1>1. pc = "idle" /\ pending # {} /\ pending' = {} /\ applied' = Undo(applied)
  BY DEF AbortBlock
<1>2. /\ Typed /\ FdbInv(fdb) /\ Closed(fdb) /\ LogChain /\ (~Replays => todo = {})
      /\ OnTree /\ committed = Num[LogHead] /\ fdb.root = LogHead /\ mode = "head"
  BY <1>1, IdleFacts
<1>3. UNCHANGED <<fdb, saved, head, committed, blog, mode, pc, ret, newBranch, oldBranch, todo,
                  toLog, fails, restarts>>
  BY DEF AbortBlock, branch
<1>4. applied' \in Seq(Block) /\ committed \in 0..Len(applied')
  BY <1>1, <1>2, UndoFacts, Zenon DEF Typed
<1>5. Typed' /\ LogChain' /\ LogHead' = LogHead /\ OnTree'
  BY <1>1, <1>2, <1>3, <1>4, Zenon DEF Typed, LogChain, LogHead, OnTree
<1> QED BY <1>1, <1>2, <1>3, <1>5, Leaves, Zenon

\* commit_block of a produced block: it is built on head, so that it can be
\* added and validated at once, whether or not it becomes head.
LEMMA CommitBlockStep ==
  ASSUME CInv, NEW b \in Mine, CommitBlock(b)
  PROVE  CInv'
<1>1. pc = "idle" /\ pending = {b} /\ pending # {}
  BY Zenon DEF CommitBlock
<1>2. /\ Typed /\ FdbInv(fdb) /\ Closed(fdb) /\ LogChain /\ (~Replays => todo = {})
      /\ OnTree /\ committed = Num[LogHead] /\ fdb.root = LogHead /\ mode = "head" /\ PendingOK
  BY <1>1, IdleFacts
<1>3. /\ Len(applied) = Num[head] + 1 /\ b \in Block \ {Genesis} /\ Prev[b] = head
      /\ b \notin fdb.index
  BY <1>1, <1>2 DEF PendingOK
<1>4. Linkable(fdb, b)
  BY <1>2, <1>3, FdbFacts, Zenon DEF Linkable, OnTree
<1>5. PICK f : f = add(fdb, b)
  OBVIOUS
<1>6. /\ f.index = fdb.index \cup {b} /\ f.validated = fdb.validated /\ f.root = fdb.root
      /\ FdbInv(f) /\ Closed(f)
  BY <1>2, <1>3, <1>4, <1>5, AddFacts, Zenon
<1>7. Valid(f, Prev[b]) /\ b \in f.index
  BY <1>2, <1>3, <1>6, Zenon DEF OnTree, Valid
<1>8. PICK g : g = mark_valid(f, b)
  OBVIOUS
<1>9. FdbInv(g) /\ Closed(g) /\ g.root = f.root /\ g.validated = f.validated \cup {b}
  BY <1>6, <1>7, <1>8, MarkValidFacts, Zenon
<1>10. fdb' = g
  BY <1>5, <1>8, Zenon DEF CommitBlock
<1>11. Valid(g, head) /\ Valid(g, b)
  BY <1>2, <1>6, <1>9, Zenon DEF OnTree, Valid
<1>12. /\ UNCHANGED <<saved, committed, blog, mode, newBranch, oldBranch, todo, toLog, fails,
                      restarts>>
       /\ ret' = "idle"
  BY Zenon DEF CommitBlock, branch
<1>13. LogHead' = LogHead /\ LogChain'
  BY <1>2, <1>12, Zenon DEF LogHead, LogChain
<1>14. CASE fdb'.head = b
  <2>1. head' = b /\ pc' = "log" /\ UNCHANGED <<pending, applied>>
    BY <1>14 DEF CommitBlock
  <2>2. Anc[b] = Anc[head] \cup {b} /\ Num[b] = Num[head] + 1
    BY <1>3, AncStep
  <2>3. OnTree'
    BY <1>2, <1>10, <1>11, <1>13, <2>1, <2>2, Zenon DEF OnTree
  <2>4. LogOK'
    BY <1>2, <1>3, <1>12, <1>14, <2>1, <2>2, Zenon DEF LogOK
  <2>5. Typed'
    BY <1>2, <1>3, <1>12, <2>1, Zenon DEF Typed, Loops
  <2>6. fdb'.root = LogHead
    BY <1>2, <1>6, <1>9, <1>10, Zenon
  <2>7. UpOK'
    BY <1>2, <1>12, <1>13, <2>1, <2>3, <2>4, <2>6, Zenon DEF UpOK, Appending, Switching
  <2> QED BY <1>2, <1>9, <1>10, <1>12, <1>13, <2>1, <2>5, <2>7, Zenon DEF CInv, Up, Logging
<1>15. CASE fdb'.head # b
  <2>1. pending' = {} /\ applied' = Undo(applied) /\ UNCHANGED <<head, pc>>
    BY <1>15, Zenon DEF CommitBlock
  <2>2. applied' \in Seq(Block) /\ committed \in 0..Len(applied')
    BY <1>2, <2>1, UndoFacts, Zenon DEF Typed
  <2>3. Typed' /\ OnTree'
    BY <1>1, <1>2, <1>10, <1>11, <1>12, <1>13, <2>1, <2>2, Zenon DEF Typed, Loops, OnTree
  <2>4. FdbInv(fdb') /\ Closed(fdb') /\ fdb'.root = LogHead
    BY <1>2, <1>6, <1>9, <1>10
  <2> QED BY <1>1, <1>2, <1>12, <1>13, <2>1, <2>3, <2>4, Leaves, Zenon
<1> QED BY <1>14, <1>15

=============================================================================
