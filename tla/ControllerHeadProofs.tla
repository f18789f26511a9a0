------------------------ MODULE ControllerHeadProofs ------------------------
(***************************************************************************)
(* The revision of the state database is on par with head, and the heads of*)
(* the controller and of the fork database agree: LenInv of a node that is *)
(* Sound, SteadyInv of one whose blocks execute and ResidentInv of one that*)
(* is not started again are kept by every step.                            *)
(***************************************************************************)
EXTENDS ControllerFacts

-----------------------------------------------------------------------------
(***************************************************************************)
(* The revision.                                                           *)
(***************************************************************************)
\* apply_block adds the revision of the block it applies.
LEMMA ApplyLen ==
  ASSUME Typed, NEW b \in Block, ApplyBlock(b), Len(applied) = Num[head], Num[b] = Num[head] + 1
  PROVE  Len(applied') = Num[head']
BY SeqAppend DEF Typed, ApplyBlock

\* A node that starts from genesis has one revision.
LEMMA LenInvInit == Init => LenInv
<1> SUFFICES ASSUME Init PROVE LenInv
  OBVIOUS
<1>1. Len(applied) = Num[head]
  BY ControllerAssumption DEF Init
<1> QED BY <1>1 DEF Init, LenInv, Logging, Appending

\* A handler that logs leaves the revision on par with head.
LEMMA LenLogging ==
  ASSUME CInv', Logging', pc' = "advance_throw" => pending' = {},
         pending' # {} => pending' = {head'}
  PROVE  LenInv'
<1>1. Up'
  BY DEF Logging, Appending, Up
<1>2. Len(applied') = Num[head']
  BY <1>1 DEF CInv, UpOK, LogOK
<1> QED BY <1>2 DEF LenInv

\* Every step keeps the revision on par with head, and no assertion about it fails.
LEMMA LenInvNext ==
  ASSUME Sound, CInv, CInv', LenInv, asserted \cap StateAssertions = {}, Restarted, [Next]_vars
  PROVE  LenInv' /\ asserted' \cap StateAssertions = {}
<1> DEFINE Good == LenInv' /\ asserted' \cap StateAssertions = {}
<1>0. Typed /\ Typed' /\ head \in Block
  BY DEF CInv, Typed
<1>2. ASSUME pc' = "down", asserted' = asserted
      PROVE  Good
  BY <1>2 DEF LenInv, Up, Logging, Appending
<1>3. CASE UNCHANGED vars
  BY <1>3 DEF vars, LenInv, Up, Logging, Appending
<1>4. ASSUME NEW b \in Block, PushBlock(b) PROVE Good
  <2>1. UNCHANGED <<head, applied, pending>> /\ asserted' = asserted /\ pending = {} /\ Up
    BY <1>4 DEF PushBlock, db, Up
  <2>2. pc' # "advance_throw"
    BY <1>4 DEF PushBlock, MaybeSwitchForks
  <2> QED BY <2>1, <2>2 DEF LenInv
<1>5. CASE PopBlock
  <2>1. head # Genesis /\ head \in Block /\ pending = {} /\ committed < Num[head]
        /\ get_block_header(fdb, Prev[head])
    BY <1>5, PopFacts
  <2>2. asserted' = asserted /\ head' = Prev[head] /\ applied' = Undo(applied) /\ pending' = pending
        /\ Up
    BY <1>5, <2>1 DEF PopBlock, Up
  <2>3. Num[Prev[head]] \in Nat /\ Num[head] = Num[Prev[head]] + 1 /\ committed \in Nat
    BY <1>0, <2>1, AncStep, BlockFacts DEF Typed
  <2>4. Len(applied) = Num[Prev[head]] + 1 /\ committed <= Num[Prev[head]]
    BY <2>1, <2>2, <2>3 DEF LenInv
  <2>5. Len(applied') = Num[head']
    BY <1>0, <2>2, <2>3, <2>4, UndoOne
  <2>6. pc' # "advance_throw"
    BY <1>5, Zenon DEF PopBlock, AfterUnwind
  <2> QED BY <2>1, <2>2, <2>5, <2>6 DEF LenInv
<1>6. ASSUME NEW b \in newBranch, ApplyNext(b) PROVE Good
  <2>1. pc \in {"apply_one", "apply"} /\ Switching /\ Prev[b] = head /\ Up
    BY <1>6 DEF ApplyNext, Switching, Up
  <2>2. SwitchOK /\ pending = {}
    BY <2>1, SwitchFacts
  <2>3. PICK oh \in Block, nh \in Block : SwitchFrom(oh, nh)
    BY <2>2 DEF SwitchOK
  <2>4. b \in Block /\ Num[b] = Num[head] + 1
    BY <2>1, <2>3, NextFacts
  <2>5. ApplyBlock(b) /\ asserted' = asserted /\ pending' = {} /\ Len(applied) = Num[head]
    BY <1>6, <2>1, <2>2 DEF ApplyNext, LenInv
  <2>6. Len(applied') = Num[head']
    BY <1>0, <2>4, <2>5, ApplyLen
  <2> QED BY <2>5, <2>6 DEF LenInv
<1>7. ASSUME NEW b \in newBranch, ApplyFails(b) PROVE Good
  <2>1. pc \in {"apply_one", "apply"} /\ Switching /\ Up
    BY <1>7, Zenon DEF ApplyFails, Switching, Up
  <2>2. pending = {} /\ Len(applied) = Num[head]
    BY <2>1, SwitchFacts DEF LenInv
  <2>3. CanRemove(fdb, b)
    BY <1>7, <2>2, CanRemoveFailed
  <2>4. UNCHANGED <<head, applied, pending>> /\ asserted' = asserted
    BY <1>7, <2>3 DEF ApplyFails, db
  <2>5. pc' # "advance_throw"
    BY <1>7, <2>3 DEF ApplyFails, AfterUnwind, Throw
  <2> QED BY <2>1, <2>2, <2>4, <2>5 DEF LenInv
<1>8. ASSUME NEW b \in oldBranch, Reapply(b) PROVE Good
  <2>1. b \in Block /\ Num[b] = Num[head] + 1 /\ pending = {} /\ Up
    BY <1>8, ReapplyFacts DEF Reapply, Up
  <2>2. ApplyBlock(b) /\ asserted' = asserted /\ pending' = {} /\ Len(applied) = Num[head]
    BY <1>8, <2>1 DEF Reapply, LenInv
  <2>3. Len(applied') = Num[head']
    BY <1>0, <2>1, <2>2, ApplyLen
  <2> QED BY <2>2, <2>3 DEF LenInv
<1>9. CASE EmptyBack
  <2>1. pc = "empty_back" /\ Switching /\ Up
    BY <1>9 DEF EmptyBack, Switching, Up
  <2>2. pending = {}
    BY <2>1, SwitchFacts
  <2>3. UNCHANGED <<head, applied, pending>> /\ asserted' = asserted /\ pc' # "advance_throw"
    BY <1>9 DEF EmptyBack, Throw, db
  <2> QED BY <2>1, <2>2, <2>3 DEF LenInv
<1>10. ASSUME Logging PROVE UpOK /\ Len(applied) = Num[head] /\ (pending # {} => mode = "head" /\ ret = "idle")
              /\ Up /\ (pending # {} => pending = {head})
  BY <1>10, LoggingFacts DEF LogOK, Up, Logging, Appending, LenInv
<1>11. CASE BeginLog
  <2>1. pc = "log" /\ Logging /\ ~Appending
    BY <1>11, Zenon DEF BeginLog, Logging, Appending
  <2>2. fdb.root = LastOf(blog)
    BY <1>10, <2>1 DEF UpOK, LogHead
  <2>3. /\ asserted' = asserted /\ head' = head /\ applied' = applied
        /\ pending' = {} \/ (pending' = pending /\ pc' = "append")
        /\ pc' \in {ret, "append"}
    BY <1>11, <2>2 DEF BeginLog, Return
  <2> QED BY <1>0, <1>10, <2>1, <2>3 DEF LenInv, Typed
<1>12. CASE AppendBlock
  <2>1. /\ Logging /\ Logging' /\ pc' # "advance_throw" /\ asserted' = asserted /\ pending' = pending
        /\ mode # "irreversible" => head' = head
    BY <1>12 DEF AppendBlock, Logging, Appending
  <2> QED BY <1>10, <2>1, LenLogging
<1>13. CASE AppendApplyFails
  <2>1. Logging /\ Logging' /\ asserted' = asserted /\ pending' = pending /\ mode = "irreversible"
    BY <1>13 DEF AppendApplyFails, Logging, Appending
  <2> QED BY <1>10, <2>1, LenLogging
<1>14. CASE AppendOutOfSpace
  <2>1. Logging /\ Logging' /\ asserted' = asserted /\ pending' = pending /\ fails < MaxFails
    BY <1>14 DEF AppendOutOfSpace, Logging, Appending
  <2>2. Mine = {}
    BY <1>0, <2>1, ControllerAssumption DEF Sound, Typed
  <2>3. pending = {}
    BY <1>0, <2>2 DEF Typed
  <2> QED BY <2>1, <2>3, LenLogging
<1>15. CASE AdvanceRootToLog
  <2>1. pc \in {"advance", "advance_throw"} /\ Appending /\ Logging
    BY <1>15, Zenon DEF AdvanceRootToLog, Appending, Logging
  <2>2. FdbInv(fdb) /\ Closed(fdb) /\ fdb.root \in Anc[LogHead] /\ LogHead \in Anc[fdb.head]
    BY <2>1, LoggingFacts DEF UpOK, AppendOK
  <2>3. LogHead = fdb.root \/ CanAdvanceRoot(fdb, LogHead)
    BY <2>2, CanAdvance
  <2>4. /\ asserted' = asserted /\ head' = head /\ pending' = {}
        /\ pc = "advance" => pc' = ret /\ applied' = applied
        /\ pc = "advance_throw" => /\ pc' \in {"idle", "down"}
                                   /\ pending = {} => applied' = applied
    BY <1>15, <2>1, <2>3, Zenon DEF AdvanceRootToLog, LogHead, Return, ThrowAndAbort, Throw
  <2>5. applied' = applied /\ pc' \in {ret, "idle", "down"}
    BY <2>1, <2>4 DEF LenInv
  <2> QED BY <1>0, <1>10, <2>1, <2>4, <2>5 DEF LenInv, Typed, Logging, Appending
<1>16. CASE ReplayPushBlock
  <2>1. UNCHANGED <<head, applied, pending>> /\ asserted' = asserted /\ Up /\ pc = "replay"
    BY <1>16 DEF ReplayPushBlock, db, Up
  <2>2. pending = {}
    BY <2>1 DEF CInv, Logging, Appending
  <2>3. pc' # "advance_throw"
    BY <1>16 DEF ReplayPushBlock, Throw, MaybeSwitchForks
  <2> QED BY <2>1, <2>2, <2>3 DEF LenInv
<1>17. CASE InitBestBranch
  <2>1. UNCHANGED <<head, applied, pending>> /\ asserted' = asserted /\ Up /\ pc \in {"replay", "init"}
    BY <1>17 DEF InitBestBranch, db, Up
  <2>2. pending = {}
    BY <2>1 DEF CInv, Logging, Appending
  <2>3. pc' # "advance_throw"
    BY <1>17 DEF InitBestBranch, MaybeSwitchForks
  <2> QED BY <2>1, <2>2, <2>3 DEF LenInv
<1>18. ASSUME NEW b \in Mine, StartBlock(b) PROVE Good
  <2>1. pc = "idle" /\ pc' = "idle" /\ Up /\ pending = {} /\ head' = head
    BY <1>18, Zenon DEF StartBlock, Up
  <2>2. Revision = Num[head]
    BY <2>1 DEF LenInv, Revision
  <2>3. pending' = {b} /\ asserted' = asserted
    BY <1>18, <2>2 DEF StartBlock
  <2> QED BY <2>1, <2>3 DEF LenInv, Logging, Appending
<1>19. CASE AbortBlock
  <2>1. pc = "idle" /\ pc' = "idle" /\ pending # {} /\ head' = head /\ asserted' = asserted
        /\ applied' = Undo(applied)
    BY <1>19 DEF AbortBlock
  <2>2. Len(applied') = Num[head']
    BY <2>1, ProducingFacts, UndoOne
  <2> QED BY <2>1, <2>2 DEF LenInv, Logging, Appending
<1>20. ASSUME NEW b \in Mine, CommitBlock(b) PROVE Good
  <2>1. pc = "idle" /\ pending = {b}
    BY <1>20, Zenon DEF CommitBlock
  <2>2. CASE fdb'.head = b
    <3>1. pc' = "log" /\ Logging' /\ pending' = {head'} /\ asserted' = asserted
      BY <1>20, <2>1, <2>2 DEF CommitBlock, Logging
    <3> QED BY <3>1, LenLogging
  <2>3. CASE fdb'.head # b
    <3>1. /\ pc' = "idle" /\ applied' = Undo(applied) /\ head' = head /\ pending' = {}
          /\ asserted' = asserted \cup {"produced block is not head"}
      BY <1>20, <2>1, <2>3, Zenon DEF CommitBlock, Asserts
    <3>2. Len(applied') = Num[head']
      BY <2>1, <3>1, ProducingFacts, UndoOne, Zenon
    <3> QED BY <3>1, <3>2, Zenon DEF LenInv, Logging, Appending, StateAssertions
  <2> QED BY <2>2, <2>3
<1>21. CASE Shutdown \/ InterruptReplay \/ Die
  BY <1>2, <1>21 DEF Shutdown, InterruptReplay, Die
<1>22. ASSUME NEW m \in Modes, NEW n, Startup(m, n) PROVE Good
  <2>1. Len(applied') = Num[head'] /\ asserted' = asserted
    BY <1>22 DEF Startup, Restarted, Started
  <2>2. pc' \in {"down", "replay"}
    BY <1>22, Zenon DEF Startup, InitFrom
  <2> QED BY <2>1, <2>2 DEF LenInv, Logging, Appending
<1>23. ASSUME NEW m \in Modes, NEW n, ReplayBlockchain(m, n) PROVE Good
  <2>1. Len(applied') = Num[head'] /\ asserted' = asserted
    BY <1>23 DEF ReplayBlockchain, Restarted, Replayed
  <2>2. pc' \in {"down", "replay"}
    BY <1>23, Zenon DEF ReplayBlockchain, InitFrom
  <2> QED BY <2>1, <2>2 DEF LenInv, Logging, Appending
<1> QED
  BY <1>3, <1>4, <1>5, <1>6, <1>7, <1>8, <1>9, <1>11, <1>12, <1>13, <1>14, <1>15, <1>16, <1>17,
     <1>18, <1>19, <1>20, <1>21, <1>22, <1>23 DEF Next, Wait, Continue, Produce, Restart

-----------------------------------------------------------------------------
(***************************************************************************)
(* Preference.                                                             *)
(***************************************************************************)
\* first_preferred is a strict weak order.
LEMMA PreferenceFacts ==
  ASSUME NEW a \in Block, NEW b \in Block, NEW c \in Block
  PROVE  /\ ~first_preferred(a, a)
         /\ first_preferred(a, b) => ~first_preferred(b, a)
         /\ ~first_preferred(a, b) /\ first_preferred(c, b) => ~first_preferred(a, c) /\ first_preferred(c, a)
         /\ ~first_preferred(a, b) /\ ~first_preferred(b, c) => ~first_preferred(a, c)
         /\ first_preferred(a, b) /\ ~first_preferred(c, b) => first_preferred(a, c)
         /\ first_preferred(a, b) /\ first_preferred(b, c) => first_preferred(a, c)
BY BlockFacts DEF first_preferred

\* A block is preferred to the one it is built on.
LEMMA PrevWorse ==
  ASSUME NEW b \in Block, b # Genesis
  PROVE  first_preferred(b, Prev[b]) /\ Prev[b] \in Block
<1>1. Prev[b] \in Block /\ Prev[b] \in Anc[Prev[b]] /\ Anc[b] = Anc[Prev[b]] \cup {b} /\ Num[b] = Num[Prev[b]] + 1
  BY AncStep
<1>2. Prev[b] \in Anc[b] /\ Prev[b] # b
  BY <1>1, BlockFacts
<1> QED BY <1>1, <1>2, AncWorse

\* No block the fork database holds is preferred to its pending_head.
LEMMA PendingHeadQuiet ==
  ASSUME NEW f, FdbInv(f), NEW nh, nh = pending_head(f)
  PROVE  Quiet(f, nh)
<1> DEFINE U == Unvalidated(f)
<1>1. /\ f.head \in Block /\ f.index \subseteq Block /\ U \in SUBSET Block
      /\ \A v \in f.validated : ~first_preferred(v, f.head)
      /\ \A u \in f.index : u \in f.validated \/ u \in U
  BY FdbFacts DEF FdbInv, Unvalidated
<1>2. ASSUME U # {} PROVE FirstOf(U) \in Block /\ \A u \in U : ~first_preferred(u, FirstOf(U))
  BY <1>1, <1>2, FirstOfIsFirst
<1>3. CASE U # {} /\ first_preferred(FirstOf(U), f.head)
  <2>1. nh = FirstOf(U)
    BY <1>3 DEF pending_head
  <2> QED BY <1>1, <1>2, <1>3, <2>1, PreferenceFacts DEF Quiet
<1>4. CASE ~(U # {} /\ first_preferred(FirstOf(U), f.head))
  <2>1. nh = f.head
    BY <1>4 DEF pending_head
  <2>2. ASSUME NEW u \in U PROVE ~first_preferred(u, f.head)
    <3>1. u \in Block /\ FirstOf(U) \in Block /\ ~first_preferred(u, FirstOf(U))
          /\ ~first_preferred(FirstOf(U), f.head)
      BY <1>1, <1>2, <1>4
    <3> QED BY <1>1, <3>1, PreferenceFacts
  <2> QED BY <1>1, <2>1, <2>2 DEF Quiet
<1> QED BY <1>3, <1>4

\* The fork database after commit_block added the block it produced.
Produced(f, b) == mark_valid(add(f, b), b)

\* A block built on a head that the fork database's head is not preferred to
\* becomes head when commit_block adds and validates it.
LEMMA ProducedIsHead ==
  ASSUME NEW f, FdbInv(f), Closed(f), NEW b \in Block \ {Genesis}, Prev[b] \in Block,
         Valid(f, Prev[b]), ~first_preferred(f.head, Prev[b]), b \notin f.index
  PROVE  /\ Produced(f, b).head = b /\ Produced(f, b).index = f.index \cup {b}
         /\ Produced(f, b).validated = f.validated \cup {b} /\ Produced(f, b).root = f.root
         /\ \A v \in f.validated : first_preferred(b, v)
<1> DEFINE h == Prev[b]
<1>0. PICK g : g = Produced(f, b)
  OBVIOUS
<1>1. PICK e : e = add(f, b)
  OBVIOUS
<1>2. Linkable(f, b)
  BY FdbFacts DEF Linkable
<1>3. /\ FdbInv(e) /\ Closed(e) /\ e.index = f.index \cup {b} /\ e.validated = f.validated
      /\ e.root = f.root
  BY <1>1, <1>2, AddFacts
<1>4. f.head \in Block /\ f.validated \subseteq f.index /\ f.index \subseteq Block /\ e.head \in Block
  BY <1>3, FdbFacts, Zenon
<1>5. first_preferred(b, h)
  BY PrevWorse
<1>6. ASSUME NEW v \in f.validated PROVE first_preferred(b, v)
  <2>1. ~first_preferred(v, f.head) /\ v \in Block
    BY <1>4 DEF FdbInv
  <2>2. ~first_preferred(v, h)
    BY <1>4, <2>1, PreferenceFacts
  <2> QED BY <1>5, <2>1, <2>2, PreferenceFacts
<1>7. first_preferred(b, e.head)
  <2>1. CASE e.head \in e.validated
    BY <1>3, <1>6, <2>1
  <2>2. CASE e.head = e.root
    <3>1. e.root \in Anc[h]
      BY <1>3, FdbFacts
    <3>2. ~first_preferred(e.root, h)
      BY <3>1, AncWorse, PreferenceFacts
    <3> QED BY <1>4, <1>5, <2>2, <3>2, PreferenceFacts
  <2> QED BY <1>3, <2>1, <2>2, FdbFacts DEF Valid
<1>8. b \notin e.validated
  BY <1>3, <1>4
<1>9. FirstOf(e.validated \cup {b}) = b
  <2>1. e.validated \cup {b} \in SUBSET Block /\ b \in e.validated \cup {b}
    BY <1>3, <1>4
  <2>2. \A c \in (e.validated \cup {b}) \ {b} : first_preferred(b, c)
    BY <1>3, <1>6
  <2> QED BY <2>1, <2>2, FirstOfBest
<1>10. /\ g.index = e.index /\ g.root = e.root /\ g.validated = e.validated \cup {b}
       /\ g.head = IF first_preferred(FirstOf(e.validated \cup {b}), e.head)
                   THEN FirstOf(e.validated \cup {b}) ELSE e.head
  BY <1>0, <1>1, <1>3, <1>8 DEF Produced, mark_valid, FdbInv, ForkDb
<1> QED BY <1>0, <1>3, <1>6, <1>7, <1>9, <1>10, Zenon

-----------------------------------------------------------------------------
(***************************************************************************)
(* A node that is not started again.                                       *)
(***************************************************************************)
\* Where the fork database's head is not preferred to the controller's.
LEMMA QuietHead ==
  ASSUME NEW f, FdbInv(f), NEW h \in Block, Valid(f, h), Quiet(f, h)
  PROVE  ~first_preferred(f.head, h) /\ ~first_preferred(h, f.head)
<1>1. /\ Valid(f, f.head) /\ f.head \in Block /\ f.root \in Block /\ f.root \in Anc[h]
      /\ f.root \in Anc[f.head] /\ f.validated \subseteq f.index
  BY FdbFacts
<1>2. \A v \in f.validated : ~first_preferred(v, f.head)
  BY DEF FdbInv
<1>3. ~first_preferred(f.root, h) /\ ~first_preferred(f.root, f.head)
  BY <1>1, AncWorse, PreferenceFacts
<1> QED BY <1>1, <1>2, <1>3 DEF Valid, Quiet

\* push_block switches to the only block that may be preferred to head.
LEMMA ResidentPush ==
  ASSUME CInv, ResidentInv, NEW b \in Block, PushBlock(b)
  PROVE  ResidentInv'
<1>1. /\ Typed /\ FdbInv(fdb) /\ Closed(fdb) /\ OnTree /\ fdb.root = LogHead
      /\ pc = "idle" /\ pending = {} /\ Linkable(fdb, b) /\ fdb' = add(fdb, b)
      /\ mode' = mode /\ head' = head /\ head \in Block
  BY IdleFacts, Zenon DEF PushBlock, Typed
<1>2. PICK g : g = fdb'
  OBVIOUS
<1>3. /\ FdbInv(g) /\ Closed(g) /\ g.index = fdb.index \cup {b} /\ g.validated = fdb.validated
      /\ g.root = fdb.root
  BY <1>1, <1>2, AddFacts
<1>4. CASE mode = "irreversible"
  BY <1>1, <1>4 DEF PushBlock, ResidentInv, Switching
<1>5. CASE mode # "irreversible"
  <2>1. PICK nh : nh = pending_head(g)
    OBVIOUS
  <2>2. MaybeSwitchForks(nh, "idle") /\ mode = "head"
    BY <1>1, <1>2, <1>5, <2>1, ControllerAssumption DEF PushBlock, Typed
  <2>3. Quiet(fdb, head)
    BY <1>1, <2>2 DEF ResidentInv, Switching
  <2>4. Valid(fdb, head) /\ Valid(g, head)
    BY <1>1, <1>3 DEF OnTree, Valid
  <2>5. /\ get_block_header(g, nh) /\ nh \in Block /\ Quiet(g, nh)
        /\ nh = g.head \/ first_preferred(nh, g.head)
    BY <1>3, <2>1, PendingHeadFacts, PendingHeadQuiet, FdbFacts, Zenon
  <2>6. ~first_preferred(head, nh)
    <3>1. head = g.root \/ ~first_preferred(head, g.head)
      BY <1>3, <2>4 DEF Valid, FdbInv
    <3>2. ~first_preferred(g.root, g.head) /\ g.head \in Block /\ g.root \in Block
      <4>1. g.root \in Anc[g.head] /\ g.head \in Block /\ g.root \in Block
        BY <1>3, FdbFacts
      <4> QED BY <4>1, AncWorse, PreferenceFacts
    <3>3. ~first_preferred(head, g.head)
      BY <3>1, <3>2
    <3> QED BY <1>1, <2>5, <3>2, <3>3, PreferenceFacts, Zenon
  <2>7. ASSUME NEW u \in g.index \ {nh} PROVE ~first_preferred(u, head)
    <3>1. CASE u \in fdb.index
      BY <2>3, <3>1 DEF Quiet
    <3>2. CASE u = b
      <4>1. ~first_preferred(b, nh)
        BY <1>3, <2>5 DEF Quiet
      <4>2. nh = fdb.root \/ nh \in fdb.index
        BY <1>3, <2>5, <2>7, <3>2 DEF get_block_header
      <4>3. ~first_preferred(fdb.root, head)
        <5>1. fdb.root \in Anc[head]
          BY <1>1, <2>4, FdbFacts
        <5> QED BY <1>1, <5>1, AncWorse, PreferenceFacts, Zenon
      <4>4. ~first_preferred(nh, head)
        BY <2>3, <4>2, <4>3 DEF Quiet
      <4> QED BY <1>1, <2>5, <3>2, <4>1, <4>4, NotPreferredTransitive, Zenon
    <3> QED BY <1>3, <3>1, <3>2
  <2>8. /\ newBranch' = Anc[nh] \ Anc[head] /\ oldBranch' = Anc[head] \ Anc[nh] /\ ret' = "idle"
        /\ pc' = IF nh = head THEN "idle" ELSE IF Prev[nh] = head THEN "apply_one"
                 ELSE IF oldBranch' # {} THEN "pop" ELSE "apply"
    BY <2>2 DEF MaybeSwitchForks, fetch_branch_from
  <2>9. CASE nh = head
    <3>1. Quiet(fdb', head')
      BY <1>1, <1>2, <2>5, <2>9
    <3> QED BY <2>8, <2>9, <3>1 DEF ResidentInv, Switching
  <2>10. CASE nh # head
    <3>1. nh \in g.index
      <4>1. ASSUME nh = g.root PROVE FALSE
        <5>1. nh \in Anc[head]
          BY <1>3, <2>4, <4>1, FdbFacts
        <5> QED BY <1>1, <2>6, <2>10, <5>1, AncWorse
      <4> QED BY <2>5, <4>1 DEF get_block_header
    <3>2. ASSUME oldBranch' = {}, Prev[nh] # head PROVE FALSE
      <4>1. head \in Anc[nh] /\ nh # Genesis
        BY <1>1, <1>3, <2>8, <3>1, <3>2, AncStep, FdbFacts, Zenon
      <4>2. Prev[nh] \in Block /\ Anc[nh] = Anc[Prev[nh]] \cup {nh} /\ first_preferred(nh, Prev[nh])
        BY <2>5, <4>1, AncStep, PrevWorse, Zenon
      <4>3. head \in Anc[Prev[nh]]
        BY <2>10, <4>1, <4>2
      <4>4. first_preferred(Prev[nh], head)
        BY <3>2, <4>2, <4>3, AncWorse
      <4>5. get_block_header(g, Prev[nh])
        BY <1>3, <3>1, FdbInvImplies DEF Linked
      <4>6. Prev[nh] # nh
        <5>1. ~first_preferred(nh, nh)
          BY <2>5, PreferenceFacts
        <5> QED BY <4>2, <5>1
      <4>7. Prev[nh] = g.root
        BY <2>7, <4>4, <4>5, <4>6 DEF get_block_header
      <4>8. g.root \in Anc[head]
        BY <1>3, <2>4, FdbFacts
      <4> QED BY <1>1, <3>2, <4>4, <4>7, <4>8, AncWorse
    <3>3. QuietSwitch(head, nh)'
      BY <1>1, <1>2, <2>6, <2>7, <2>8, <2>10, <3>1, <3>2 DEF QuietSwitch
    <3>4. pc' \in {"apply_one", "pop", "apply"}
      BY <2>8, <2>10
    <3>5. \E oh, n \in Block : QuietSwitch(oh, n)'
      BY <1>1, <2>5, <3>3
    <3> QED BY <2>8, <3>4, <3>5 DEF ResidentInv, Switching
  <2> QED BY <2>9, <2>10
<1> QED BY <1>4, <1>5

\* The top of the branch from x's side is its last block.
LEMMA BranchTop ==
  ASSUME NEW y \in Block, NEW x \in Block, NEW b \in Anc[y] \ Anc[x],
         ~(\E c \in Anc[y] \ Anc[x] : Num[c] > Num[b])
  PROVE  b = y
<1>1. b \in Block /\ y \in Anc[y] /\ Num[b] \in Nat /\ Num[y] \in Nat
  BY AncStep, AncMonotone, BlockFacts
<1>2. y \notin Anc[x]
  <2>1. y \in Anc[x] => Anc[y] \subseteq Anc[x]
    BY AncMonotone
  <2> QED BY <2>1
<1>3. ASSUME b # y PROVE FALSE
  <2>1. Num[b] < Num[y]
    BY <1>1, <1>3, AncMonotone
  <2> QED BY <1>1, <1>2, <2>1
<1> QED BY <1>3

\* pop_block does not change what the switch is about.
LEMMA ResidentPop ==
  ASSUME CInv, ResidentInv, PopBlock
  PROVE  ResidentInv'
<1>1. pc \in {"pop", "unwind"} /\ Switching /\ ret = "idle"
  BY Zenon DEF PopBlock, Switching, ResidentInv
<1>2. PICK oh \in Block, nh \in Block : QuietSwitch(oh, nh)
  BY <1>1 DEF ResidentInv
<1>3. fdb' = fdb /\ newBranch' = newBranch /\ oldBranch' = oldBranch /\ ret' = ret
  BY Zenon DEF PopBlock, branch
<1>4. oldBranch # {}
  BY <1>1, <1>2 DEF QuietSwitch
<1>5. /\ pc = "pop" => pc' \in {"pop", "apply"}
      /\ pc = "unwind" => pc' \in {"unwind", "reapply"}
  BY <1>1, <1>4, Zenon DEF PopBlock, AfterUnwind
<1>6. QuietSwitch(oh, nh)'
  BY <1>1, <1>2, <1>3, <1>4, <1>5 DEF QuietSwitch
<1>7. \E x, y \in Block : QuietSwitch(x, y)'
  BY <1>6
<1> QED BY <1>1, <1>3, <1>5, <1>7 DEF ResidentInv, Switching

\* The next block of the new branch: the last one is the best block known.
LEMMA ResidentApply ==
  ASSUME CInv, ResidentInv, NEW b \in newBranch, ApplyNext(b)
  PROVE  ResidentInv'
<1>1. pc \in {"apply_one", "apply"} /\ Switching /\ ret = "idle" /\ Prev[b] = head
  BY Zenon DEF ApplyNext, Switching, ResidentInv
<1>2. PICK oh \in Block, nh \in Block : QuietSwitch(oh, nh)
  BY <1>1 DEF ResidentInv
<1>3. FdbInv(fdb) /\ Closed(fdb) /\ OnTree /\ SwitchOK /\ mode = "head"
  BY <1>1, SwitchFacts
<1>4. b \in fdb.index /\ b \in Block
  <2>1. PICK x \in Block, y \in Block : SwitchFrom(x, y)
    BY <1>3 DEF SwitchOK
  <2> QED BY <1>1, <2>1, NextFacts
<1>5. /\ fdb' = mark_valid(fdb, b) /\ head' = b /\ newBranch' = newBranch /\ oldBranch' = oldBranch
      /\ ret' = ret /\ mode' = mode
      /\ pc' = IF \E c \in newBranch : Num[c] > Num[b] THEN pc ELSE "log"
  BY DEF ApplyNext, ApplyBlock, branch
<1>6. fdb'.index = fdb.index
  BY <1>1, <1>3, <1>4, <1>5, MarkValidFacts, Zenon DEF OnTree
<1>7. CASE \E c \in newBranch : Num[c] > Num[b]
  <2>1. pc # "apply_one"
    <3>1. ASSUME pc = "apply_one" PROVE FALSE
      <4>1. Prev[nh] = oh /\ newBranch = Anc[nh] \ Anc[oh] /\ nh \in fdb.index
        BY <1>2, <3>1 DEF QuietSwitch
      <4>2. nh # Genesis
        BY <1>3, <4>1, FdbFacts
      <4>3. Anc[nh] = Anc[oh] \cup {nh}
        BY <4>1, <4>2, AncStep, Zenon
      <4>4. newBranch \subseteq {nh}
        BY <4>1, <4>3, Zenon
      <4>5. PICK c \in newBranch : Num[c] > Num[b]
        BY <1>7, Zenon
      <4>6. c = nh /\ b = nh
        BY <4>4, Zenon
      <4>7. Num[b] \in Nat
        BY <1>4, BlockFacts, Zenon
      <4> QED BY <4>5, <4>6, <4>7
    <3> QED BY <3>1
  <2>2. pc = "apply" /\ pc' = "apply"
    BY <1>1, <1>5, <1>7, <2>1
  <2>3. QuietSwitch(oh, nh)'
    BY <1>2, <1>5, <1>6, <2>2, Zenon DEF QuietSwitch
  <2>4. \E x, y \in Block : QuietSwitch(x, y)'
    BY <2>3
  <2> QED BY <1>1, <1>5, <2>2, <2>4 DEF ResidentInv, Switching
<1>8. CASE ~\E c \in newBranch : Num[c] > Num[b]
  <2>1. b = nh
    BY <1>2, <1>8, BranchTop, Zenon DEF QuietSwitch
  <2>2. ASSUME NEW u \in fdb.index PROVE ~first_preferred(u, nh)
    <3>1. u \in Block
      BY <1>3, FdbFacts, Zenon
    <3>2. CASE u = nh
      BY <3>2, PreferenceFacts
    <3>3. CASE u # nh
      <4>1. ~first_preferred(u, oh) /\ ~first_preferred(oh, nh)
        BY <1>1, <1>2, <3>3 DEF QuietSwitch
      <4> QED BY <3>1, <4>1, NotPreferredTransitive
    <3> QED BY <3>2, <3>3
  <2>3. Quiet(fdb', head') /\ pc' = "log"
    BY <1>5, <1>6, <1>8, <2>1, <2>2 DEF Quiet
  <2> QED BY <1>1, <1>5, <2>3, Zenon DEF ResidentInv, Switching
<1> QED BY <1>7, <1>8

\* A block that fails takes the head of the new branch with it.
LEMMA ResidentFails ==
  ASSUME CInv, ResidentInv, LenInv, NEW b \in newBranch, ApplyFails(b)
  PROVE  ResidentInv'
<1>1. pc \in {"apply_one", "apply"} /\ Switching /\ ret = "idle" /\ Prev[b] = head /\ Up
  BY Zenon DEF ApplyFails, Switching, ResidentInv, Up
<1>2. PICK oh \in Block, nh \in Block : QuietSwitch(oh, nh)
  BY <1>1 DEF ResidentInv
<1>3. FdbInv(fdb) /\ Closed(fdb) /\ OnTree /\ SwitchOK /\ mode = "head" /\ pending = {}
  BY <1>1, SwitchFacts
<1>4. b \in fdb.index /\ b \in Block
  <2>1. PICK x \in Block, y \in Block : SwitchFrom(x, y)
    BY <1>3 DEF SwitchOK
  <2> QED BY <1>1, <2>1, NextFacts
<1>5. CanRemove(fdb, b)
  BY <1>1, <1>3, CanRemoveFailed DEF LenInv
<1>6. /\ fdb' = remove(fdb, b) /\ head' = head /\ newBranch' = newBranch /\ oldBranch' = oldBranch
      /\ ret' = ret /\ mode' = mode
      /\ pc = "apply_one" => pc' = "idle"
      /\ pc = "apply" => pc' \in {"unwind", AfterUnwind}
  BY <1>1, <1>5, Zenon DEF ApplyFails, Throw, branch
<1>7. fdb'.index = fdb.index \ Subtree(fdb.index, b)
  BY <1>3, <1>6 DEF remove, FdbInv, ForkDb
<1>8. nh \in Subtree(fdb.index, b)
  <2>1. nh \in fdb.index /\ b \in Anc[nh]
    BY <1>1, <1>2 DEF QuietSwitch
  <2>2. Anc[nh] \ Anc[fdb.root] \subseteq fdb.index /\ fdb.root \in Anc[b]
    BY <1>3, <1>4, <2>1, FdbFacts DEF get_block_header
  <2>3. Anc[fdb.root] \subseteq Anc[b]
    BY <1>4, <2>2, AncMonotone
  <2> QED BY <2>1, <2>2, <2>3 DEF Subtree
<1>9. fdb'.index \subseteq fdb.index \ {nh}
  BY <1>7, <1>8
<1>10. \A u \in fdb'.index : ~first_preferred(u, oh)
  BY <1>2, <1>9 DEF QuietSwitch
<1>11. CASE pc = "apply_one"
  <2>1. Quiet(fdb', head')
    BY <1>2, <1>6, <1>10, <1>11 DEF Quiet, QuietSwitch
  <2> QED BY <1>1, <1>6, <1>11, <2>1 DEF ResidentInv, Switching
<1>12. CASE pc = "apply"
  <2>1. pc' \in {"unwind", "reapply"} /\ oldBranch # {}
    BY <1>2, <1>6, <1>12 DEF AfterUnwind, QuietSwitch
  <2>2. QuietSwitch(oh, nh)'
    BY <1>2, <1>6, <1>9, <1>10, <2>1, Zenon DEF QuietSwitch
  <2>3. \E x, y \in Block : QuietSwitch(x, y)'
    BY <2>2
  <2> QED BY <1>1, <1>6, <2>1, <2>3 DEF ResidentInv, Switching
<1> QED BY <1>1, <1>11, <1>12

\* The old branch again: its last block is the best that is left.
LEMMA ResidentReapply ==
  ASSUME CInv, ResidentInv, NEW b \in oldBranch, Reapply(b)
  PROVE  ResidentInv'
<1>1. pc = "reapply" /\ Switching /\ ret = "idle"
  BY Zenon DEF Reapply, Switching, ResidentInv
<1>2. PICK oh \in Block, nh \in Block : QuietSwitch(oh, nh)
  BY <1>1 DEF ResidentInv
<1>3. /\ fdb' = fdb /\ head' = b /\ newBranch' = newBranch /\ oldBranch' = oldBranch
      /\ ret' = ret /\ mode' = mode
      /\ pc' = IF \E c \in oldBranch : Num[c] > Num[b] THEN pc ELSE "idle"
  BY <1>1, ReapplyFacts, Zenon DEF Reapply, ApplyBlock, branch, Throw
<1>4. CASE \E c \in oldBranch : Num[c] > Num[b]
  <2>1. QuietSwitch(oh, nh)'
    BY <1>1, <1>2, <1>3, <1>4, Zenon DEF QuietSwitch
  <2>2. \E x, y \in Block : QuietSwitch(x, y)'
    BY <2>1
  <2> QED BY <1>1, <1>3, <1>4, <2>2 DEF ResidentInv, Switching
<1>5. CASE ~\E c \in oldBranch : Num[c] > Num[b]
  <2>1. b = oh
    BY <1>2, <1>5, BranchTop, Zenon DEF QuietSwitch
  <2>2. Quiet(fdb', head')
    BY <1>1, <1>2, <1>3, <2>1 DEF Quiet, QuietSwitch
  <2> QED BY <1>1, <1>3, <1>5, <2>2 DEF ResidentInv, Switching
<1> QED BY <1>4, <1>5

\* What does not make a better block known and does not move head.
LEMMA ResidentKept ==
  ASSUME ResidentInv, ~Switching, pc' \in {"idle", "log", "append", "advance", "advance_throw"},
         ret' = "idle", mode' = mode,
         mode = "head" => head' = head /\ fdb'.index \subseteq fdb.index
  PROVE  ResidentInv'
BY DEF ResidentInv, Switching, Quiet

\* A produced block is the best block known.
LEMMA ResidentCommit ==
  ASSUME CInv, ResidentInv, NEW b \in Mine, CommitBlock(b)
  PROVE  ResidentInv' /\ asserted' = asserted
<1>1. pc = "idle" /\ pending = {b} /\ ret' = "idle" /\ mode' = mode /\ fdb' = mark_valid(add(fdb, b), b)
  BY Zenon DEF CommitBlock
<1>2. /\ FdbInv(fdb) /\ Closed(fdb) /\ OnTree /\ mode = "head" /\ head \in Block
      /\ b \in Block \ {Genesis} /\ Prev[b] = head /\ b \notin fdb.index
  BY <1>1, ProducingFacts
<1>3. Quiet(fdb, head) /\ Valid(fdb, head)
  BY <1>1, <1>2, Zenon DEF ResidentInv, Switching, OnTree
<1>4. ~first_preferred(fdb.head, head)
  BY <1>2, <1>3, QuietHead, Zenon
<1>5. fdb'.head = b /\ fdb'.index = fdb.index \cup {b}
  <2>1. /\ Prev[b] \in Block /\ Valid(fdb, Prev[b]) /\ ~first_preferred(fdb.head, Prev[b])
        /\ fdb' = Produced(fdb, b)
    BY <1>1, <1>2, <1>3, <1>4, Zenon DEF Produced
  <2> QED BY <1>2, <2>1, ProducedIsHead, Zenon
<1>6. head' = b /\ pc' = "log" /\ asserted' = asserted
  BY <1>5 DEF CommitBlock
<1>7. ASSUME NEW u \in fdb.index \cup {b} PROVE ~first_preferred(u, b)
  <2>1. u \in Block
    BY <1>2, FdbFacts
  <2>2. first_preferred(b, head)
    BY <1>2, PrevWorse
  <2> QED BY <1>2, <1>3, <2>1, <2>2, PreferenceFacts, Zenon DEF Quiet
<1>8. Quiet(fdb', head')
  BY <1>5, <1>6, <1>7 DEF Quiet
<1> QED BY <1>1, <1>6, <1>8 DEF ResidentInv, Switching

\* Every step of a node that is not started again keeps it on the best block it
\* knows, and a block it produces becomes head.
LEMMA ResidentNext ==
  ASSUME Resident, CInv, LenInv, ResidentInv, [Next]_vars,
         asserted \cap ProducedAssertion = {}
  PROVE  ResidentInv' /\ asserted' \cap ProducedAssertion = {}
<1> DEFINE Good == ResidentInv' /\ asserted' \cap ProducedAssertion = {}
<1>0. ~(restarts < MaxRestarts)
  <2>1. restarts \in 0..MaxRestarts /\ MaxRestarts = 0
    BY DEF CInv, Typed, Resident
  <2> QED BY <2>1
<1>1. /\ pc \notin {"down", "replay", "init", "empty_back"} /\ ret = "idle"
  BY DEF ResidentInv
<1>2. CASE UNCHANGED vars
  BY <1>2, Zenon DEF vars, ResidentInv, QuietSwitch, Quiet, Switching
<1>3. ASSUME NEW b \in Block, PushBlock(b) PROVE Good
  BY <1>3, ResidentPush DEF PushBlock
<1>4. CASE PopBlock
  <2>1. asserted' \subseteq asserted \cup {"pop beyond LIB"}
    BY <1>4, Zenon DEF PopBlock, Asserts
  <2> QED BY <1>4, <2>1, ResidentPop, Zenon DEF ProducedAssertion
<1>5. ASSUME NEW b \in newBranch, ApplyNext(b) PROVE Good
  BY <1>5, ResidentApply, Zenon DEF ApplyNext
<1>6. ASSUME NEW b \in newBranch, ApplyFails(b) PROVE Good
  <2>1. asserted' \subseteq asserted \cup {"remove head"}
    BY <1>6, Zenon DEF ApplyFails, Asserts
  <2> QED BY <1>6, <2>1, ResidentFails, Zenon DEF ProducedAssertion
<1>7. ASSUME NEW b \in oldBranch, Reapply(b) PROVE Good
  BY <1>7, ResidentReapply DEF Reapply
<1>8. CASE BeginLog
  <2>1. /\ ~Switching /\ pc' \in {"idle", "append"} /\ ret' = "idle" /\ mode' = mode
        /\ head' = head /\ fdb' = fdb
    BY <1>1, <1>8, Zenon DEF BeginLog, Switching, Return, ThrowAndAbort, Throw
  <2>2. asserted' \subseteq asserted \cup {"root is not block log head"}
    BY <1>8, Zenon DEF BeginLog, Asserts
  <2> QED BY <2>1, <2>2, ResidentKept, Zenon DEF ProducedAssertion
<1>9. CASE AppendBlock
  <2>1. /\ ~Switching /\ pc' \in {"append", "advance"} /\ ret' = "idle" /\ mode' = mode
        /\ mode # "irreversible" => head' = head /\ fdb' = fdb
        /\ asserted' = asserted
    BY <1>1, <1>9 DEF AppendBlock, Switching
  <2> QED BY <2>1, ResidentKept
<1>10. CASE AppendApplyFails
  <2>1. /\ ~Switching /\ pc' = "advance_throw" /\ ret' = "idle" /\ mode' = mode
        /\ head' = head /\ fdb' = fdb /\ asserted' = asserted
    BY <1>1, <1>10 DEF AppendApplyFails, Switching
  <2> QED BY <2>1, ResidentKept
<1>11. CASE AppendOutOfSpace
  <2>1. /\ ~Switching /\ pc' = "advance_throw" /\ ret' = "idle" /\ mode' = mode
        /\ mode # "irreversible" => head' = head /\ fdb' = fdb
        /\ asserted' = asserted
    BY <1>1, <1>11 DEF AppendOutOfSpace, Switching
  <2> QED BY <2>1, ResidentKept
<1>12. CASE AdvanceRootToLog
  <2>1. pc \in {"advance", "advance_throw"} /\ Appending /\ Logging /\ ~Switching
    BY <1>12, Zenon DEF AdvanceRootToLog, Appending, Logging, Switching
  <2>2. FdbInv(fdb) /\ Closed(fdb) /\ fdb.root \in Anc[LogHead] /\ LogHead \in Anc[fdb.head]
    BY <2>1, LoggingFacts, Zenon DEF UpOK, AppendOK
  <2>3. LogHead = fdb.root \/ CanAdvanceRoot(fdb, LogHead)
    BY <2>2, CanAdvance
  <2>4. /\ head' = head /\ pc' = "idle" /\ ret' = "idle" /\ mode' = mode /\ asserted' = asserted
        /\ fdb' = IF LogHead # fdb.root THEN advance_root(fdb, LogHead) ELSE fdb
    BY <1>1, <1>12, <2>1, <2>3, Zenon DEF AdvanceRootToLog, LogHead, Return, ThrowAndAbort, Throw
  <2>5. fdb'.index \subseteq fdb.index
    BY <2>2, <2>4 DEF advance_root, FdbInv, ForkDb
  <2> QED BY <2>1, <2>4, <2>5, ResidentKept
<1>13. CASE ReplayPushBlock \/ InitBestBranch \/ InterruptReplay \/ EmptyBack
  BY <1>1, <1>13, Zenon DEF ReplayPushBlock, InitBestBranch, InterruptReplay, EmptyBack
<1>14. ASSUME NEW b \in Mine, StartBlock(b) PROVE Good
  <2>1. /\ ~Switching /\ pc' = "idle" /\ ret' = "idle" /\ mode' = mode /\ head' = head /\ fdb' = fdb
    BY <1>1, <1>14, Zenon DEF StartBlock, Switching
  <2>2. asserted' \subseteq asserted \cup {"revision is not head"}
    BY <1>14, Zenon DEF StartBlock, Asserts
  <2> QED BY <2>1, <2>2, ResidentKept, Zenon DEF ProducedAssertion
<1>15. CASE AbortBlock
  <2>1. /\ ~Switching /\ pc' = "idle" /\ ret' = "idle" /\ mode' = mode /\ head' = head /\ fdb' = fdb
        /\ asserted' = asserted
    BY <1>1, <1>15 DEF AbortBlock, Switching
  <2> QED BY <2>1, ResidentKept
<1>16. ASSUME NEW b \in Mine, CommitBlock(b) PROVE Good
  BY <1>16, ResidentCommit
<1>17. CASE Shutdown \/ Die
  BY <1>0, <1>1, <1>17 DEF Shutdown, Die
<1>18. ASSUME NEW m \in Modes, NEW n, Startup(m, n) \/ ReplayBlockchain(m, n) PROVE Good
  BY <1>1, <1>18 DEF Startup, ReplayBlockchain
<1> QED
  BY <1>2, <1>3, <1>4, <1>5, <1>6, <1>7, <1>8, <1>9, <1>10, <1>11, <1>12, <1>13, <1>14, <1>15,
     <1>16, <1>17, <1>18 DEF Next, Wait, Continue, Produce, Restart

-----------------------------------------------------------------------------
(***************************************************************************)
(* A node whose blocks execute.                                            *)
(***************************************************************************)
\* Where Tight holds, a validated head is the first of the validated blocks.
LEMMA TightFirst ==
  ASSUME NEW f, f.validated \in SUBSET Block, f.head \in f.validated, Tight(f)
  PROVE  FirstOf(f.validated) = f.head
BY FirstOfBest DEF Tight

\* There add does not move the head.
LEMMA TightAdd ==
  ASSUME NEW f, FdbInv(f), Closed(f), Tight(f), NEW b \in Block, Linkable(f, b), NEW g, g = add(f, b)
  PROVE  /\ FdbInv(g) /\ Closed(g) /\ Tight(g) /\ g.head = f.head /\ g.index = f.index \cup {b}
         /\ g.validated = f.validated /\ g.root = f.root
<1>1. /\ g.index = f.index \cup {b} /\ g.validated = f.validated
      /\ g.root = f.root /\ FdbInv(g) /\ Closed(g)
      /\ f.validated = {} => g.head = f.head
      /\ f.validated # {} => g.head = FirstOf(f.validated)
  BY AddFacts, Zenon
<1>2. f.validated \in SUBSET Block /\ f.head \in Block /\ f.root \in Block
  BY FdbFacts, Zenon
<1>3. ASSUME f.validated # {} PROVE FirstOf(f.validated) = f.head
  <2>1. f.head \in f.validated
    <3>1. PICK v \in f.validated : TRUE
      BY <1>3
    <3>2. v \in f.index /\ v \in Block /\ f.root \in Anc[v] /\ v # f.root
      BY FdbFacts, Zenon DEF get_block_header
    <3>3. first_preferred(v, f.root)
      BY <3>2, AncWorse, Zenon
    <3>4. f.head # f.root
      BY <3>3, Zenon DEF FdbInv
    <3> QED BY <3>4, FdbFacts, Zenon DEF Valid
  <2> QED BY <1>2, <2>1, TightFirst, Zenon
<1> QED BY <1>1, <1>3, Zenon DEF Tight

\* maybe_switch_forks from the fork database's head to its pending_head.
LEMMA SteadyBegins ==
  ASSUME FdbInv(fdb'), head' = head, head = fdb'.head, Tight(fdb'), invalid' = {},
         NEW r \in {"idle", "init"}, NEW nh, nh = pending_head(fdb'), MaybeSwitchForks(nh, r)
  PROVE  SteadyInv'
<1>1. PICK g : g = fdb'
  OBVIOUS
<1>2. /\ get_block_header(g, nh) /\ nh \in Block /\ Quiet(g, nh) /\ g.head \in Block
      /\ g.validated \subseteq Block
      /\ nh = g.head \/ first_preferred(nh, g.head)
  BY <1>1, PendingHeadFacts, PendingHeadQuiet, FdbFacts, Zenon
<1>3. /\ newBranch' = Anc[nh] \ Anc[head] /\ ret' = r
      /\ pc' = IF nh = head THEN r ELSE IF Prev[nh] = head THEN "apply_one"
               ELSE IF oldBranch' # {} THEN "pop" ELSE "apply"
  BY Zenon DEF MaybeSwitchForks, fetch_branch_from
<1>4. CASE nh = head
  <2>1. pc' = r
    BY <1>3, <1>4
  <2> QED BY <1>3, <2>1, Zenon DEF SteadyInv, Switching
<1>5. CASE nh # head
  <2>1. first_preferred(nh, g.head)
    BY <1>1, <1>2, <1>5, Zenon
  <2>2. \A v \in g.validated : first_preferred(nh, v)
    <3>1. \A v \in g.validated : ~first_preferred(v, g.head)
      BY <1>1, Zenon DEF FdbInv
    <3> QED BY <1>2, <2>1, <3>1, PreferenceFacts, Zenon
  <2>3. nh \notin g.validated
    BY <1>2, <2>2, PreferenceFacts, Zenon
  <2>4. nh # g.root
    <3>1. g.root \in Anc[g.head]
      BY <1>1, FdbFacts, Zenon
    <3>2. g.root # g.head => first_preferred(g.head, g.root)
      BY <1>2, <3>1, AncWorse, Zenon
    <3> QED BY <1>1, <1>2, <1>5, <2>1, <3>2, PreferenceFacts, Zenon
  <2>5. nh \notin Anc[head]
    BY <1>1, <1>2, <1>5, <2>1, AncWorse, Zenon
  <2>6. nh \in newBranch' /\ newBranch' \subseteq Anc[nh]
    BY <1>2, <1>3, <2>5, AncStep, Zenon
  <2>7. SteadySwitch(nh)'
    BY <1>1, <1>2, <2>1, <2>2, <2>3, <2>4, <2>6, Zenon DEF SteadySwitch, get_block_header
  <2>8. pc' \in {"apply_one", "pop", "apply"}
    BY <1>3, <1>5
  <2>9. \E n \in Block : SteadySwitch(n)'
    BY <1>2, <2>7, Zenon
  <2> QED BY <1>3, <2>8, <2>9, Zenon DEF SteadyInv, Switching
<1> QED BY <1>4, <1>5

\* Opening the fork database or rolling it back keeps Tight; so does reset.
LEMMA TightOpens ==
  ASSUME NEW f, FdbInv(f), Closed(f), Tight(f), NEW m, NEW g, g = Opened(f, m)
  PROVE  Tight(g)
<1>1. CASE g = f
  BY <1>1
<1>2. CASE g # f
  <2>1. g = rollback_head_to_root(f)
    BY <1>2 DEF Opened
  <2>2. g.validated = {}
    BY <2>1 DEF rollback_head_to_root, FdbInv, ForkDb
  <2> QED BY <2>2 DEF Tight
<1> QED BY <1>1, <1>2

\* A fork database reset to the block log head has no validated block.
LEMMA TightReset ==
  ASSUME NEW b \in Block
  PROVE  Tight(reset(b))
BY ResetFacts DEF Tight

\* A step that leaves the heads alone and adds no validated block.
LEMMA SteadyKept ==
  ASSUME SteadyInv, Tight(fdb), head' = head, fdb'.head = fdb.head, invalid' = invalid,
         fdb'.validated \subseteq fdb.validated, ~Switching',
         pc' \in {"idle", "init"} => head = fdb.head
  PROVE  SteadyInv'
<1>1. pc' \notin {"unwind", "reapply", "empty_back"}
  BY DEF Switching
<1>2. Tight(fdb')
  BY DEF Tight
<1>3. invalid' = {}
  BY DEF SteadyInv
<1>4. pc' \in {"idle", "init"} => head' = fdb'.head
  OBVIOUS
<1> QED BY <1>1, <1>2, <1>3, <1>4, Zenon DEF SteadyInv

\* push_block: what is switched to is the best block known.
LEMMA SteadyPush ==
  ASSUME CInv, SteadyInv, NEW b \in Block, PushBlock(b)
  PROVE  SteadyInv'
<1>1. /\ pc = "idle" /\ Linkable(fdb, b) /\ fdb' = add(fdb, b) /\ head' = head /\ invalid' = invalid
      /\ IF mode = "irreversible" THEN pc' = "log" /\ ret' = "idle"
         ELSE MaybeSwitchForks(pending_head(fdb'), "idle")
  BY DEF PushBlock
<1>2. Tight(fdb) /\ head = fdb.head /\ invalid = {}
  BY <1>1 DEF SteadyInv, Switching
<1>3. FdbInv(fdb) /\ Closed(fdb)
  BY DEF CInv
<1>4. FdbInv(fdb') /\ Tight(fdb') /\ fdb'.head = fdb.head /\ fdb'.validated = fdb.validated
  BY <1>1, <1>2, <1>3, TightAdd, Zenon
<1>5. CASE mode = "irreversible"
  <2>1. ~Switching' /\ pc' \notin {"idle", "init"}
    BY <1>1, <1>5 DEF Switching
  <2> QED BY <1>1, <1>2, <1>4, <2>1, SteadyKept, Zenon
<1>6. CASE mode # "irreversible"
  <2>1. PICK nh : nh = pending_head(fdb')
    OBVIOUS
  <2>2. MaybeSwitchForks(nh, "idle") /\ head = fdb'.head /\ invalid' = {}
    BY <1>1, <1>2, <1>4, <1>6, <2>1
  <2> QED BY <1>1, <1>4, <2>1, <2>2, SteadyBegins, Zenon
<1> QED BY <1>5, <1>6

\* pop_block leaves the fork database and the new branch alone.
LEMMA SteadyPop ==
  ASSUME CInv, SteadyInv, PopBlock
  PROVE  SteadyInv'
<1>1. pc = "pop" /\ Switching
  BY Zenon DEF PopBlock, SteadyInv, Switching
<1>2. /\ pc' \in {"pop", "apply"} /\ fdb' = fdb /\ newBranch' = newBranch /\ ret' = ret
      /\ invalid' = invalid
  BY <1>1, Zenon DEF PopBlock, branch
<1>3. Switching' /\ pc' \notin {"idle", "init", "unwind", "reapply", "empty_back"}
  BY <1>2 DEF Switching
<1>4. ret # "replay" => \E nh \in Block : SteadySwitch(nh)
  BY <1>1 DEF SteadyInv
<1>5. \A nh \in Block : SteadySwitch(nh) => SteadySwitch(nh)'
  BY <1>2 DEF SteadySwitch, Quiet
<1>6. ret = "replay" => Tight(fdb)
  BY DEF SteadyInv
<1>7. Tight(fdb') <=> Tight(fdb)
  BY <1>2
<1>8. invalid' = {}
  BY <1>2 DEF SteadyInv
<1> QED BY <1>2, <1>3, <1>4, <1>5, <1>6, <1>7, <1>8, Zenon DEF SteadyInv

\* A block of the new branch is applied; after the last one the fork database's
\* head is the block switched to.
LEMMA SteadyApply ==
  ASSUME CInv, SteadyInv, NEW b \in newBranch, ApplyNext(b)
  PROVE  SteadyInv'
<1>1. /\ pc \in {"apply_one", "apply"} /\ Switching /\ Prev[b] = head /\ head' = b
      /\ fdb' = mark_valid(fdb, b) /\ newBranch' = newBranch /\ ret' = ret /\ invalid' = invalid
      /\ pc' = IF \E c \in newBranch : Num[c] > Num[b] THEN pc ELSE "log"
  BY DEF ApplyNext, ApplyBlock, branch, Switching
<1>2. /\ FdbInv(fdb) /\ Closed(fdb) /\ OnTree /\ SwitchOK
  BY <1>1, SwitchFacts, Zenon
<1>3. PICK oh \in Block, sh \in Block : SwitchFrom(oh, sh)
  BY <1>2 DEF SwitchOK
<1>4. b \in fdb.index /\ b \in Block /\ (ret = "replay" => b \in fdb.validated)
  BY <1>1, <1>3, NextFacts, Zenon
<1>5. Valid(fdb, Prev[b])
  BY <1>1, <1>2, Zenon DEF OnTree
<1>6. PICK g : g = mark_valid(fdb, b)
  OBVIOUS
<1>7. /\ FdbInv(g) /\ g.index = fdb.index /\ g.root = fdb.root
      /\ g.validated = fdb.validated \cup {b} /\ (b \in fdb.validated => g = fdb)
  BY <1>2, <1>4, <1>5, <1>6, MarkValidFacts, Zenon
<1>8. /\ invalid' = {} /\ fdb' = g /\ pc' \in {"apply_one", "apply", "log"}
  BY <1>1, <1>6, Zenon DEF SteadyInv
<1>9. CASE ret = "replay"
  <2>1. Tight(fdb')
    BY <1>4, <1>7, <1>8, <1>9, Zenon DEF SteadyInv
  <2> QED BY <1>1, <1>8, <1>9, <2>1, Zenon DEF SteadyInv
<1>10. CASE ret # "replay"
  <2>1. PICK nh \in Block : SteadySwitch(nh)
    BY <1>1, <1>10, Zenon DEF SteadyInv
  <2>2. /\ nh \in newBranch /\ nh \in fdb.index \ fdb.validated /\ newBranch \subseteq Anc[nh]
        /\ \A v \in fdb.validated : first_preferred(nh, v)
        /\ first_preferred(nh, fdb.head) /\ Quiet(fdb, nh)
    BY <2>1, Zenon DEF SteadySwitch
  <2>3. b \in Anc[nh]
    BY <2>2, Zenon
  <2>4. (nh = g.head \/ first_preferred(nh, g.head)) /\ (b = nh => g.head = nh)
    BY <1>2, <1>4, <1>5, <1>6, <2>2, <2>3, MarkValidTowards, Zenon
  <2>5. CASE b = nh
    <3>1. \A c \in newBranch : ~(Num[c] > Num[b])
      <4> SUFFICES ASSUME NEW c \in newBranch PROVE ~(Num[c] > Num[b])
        OBVIOUS
      <4>1. c \in Anc[nh] /\ c \in Block /\ Num[c] <= Num[nh]
        BY <2>2, AncMonotone, Zenon
      <4>2. Num[c] \in Nat /\ Num[b] \in Nat
        BY <1>4, <4>1, BlockFacts, Zenon
      <4> QED BY <2>5, <4>1, <4>2
    <3>2. pc' = "log"
      BY <1>1, <3>1, Zenon
    <3>3. Tight(g)
      BY <1>7, <2>2, <2>4, <2>5, Zenon DEF Tight
    <3>4. ~Switching' /\ pc' \notin {"idle", "init", "unwind", "reapply", "empty_back"}
      BY <3>2 DEF Switching
    <3> QED BY <1>8, <3>3, <3>4, Zenon DEF SteadyInv
  <2>6. CASE b # nh
    <3>1. Num[b] < Num[nh] /\ first_preferred(nh, b)
      BY <2>3, <2>6, AncMonotone, AncWorse
    <3>2. Num[nh] > Num[b]
      BY <1>4, <3>1, BlockFacts
    <3>3. pc' = pc
      BY <1>1, <2>2, <3>2, Zenon
    <3>4. g.head # nh
      BY <1>2, <1>4, <1>7, <2>2, <2>6, FdbFacts, Zenon DEF Valid
    <3>5. SteadySwitch(nh)'
      <4>1. /\ nh \in newBranch' /\ nh \in g.index \ g.validated /\ newBranch' \subseteq Anc[nh]
        BY <1>1, <1>7, <2>2, <2>6, Zenon
      <4>2. \A v \in g.validated : first_preferred(nh, v)
        BY <1>7, <2>2, <3>1, Zenon
      <4>3. first_preferred(nh, g.head) /\ Quiet(g, nh)
        BY <1>7, <2>2, <2>4, <3>4, Zenon DEF Quiet
      <4> QED BY <1>8, <4>1, <4>2, <4>3, Zenon DEF SteadySwitch
    <3>6. Switching' /\ pc' \notin {"idle", "init", "unwind", "reapply", "empty_back"}
      BY <1>1, <3>3 DEF Switching
    <3> QED BY <1>1, <1>8, <1>10, <3>5, <3>6, Zenon DEF SteadyInv
  <2> QED BY <2>5, <2>6
<1> QED BY <1>9, <1>10

\* Where a handler that logs goes on: init and the idle loop only from head.
LEMMA SteadyReturns ==
  ASSUME CInv, Logging, Return \/ ThrowAndAbort
  PROVE  ~Switching' /\ (pc' \in {"idle", "init"} => head = fdb.head)
<1>1. LogOK /\ ret \in {"idle", "replay", "init"}
  BY LoggingFacts DEF Typed
<1>2. pc' = ret \/ (pc' = "idle" /\ ret = "idle") \/ pc' = "down"
  BY DEF Return, ThrowAndAbort, Throw
<1>3. ret # "replay" => head = fdb.head
  BY <1>1 DEF LogOK
<1> QED BY <1>1, <1>2, <1>3 DEF Switching

\* In irreversible mode the block applied becomes the head of both, and the only
\* best of the validated blocks.
LEMMA SteadyIrrApply ==
  ASSUME CInv, SteadyInv, pc = "append", mode = "irreversible", NEW b, b = Lowest(toLog),
         CanApply(b), ApplyBlock(b), invalid' = invalid, pc' \in {"append", "advance", "advance_throw"}
  PROVE  SteadyInv'
<1>1. /\ fdb'.head = b /\ fdb.root \in Anc[b] /\ fdb'.validated = Anc[b] \ Anc[fdb.root]
  BY IrrApply, Zenon
<1>2. b \in Block
  BY AppendFacts, Zenon
<1>3. Tight(fdb')
  BY <1>1, <1>2, AncWorse DEF Tight
<1>4. invalid' = {}
  BY DEF SteadyInv
<1>5. ~Switching' /\ pc' \notin {"idle", "init", "unwind", "reapply", "empty_back"}
  BY DEF Switching
<1> QED BY <1>3, <1>4, <1>5, Zenon DEF SteadyInv

\* The steps of log_irreversible.
LEMMA SteadyLogs ==
  ASSUME CInv, SteadyInv,
         BeginLog \/ AppendBlock \/ AppendApplyFails \/ AppendOutOfSpace \/ AdvanceRootToLog
  PROVE  SteadyInv'
<1>1. Logging /\ ~Switching
  BY Zenon DEF BeginLog, AppendBlock, AppendApplyFails, AppendOutOfSpace, AdvanceRootToLog, Logging,
         Appending, Switching
<1>2. Tight(fdb) /\ FdbInv(fdb) /\ Closed(fdb)
  BY <1>1 DEF SteadyInv, CInv
<1>3. CASE BeginLog
  <2>1. /\ head' = head /\ fdb' = fdb /\ invalid' = invalid
        /\ Return \/ ThrowAndAbort \/ pc' = "append"
    BY <1>3, Zenon DEF BeginLog
  <2>2. ~Switching' /\ (pc' \in {"idle", "init"} => head = fdb.head)
    <3>1. CASE pc' = "append"
      BY <3>1 DEF Switching
    <3> QED BY <1>1, <2>1, <3>1, SteadyReturns
  <2> QED BY <1>2, <2>1, <2>2, SteadyKept
<1>4. CASE AppendBlock \/ AppendOutOfSpace
  <2>1. PICK b : b = Lowest(toLog)
    OBVIOUS
  <2>2. /\ pc = "append" /\ pc' \in {"append", "advance", "advance_throw"} /\ invalid' = invalid
        /\ IF mode = "irreversible" THEN CanApply(b) /\ ApplyBlock(b)
           ELSE fdb' = fdb /\ head' = head
    BY <1>4, <2>1, Zenon DEF AppendBlock, AppendOutOfSpace
  <2>3. CASE mode = "irreversible"
    BY <2>1, <2>2, <2>3, SteadyIrrApply, Zenon
  <2>4. CASE mode # "irreversible"
    <3>1. ~Switching' /\ pc' \notin {"idle", "init"} /\ fdb' = fdb /\ head' = head
      BY <2>2, <2>4 DEF Switching
    <3> QED BY <1>2, <2>2, <3>1, SteadyKept, Zenon
  <2> QED BY <2>3, <2>4
<1>5. CASE AppendApplyFails
  <2>1. /\ pc' = "advance_throw" /\ fdb' = fdb /\ head' = head /\ invalid' = invalid
        /\ ~Switching'
    BY <1>5 DEF AppendApplyFails, Switching
  <2> QED BY <1>2, <2>1, SteadyKept
<1>6. CASE AdvanceRootToLog
  <2>1. Appending
    BY <1>6, Zenon DEF AdvanceRootToLog, Appending
  <2>2. fdb.root \in Anc[LogHead] /\ LogHead \in Anc[fdb.head]
    BY <1>1, <2>1, LoggingFacts DEF UpOK, AppendOK
  <2>3. /\ head' = head /\ invalid' = invalid /\ (Return \/ ThrowAndAbort)
        /\ fdb' = fdb \/ (LogHead # fdb.root /\ fdb' = advance_root(fdb, LogHead))
    BY <1>6, Zenon DEF AdvanceRootToLog, LogHead
  <2>4. fdb'.head = fdb.head /\ fdb'.validated \subseteq fdb.validated
    <3>1. CASE fdb' = fdb
      BY <3>1
    <3>2. CASE LogHead # fdb.root /\ fdb' = advance_root(fdb, LogHead)
      <4>1. PICK g : g = fdb'
        OBVIOUS
      <4>2. /\ g.head = fdb.head
            /\ g.validated = {c \in fdb.validated \ {LogHead} : LogHead \in Anc[c]}
        <5>1. /\ FdbInv(fdb) /\ Closed(fdb) /\ fdb.root \in Anc[LogHead] /\ LogHead # fdb.root
              /\ LogHead \in Anc[fdb.head] /\ g = advance_root(fdb, LogHead)
          BY <1>2, <2>2, <3>2, <4>1, Zenon
        <5> QED BY <5>1, AdvanceFacts, Zenon
      <4> QED BY <4>1, <4>2
    <3> QED BY <2>3, <3>1, <3>2
  <2>5. ~Switching' /\ (pc' \in {"idle", "init"} => head = fdb.head)
    BY <1>1, <2>3, SteadyReturns
  <2> QED BY <1>2, <2>3, <2>4, <2>5, SteadyKept, Zenon
<1> QED BY <1>3, <1>4, <1>5, <1>6

\* commit_block: the produced block is preferred to everything validated.
LEMMA SteadyCommit ==
  ASSUME CInv, SteadyInv, NEW b \in Mine, CommitBlock(b)
  PROVE  SteadyInv' /\ asserted' = asserted
<1>1. /\ pc = "idle" /\ pending = {b} /\ fdb' = mark_valid(add(fdb, b), b) /\ invalid' = invalid
  BY Zenon DEF CommitBlock
<1>2. /\ FdbInv(fdb) /\ Closed(fdb) /\ head \in Block /\ OnTree
      /\ b \in Block \ {Genesis} /\ Prev[b] = head /\ b \notin fdb.index
  BY <1>1, ProducingFacts, Zenon
<1>3. head = fdb.head /\ Tight(fdb) /\ invalid = {}
  BY <1>1 DEF SteadyInv, Switching
<1>4. ~first_preferred(fdb.head, head) /\ Valid(fdb, head)
  BY <1>2, <1>3, PreferenceFacts, Zenon DEF OnTree
<1>5. PICK g : g = mark_valid(add(fdb, b), b)
  OBVIOUS
<1>6. /\ g.head = b /\ g.validated = fdb.validated \cup {b}
      /\ \A v \in fdb.validated : first_preferred(b, v)
  <2>1. /\ Prev[b] \in Block /\ Valid(fdb, Prev[b]) /\ ~first_preferred(fdb.head, Prev[b])
        /\ g = Produced(fdb, b)
    BY <1>2, <1>4, <1>5, Zenon DEF Produced
  <2> QED BY <1>2, <2>1, ProducedIsHead, Zenon
<1>7. fdb' = g /\ fdb'.head = b
  BY <1>1, <1>5, <1>6, Zenon
<1>8. pc' = "log" /\ asserted' = asserted
  BY <1>7 DEF CommitBlock
<1>9. Tight(g)
  BY <1>6, Zenon DEF Tight
<1>10. ~Switching' /\ pc' \notin {"idle", "init", "unwind", "reapply", "empty_back"}
  BY <1>8 DEF Switching
<1>11. SteadyInv'
  BY <1>1, <1>3, <1>7, <1>9, <1>10, Zenon DEF SteadyInv
<1> QED BY <1>8, <1>11

\* startup() and replay-blockchain.
LEMMA SteadyRestarts ==
  ASSUME CInv, SteadyInv, Restarted, NEW m \in Modes, NEW n,
         Startup(m, n) \/ ReplayBlockchain(m, n)
  PROVE  SteadyInv'
<1>1. pc = "down" /\ pc' \in {"replay", "down"} /\ invalid' = invalid
  BY Zenon DEF Startup, ReplayBlockchain, InitFrom
<1>2. FdbInv(fdb) /\ Closed(fdb) /\ Tight(fdb) /\ invalid = {} /\ LogChain
  BY <1>1 DEF SteadyInv, Switching, CInv
<1>3. fdb' = Opened(fdb, m) \/ \E j \in 1..Len(blog) : fdb' = reset(blog[j])
  <2>1. CASE Startup(m, n)
    BY <2>1, Zenon DEF Restarted, Started, StartupKeeps, StartupAppends
  <2>2. CASE ReplayBlockchain(m, n)
    BY <2>2, Zenon DEF Restarted, Replayed
  <2> QED BY <2>1, <2>2
<1>4. Tight(fdb')
  <2>1. CASE fdb' = Opened(fdb, m)
    BY <1>2, <2>1, TightOpens
  <2>2. ASSUME NEW j \in 1..Len(blog), fdb' = reset(blog[j]) PROVE Tight(fdb')
    <3>1. blog[j] \in Block
      BY <1>2, SeqElement DEF LogChain
    <3> QED BY <2>2, <3>1, TightReset
  <2> QED BY <1>3, <2>1, <2>2
<1>5. ~Switching' /\ pc' \notin {"idle", "init", "unwind", "reapply", "empty_back"}
  BY <1>1 DEF Switching
<1> QED BY <1>1, <1>2, <1>4, <1>5, Zenon DEF SteadyInv

\* The end of init: replay() has reached the fork database's head.
LEMMA ReplayedToHead ==
  ASSUME CInv, SteadyInv, InitBestBranch
  PROVE  head = fdb.head
<1>1. pc \in {"replay", "init"} /\ todo = {} /\ Up
  BY Zenon DEF InitBestBranch, Up
<1>2. CASE pc = "init"
  BY <1>2 DEF SteadyInv
<1>3. CASE pc = "replay"
  <2>1. ReplayOK /\ FdbInv(fdb)
    BY <1>1, <1>3 DEF CInv, UpOK, Lags
  <2>2. fdb.head \in Block /\ head \in Anc[fdb.head] /\ Anc[fdb.head] \subseteq Anc[head]
    BY <1>1, <2>1, FdbFacts, Zenon DEF ReplayOK
  <2>3. fdb.head \in Anc[head]
    BY <2>2, AncStep
  <2> QED BY <2>2, <2>3, AncWorse
<1> QED BY <1>1, <1>2, <1>3

\* The best branch at the end of init.
LEMMA SteadyInit ==
  ASSUME CInv, SteadyInv, InitBestBranch
  PROVE  SteadyInv'
<1>1. /\ pc \in {"replay", "init"} /\ fdb' = fdb /\ head' = head /\ invalid' = invalid
      /\ MaybeSwitchForks(pending_head(fdb), "init") \/ pc' = "idle"
  BY DEF InitBestBranch
<1>2. FdbInv(fdb) /\ Tight(fdb) /\ invalid = {}
  BY <1>1 DEF CInv, SteadyInv, Switching
<1>3. head = fdb.head
  BY ReplayedToHead
<1>4. CASE pc' = "idle"
  <2>1. ~Switching'
    BY <1>4 DEF Switching
  <2> QED BY <1>1, <1>2, <1>3, <2>1, SteadyKept, Zenon
<1>5. CASE MaybeSwitchForks(pending_head(fdb), "init")
  <2>1. PICK nh : nh = pending_head(fdb)
    OBVIOUS
  <2>2. /\ MaybeSwitchForks(nh, "init") /\ nh = pending_head(fdb') /\ head = fdb'.head
        /\ FdbInv(fdb') /\ Tight(fdb') /\ invalid' = {}
    BY <1>1, <1>2, <1>3, <1>5, <2>1
  <2> QED BY <1>1, <2>2, SteadyBegins
<1> QED BY <1>1, <1>4, <1>5

\* As long as blocks execute, every step keeps the two heads together, and a block
\* the node produced becomes head.
LEMMA SteadyNext ==
  ASSUME CInv, LenInv, SteadyInv, Restarted, [Next]_vars, asserted \cap ProducedAssertion = {}
  PROVE  SteadyInv' /\ asserted' \cap ProducedAssertion = {}
<1> DEFINE Good == SteadyInv' /\ asserted' \cap ProducedAssertion = {}
<1>1. ASSUME asserted' = asserted PROVE asserted' \cap ProducedAssertion = {}
  BY <1>1
<1>2. CASE UNCHANGED vars \/ Wait
  <2>1. /\ invalid' = invalid /\ pc' = pc /\ ret' = ret /\ fdb' = fdb /\ head' = head
        /\ newBranch' = newBranch /\ asserted' = asserted
    BY <1>2 DEF vars, Wait
  <2>2. SteadyInv'
    BY <2>1, Zenon DEF SteadyInv, Switching, SteadySwitch, Quiet, Tight
  <2> QED BY <2>1, <2>2
<1>3. ASSUME NEW b \in Block, PushBlock(b) PROVE Good
  BY <1>3, SteadyPush DEF PushBlock
<1>4. CASE PopBlock
  <2>1. asserted' \subseteq asserted \cup {"pop beyond LIB"}
    BY <1>4, Zenon DEF PopBlock, Asserts
  <2> QED BY <1>4, <2>1, SteadyPop, Zenon DEF ProducedAssertion
<1>5. ASSUME NEW b \in newBranch, ApplyNext(b) PROVE Good
  BY <1>5, SteadyApply, Zenon DEF ApplyNext
<1>6. ASSUME NEW b \in newBranch, ApplyFails(b) PROVE Good
  BY <1>6, SteadyNoFail
<1>7. ~(\E b \in oldBranch : Reapply(b)) /\ ~EmptyBack
  BY Zenon DEF Reapply, EmptyBack, SteadyInv
<1>8. CASE BeginLog \/ AppendBlock \/ AppendApplyFails \/ AppendOutOfSpace \/ AdvanceRootToLog
  <2>1. asserted' \subseteq asserted \cup {"root is not block log head", "cannot advance root"}
    BY <1>8, Zenon
       DEF BeginLog, AppendBlock, AppendApplyFails, AppendOutOfSpace, AdvanceRootToLog, Asserts
  <2> QED BY <1>8, <2>1, SteadyLogs, Zenon DEF ProducedAssertion
<1>9. CASE ReplayPushBlock
  <2>1. /\ fdb' = fdb /\ ret = "replay" /\ ret' = "replay" /\ (pc' = "down" \/ pc' = "apply_one")
    BY <1>9, ReplayedIsKnown
  <2>2. Tight(fdb) /\ invalid = {} /\ invalid' = invalid /\ asserted' = asserted
    BY <1>9, <2>1, Zenon DEF SteadyInv, ReplayPushBlock
  <2>3. SteadyInv'
    BY <2>1, <2>2, Zenon DEF SteadyInv
  <2> QED BY <2>2, <2>3
<1>10. CASE InitBestBranch
  BY <1>10, SteadyInit, Zenon DEF InitBestBranch
<1>11. ASSUME NEW b \in Mine, StartBlock(b) PROVE Good
  <2>1. /\ pc = "idle" /\ pc' = "idle" /\ fdb' = fdb /\ head' = head /\ invalid' = invalid
    BY <1>11, Zenon DEF StartBlock
  <2>2. asserted' \subseteq asserted \cup {"revision is not head"}
    BY <1>11, Zenon DEF StartBlock, Asserts
  <2>3. Tight(fdb) /\ head = fdb.head /\ ~Switching'
    BY <2>1 DEF SteadyInv, Switching
  <2> QED BY <2>1, <2>2, <2>3, SteadyKept, Zenon DEF ProducedAssertion
<1>12. CASE AbortBlock
  <2>1. /\ pc = "idle" /\ pc' = "idle" /\ fdb' = fdb /\ head' = head /\ invalid' = invalid
        /\ asserted' = asserted
    BY <1>12 DEF AbortBlock
  <2>2. Tight(fdb) /\ head = fdb.head /\ ~Switching'
    BY <2>1 DEF SteadyInv, Switching
  <2> QED BY <2>1, <2>2, SteadyKept, Zenon
<1>13. ASSUME NEW b \in Mine, CommitBlock(b) PROVE Good
  BY <1>13, SteadyCommit
<1>14. CASE Shutdown \/ InterruptReplay
  <2>1. /\ pc \in {"idle", "replay"} /\ pc' = "down" /\ fdb' = fdb /\ head' = head
        /\ invalid' = invalid /\ asserted' = asserted
    BY <1>14 DEF Shutdown, InterruptReplay
  <2>2. Tight(fdb) /\ ~Switching'
    BY <2>1 DEF SteadyInv, Switching
  <2> QED BY <2>1, <2>2, SteadyKept
<1>15. CASE Die
  <2>1. pc' = "down" /\ fdb' = reset(Genesis) /\ invalid' = invalid /\ asserted' = asserted
    BY <1>15 DEF Die
  <2>2. Tight(fdb') /\ ~Switching' /\ invalid = {}
    BY <2>1, TightReset, AncGenesis, Zenon DEF Switching, SteadyInv
  <2>3. SteadyInv'
    BY <2>1, <2>2 DEF SteadyInv
  <2> QED BY <2>1, <2>3
<1>16. ASSUME NEW m \in Modes, NEW n, Startup(m, n) \/ ReplayBlockchain(m, n) PROVE Good
  BY <1>16, SteadyRestarts, Zenon DEF Startup, ReplayBlockchain
<1> QED
  BY <1>2, <1>3, <1>4, <1>5, <1>6, <1>7, <1>8, <1>9, <1>10, <1>11, <1>12, <1>13, <1>14, <1>15,
     <1>16, Zenon DEF Next, Continue, Produce, Restart

-----------------------------------------------------------------------------
(***************************************************************************)
(* Both kinds of node.                                                     *)
(***************************************************************************)
\* The initial state.
LEMMA CalmInit ==
  ASSUME Init, Steady \/ Resident
  PROVE  Calm /\ ChainInv
<1>1. /\ fdb = reset(Genesis) /\ head = Genesis /\ pc = "idle" /\ ret = "idle" /\ pending = {}
      /\ applied = <<Genesis>> /\ invalid \subseteq MayFail
  BY DEF Init, FdbInit
<1>2. /\ Genesis \in Block /\ Num[Genesis] = 1 /\ fdb.index = {} /\ fdb.validated = {}
      /\ fdb.head = Genesis
  BY <1>1, ControllerAssumption, TreeAssumption DEF reset
<1>3. ~Switching /\ Up
  BY <1>1 DEF Switching, Up
<1>4. Steady => SteadyInv
  BY <1>1, <1>2, <1>3 DEF Steady, SteadyInv, Tight
<1>5. ResidentInv
  BY <1>1, <1>2, <1>3, Zenon DEF ResidentInv, Quiet
<1>6. Chain(applied, head)
  <2>1. Genesis \in Anc[Genesis]
    BY <1>2, AncStep, Zenon
  <2>2. \A i \in 1..1 : i = 1
    OBVIOUS
  <2>3. applied[1] = Genesis
    BY <1>1
  <2> QED BY <1>1, <1>2, <2>1, <2>2, <2>3, Zenon DEF Chain
<1>7. ChainInv
  BY <1>1, <1>3, <1>6 DEF ChainInv
<1> QED BY <1>4, <1>5, <1>7 DEF Calm

\* Every step of a calm node leaves it calm.
LEMMA CalmNext ==
  ASSUME CInv, LenInv, Calm, Restarted, [Next]_vars, asserted \cap ProducedAssertion = {}
  PROVE  Calm' /\ asserted' \cap ProducedAssertion = {}
<1>1. CASE SteadyInv
  BY <1>1, SteadyNext DEF Calm
<1>2. CASE Resident /\ ResidentInv
  BY <1>2, ResidentNext DEF Calm, Resident
<1> QED BY <1>1, <1>2 DEF Calm

\* Between handlers neither head is preferred to the other.
LEMMA CalmHeadsAgree ==
  ASSUME CInv, Calm
  PROVE  HeadsAgree
<1> SUFFICES ASSUME pc = "idle"
             PROVE  ~first_preferred(fdb.head, head) /\ ~first_preferred(head, fdb.head)
  BY DEF HeadsAgree
<1>1. /\ Typed /\ FdbInv(fdb) /\ OnTree /\ head \in Block /\ fdb.head \in Block
      /\ mode = "irreversible" => fdb.head = head
  BY IdleFacts, FdbFacts, Zenon DEF Typed, IrrOK
<1>2. CASE head = fdb.head
  BY <1>1, <1>2, PreferenceFacts
<1>3. CASE SteadyInv
  BY <1>2, <1>3 DEF SteadyInv
<1>4. CASE ResidentInv /\ mode = "head"
  <2>1. Quiet(fdb, head)
    BY <1>4 DEF ResidentInv, Switching
  <2> QED BY <1>1, <2>1, QuietHead, Zenon DEF OnTree
<1>5. mode \in {"head", "irreversible"}
  BY <1>1, ControllerAssumption DEF Typed
<1> QED BY <1>1, <1>2, <1>3, <1>4, <1>5 DEF Calm

=============================================================================
