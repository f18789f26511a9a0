-------------------------- MODULE ControllerProofs --------------------------
(***************************************************************************)
(* The theorems about the block life cycle of the controller, for every    *)
(* tree of blocks, every set of blocks that fail, every number of failed   *)
(* appends and of restarts.                                                *)
(*                                                                         *)
(* The refinement of the ledger needs KeepsPace: Lags says what may happen *)
(* when the blocks of fork_db.dat are replayed.  What the state database   *)
(* holds needs Sound, and Steady or Resident: see ControllerFacts.         *)
(***************************************************************************)
EXTENDS ControllerStepProofs, ControllerStateProofs, ControllerHeadProofs

-----------------------------------------------------------------------------
(***************************************************************************)
(* The invariant and the block log.                                        *)
(***************************************************************************)
\* Every step of the controller keeps CInv.
LEMMA CInvNext ==
  ASSUME CInv, [Next]_vars
  PROVE  CInv'
<1>1. CASE UNCHANGED vars
  BY <1>1, StutterStep DEF vars
<1>2. CASE Wait
  BY <1>2, StutterStep DEF Wait, vars
<1>3. CASE \E b \in Block : PushBlock(b)
  BY <1>3, PushBlockStep
<1>4. CASE Continue
  BY <1>4, PopBlockStep, ApplyNextStep, ApplyFailsStep, ReapplyStep, EmptyBackStep, BeginLogStep,
     AppendBlockStep, AppendStopsStep, AdvanceStep, ReplayPushBlockStep, InitBestBranchStep
     DEF Continue
<1>5. CASE Produce
  BY <1>5, StartBlockStep, CommitBlockStep DEF Produce
<1>6. CASE AbortBlock
  BY <1>6, AbortBlockStep
<1>7. CASE Shutdown \/ InterruptReplay
  BY <1>7, StopStep
<1>8. CASE Die
  BY <1>8, DieStep
<1>9. CASE Restart
  BY <1>9, StartupStep, ReplayBlockchainStep, Zenon DEF Restart
<1> QED BY <1>1, <1>2, <1>3, <1>4, <1>5, <1>6, <1>7, <1>8, <1>9 DEF Next

\* The inductive invariant of the block life cycle holds in every state, through
\* forks, failing blocks, a full disk, crashes and replays.
THEOREM ControllerInvariant == Spec => []CInv
BY CInvInit, CInvNext, PTL DEF Spec

\* The branch a fork switch leaves stays in the fork database, executed.
LEMMA OldBranchValidated ==
  ASSUME CInv, Switching
  PROVE  oldBranch \subseteq fdb.validated
<1>1. FdbInv(fdb) /\ Closed(fdb) /\ fdb.root = LogHead /\ SwitchOK
  BY Zenon DEF CInv, UpOK, Up, Switching, Appending
<1>2. PICK oh, nh \in Block : SwitchFrom(oh, nh)
  BY <1>1 DEF SwitchOK
<1>3. oldBranch = Anc[oh] \ Anc[nh] /\ Valid(fdb, oh) /\ fdb.root \in Anc[nh]
  BY <1>1, <1>2 DEF SwitchFrom
<1>4. Anc[fdb.root] \subseteq Anc[nh]
  BY <1>3, AncMonotone
<1>5. Anc[oh] \ Anc[fdb.root] \subseteq fdb.validated
  BY <1>1, <1>3 DEF Valid, Closed
<1> QED BY <1>3, <1>4, <1>5

\* Every variable of the controller has its type in every state, and at every step
\* of a fork switch the branch it leaves can still be applied again.
THEOREM ControllerTypes == Spec => []TypeOK
<1>1. ASSUME CInv
      PROVE  FdbTypeOK
  BY <1>1 DEF CInv, Typed, FdbTypeOK, FdbInv, get_block_header
<1>2. ASSUME CInv, pc \in {"pop", "apply", "unwind", "reapply"}
      PROVE  oldBranch \subseteq fdb.validated
  BY <1>2, OldBranchValidated, Zenon DEF Switching
<1>3. CInv => TypeOK
  BY <1>1, <1>2, Zenon DEF CInv, Typed, LogChain, TypeOK
<1> QED BY <1>3, ControllerInvariant, PTL

\* Between two handlers the root of the fork database is the head of the block
\* log, and the state database is committed exactly up to it: whatever failed,
\* threw or was restarted before.
THEOREM RootFollowsLog == Spec => []RootIsLogHead
<1>1. CInv => RootIsLogHead
  BY IdleFacts, Zenon DEF RootIsLogHead, LogHead
<1> QED BY <1>1, ControllerInvariant, PTL

\* Only log_irreversible writes the block log.
LEMMA OnlyAppend ==
  ASSUME [Next]_vars, blog' # blog
  PROVE  AppendBlock
BY Zenon DEF Next, vars, Wait, PushBlock, Continue, PopBlock, ApplyNext, ApplyFails, Reapply,
     EmptyBack, BeginLog, AppendApplyFails, AppendOutOfSpace, AdvanceRootToLog, ReplayPushBlock,
     InitBestBranch, Produce, StartBlock, CommitBlock, AbortBlock, Shutdown, InterruptReplay, Die,
     Restart, Startup, ReplayBlockchain

\* The block log is one chain from genesis on, a block of every height, whatever
\* the order of forks, crashes and replays; and it is only ever appended to, by
\* one block at a time, built on the last.
THEOREM LogIsOneChain ==
  Spec => /\ []LogChain
          /\ [][blog' # blog => /\ blog' = Append(blog, LogHead') /\ Prev[LogHead'] = LogHead]_vars
<1>1. CInv => LogChain
  BY DEF CInv
<1>2. CInv /\ [Next]_vars =>
        [blog' # blog => /\ blog' = Append(blog, LogHead') /\ Prev[LogHead'] = LogHead]_vars
  BY OnlyAppend, AppendBlockStep
<1> QED BY <1>1, <1>2, ControllerInvariant, PTL DEF Spec

\* What a reader takes for the tip of the chain: that of a stopped node is the last
\* block of its log.
Tip == IF Up THEN head ELSE LastOf(blog)

\* A step of the controller is one of the ledger, as long as the block log does not
\* get ahead of head.
LEMMA LedgerStep ==
  ASSUME CInv, [Next]_vars, Tip' \in Block, LogHead' \in Anc[Tip']
  PROVE  [LedgerView!Next]_<<blog, IF Up THEN head ELSE LastOf(blog)>>
<1> DEFINE tip == IF Up THEN head ELSE LastOf(blog)
<1>1. tip' \in Block /\ LogHead' \in Anc[tip']
  BY DEF Tip
<1>2. CASE blog' = blog
  <2>1. LogHead' = LogHead
    BY <1>2 DEF LogHead
  <2>2. LedgerView!Move(tip')
    BY <1>1, <1>2, <2>1 DEF LedgerView!Move, LedgerView!LastLogged, LogHead, LastOf
  <2> QED BY <1>1, <2>2, Zenon DEF LedgerView!Next
<1>3. CASE blog' # blog
  <2>1. AppendBlock
    BY <1>3, OnlyAppend, Zenon
  <2>2. /\ LogHead' \in Block /\ blog' = Append(blog, LogHead') /\ Prev[LogHead'] = LogHead
        /\ LogHead' # Genesis
    BY <2>1, AppendBlockStep, Zenon
  <2>3. LedgerView!Finalize(LogHead', tip')
    BY <1>1, <2>2 DEF LedgerView!Finalize, LedgerView!LastLogged, LogHead, LastOf
  <2> QED BY <1>1, <2>2, <2>3, Zenon DEF LedgerView!Next
<1> QED BY <1>2, <1>3

-----------------------------------------------------------------------------
(***************************************************************************)
(* The assertions.  Those about the LIB never fail.  The others need the   *)
(* revision of the state database to be that of head, which a failing      *)
(* blog.append breaks on a node that produces: commit_block aborts the     *)
(* session of a block that is head already.                                *)
(***************************************************************************)
LibAssertions == {"pop beyond LIB", "root is not block log head", "cannot advance root"}

\* The three assertions about the LIB hold in every step.
LEMMA LibAssertionsStep ==
  ASSUME CInv, [Next]_vars, asserted \cap LibAssertions = {}
  PROVE  asserted' \cap LibAssertions = {}
<1>1. CASE asserted' = asserted
  BY <1>1
<1>2. CASE PopBlock
  BY <1>2, PopFacts, Zenon DEF PopBlock
<1>3. CASE \E b \in newBranch : ApplyFails(b)
  BY <1>3, Zenon DEF ApplyFails, Asserts, LibAssertions
<1>4. CASE BeginLog
  <2>1. fdb.root = LogHead
    BY <1>4, Zenon DEF CInv, Up, UpOK, BeginLog, Appending
  <2> QED BY <1>4, <2>1, Zenon DEF BeginLog, LogHead
<1>5. CASE AdvanceRootToLog
  <2>1. pc \in {"advance", "advance_throw"} /\ Appending /\ Logging
    BY <1>5, Zenon DEF AdvanceRootToLog, Appending, Logging
  <2>2. /\ FdbInv(fdb) /\ Closed(fdb) /\ fdb.root \in Anc[LogHead] /\ LogHead \in Anc[fdb.head]
    BY <2>1, LoggingFacts DEF UpOK, AppendOK
  <2>3. LogHead = fdb.root \/ CanAdvanceRoot(fdb, LogHead)
    BY <2>2, CanAdvance
  <2> QED BY <1>5, <2>3, Zenon DEF AdvanceRootToLog, LogHead
<1>6. CASE Produce
  BY <1>6, Zenon DEF Produce, StartBlock, CommitBlock, Asserts, LibAssertions
<1> QED BY <1>1, <1>2, <1>3, <1>4, <1>5, <1>6, Zenon
     DEF Next, vars, Wait, PushBlock, Continue, ApplyNext, Reapply, EmptyBack, AppendBlock,
     AppendApplyFails, AppendOutOfSpace, ReplayPushBlock, InitBestBranch, AbortBlock, Shutdown,
     InterruptReplay, Die, Restart, Startup, ReplayBlockchain

\* Popping a block never goes beyond the LIB, the fork database's root is the
\* block log head whenever log_irreversible looks, and the root can always follow
\* the block log: the assertions the code makes about irreversible blocks never
\* fail, whatever blocks fail, and however often appends do and the node restarts.
THEOREM LibAssertionsHold == Spec => [](asserted \cap LibAssertions = {})
<1>1. Init => asserted \cap LibAssertions = {}
  BY DEF Init
<1>2. CInv /\ asserted \cap LibAssertions = {} /\ [Next]_vars => (asserted \cap LibAssertions = {})'
  BY LibAssertionsStep, Zenon DEF LibAssertions
<1> QED BY <1>1, <1>2, ControllerInvariant, PTL DEF Spec

\* A restart leaves the state of the head it starts from.
LEMMA RestartsKeep ==
  ASSUME CInv
  PROVE  Restarted
<1>1. ASSUME NEW m \in Modes, NEW n, Startup(m, n) PROVE Started(m)
  BY <1>1, StartupStep, Zenon DEF Started
<1>2. ASSUME NEW m \in Modes, NEW n, ReplayBlockchain(m, n) PROVE Replayed(m)
  BY <1>2, ReplayBlockchainStep, Zenon DEF Replayed
<1> QED BY <1>1, <1>2, Zenon DEF Restarted

\* What a step may assert: commit_block that the produced block is head, and the
\* others anything but this.
LEMMA AssertionsStep ==
  ASSUME [Next]_vars
  PROVE  \/ asserted' \subseteq asserted \cup LibAssertions \cup StateAssertions
         \/ Mine # {} /\ asserted' \subseteq asserted \cup ProducedAssertion
<1> DEFINE Named == asserted' \subseteq asserted \cup LibAssertions \cup StateAssertions
<1>1. ASSUME asserted' = asserted PROVE Named
  BY <1>1, Zenon
<1>2. ASSUME NEW a \in LibAssertions \cup StateAssertions, Asserts(a) PROVE Named
  BY <1>2, Zenon DEF Asserts
<1>3. /\ "pop beyond LIB" \in LibAssertions \cup StateAssertions
      /\ "root is not block log head" \in LibAssertions \cup StateAssertions
      /\ "cannot advance root" \in LibAssertions \cup StateAssertions
      /\ "remove head" \in LibAssertions \cup StateAssertions
      /\ "revision is not head" \in LibAssertions \cup StateAssertions
  BY Zenon DEF LibAssertions, StateAssertions
<1>4. ASSUME PopBlock PROVE Named
  BY <1>1, <1>2, <1>3, <1>4, Zenon DEF PopBlock
<1>5. ASSUME NEW b \in newBranch, ApplyFails(b) PROVE Named
  BY <1>1, <1>2, <1>3, <1>5, Zenon DEF ApplyFails
<1>6. ASSUME BeginLog PROVE Named
  BY <1>1, <1>2, <1>3, <1>6, Zenon DEF BeginLog
<1>7. ASSUME AdvanceRootToLog PROVE Named
  BY <1>1, <1>2, <1>3, <1>7, Zenon DEF AdvanceRootToLog
<1>8. ASSUME NEW b \in Mine, StartBlock(b) PROVE Named
  BY <1>1, <1>2, <1>3, <1>8, Zenon DEF StartBlock
<1>9. ASSUME NEW b \in Mine, CommitBlock(b)
      PROVE  Mine # {} /\ asserted' \subseteq asserted \cup ProducedAssertion
  BY <1>9, Zenon DEF CommitBlock, Asserts, ProducedAssertion
<1>10. ASSUME UNCHANGED vars \/ Wait PROVE Named
  BY <1>1, <1>10, Zenon DEF vars, Wait
<1>11. ASSUME
            \/ \E b \in Block : PushBlock(b)
            \/ \E b \in newBranch : ApplyNext(b)
            \/ \E b \in oldBranch : Reapply(b)
            \/ EmptyBack \/ AppendBlock \/ AppendApplyFails \/ AppendOutOfSpace
            \/ ReplayPushBlock \/ InitBestBranch
       PROVE Named
  BY <1>1, <1>11, Zenon DEF PushBlock, ApplyNext, Reapply, EmptyBack, AppendBlock,
       AppendApplyFails, AppendOutOfSpace, ReplayPushBlock, InitBestBranch
<1>12. ASSUME AbortBlock \/ Shutdown \/ InterruptReplay \/ Die \/ Restart PROVE Named
  BY <1>1, <1>12, Zenon DEF AbortBlock, Shutdown, InterruptReplay, Die, Restart, Startup,
       ReplayBlockchain
<1> HIDE DEF Named
<1>13. Named \/ \E b \in Mine : CommitBlock(b)
  BY <1>4, <1>5, <1>6, <1>7, <1>8, <1>10, <1>11, <1>12, Zenon DEF Next, Continue, Produce
<1> QED BY <1>9, <1>13, Zenon DEF Named

\* Unless blog.append fails on a node that produces, the revision of the state
\* database is that of head (one more while a block is produced), and the
\* assertions that rest on it hold: start_block finds the revision on par and
\* remove never meets the fork database's head.
THEOREM RevisionFollowsHead ==
  ASSUME Sound
  PROVE  Spec => [](LenInv /\ asserted \cap StateAssertions = {})
<1>1. Init => LenInv /\ asserted \cap StateAssertions = {}
  BY LenInvInit, Zenon DEF Init
<1>2. CInv /\ CInv' /\ LenInv /\ asserted \cap StateAssertions = {} /\ [Next]_vars
        => (LenInv /\ asserted \cap StateAssertions = {})'
  BY LenInvNext, RestartsKeep, Zenon
<1> QED BY <1>1, <1>2, ControllerInvariant, PTL DEF Spec

\* No assertion fails on a node that does not produce, whatever blocks fail,
\* appends throw and restarts happen.
THEOREM NoAssertWithoutProducer ==
  ASSUME Mine = {}
  PROVE  Spec => []NoAssertFails
<1>1. Sound
  BY DEF Sound
<1>2. Spec => [](LenInv /\ asserted \cap StateAssertions = {})
  BY <1>1, RevisionFollowsHead
<1>3. Init => NoAssertFails
  BY Zenon DEF Init, NoAssertFails
<1>4. NoAssertFails /\ [Next]_vars /\ (asserted \cap LibAssertions = {})'
        /\ (LenInv /\ asserted \cap StateAssertions = {})' => NoAssertFails'
  BY AssertionsStep, Zenon DEF NoAssertFails
<1> QED BY <1>2, <1>3, <1>4, LibAssertionsHold, PTL DEF Spec

\* The invariants of a node whose blocks execute, or that is not started again.
CalmInv == LenInv /\ Calm /\ ChainInv /\ NoAssertFails

\* They hold in every state: one of the two ways in Calm keeps a switch of
\* forks from ending on another branch than the fork database's head.
THEOREM CalmInvariant ==
  ASSUME Sound, Steady \/ Resident
  PROVE  Spec => []CalmInv
<1>1. Init => CalmInv
  BY LenInvInit, CalmInit, Zenon DEF CalmInv, Init, NoAssertFails
<1>2. ASSUME CInv, CInv', CalmInv, (asserted \cap LibAssertions = {})', [Next]_vars
      PROVE  CalmInv'
  <2>1. LenInv /\ Calm /\ ChainInv /\ asserted = {}
    BY <1>2, Zenon DEF CalmInv, NoAssertFails
  <2>2. asserted \cap StateAssertions = {} /\ asserted \cap ProducedAssertion = {}
    BY <2>1, Zenon
  <2>3. Restarted
    BY <1>2, RestartsKeep
  <2>4. LenInv' /\ asserted' \cap StateAssertions = {}
    BY <1>2, <2>1, <2>2, <2>3, LenInvNext
  <2>5. Calm' /\ asserted' \cap ProducedAssertion = {}
    BY <1>2, <2>1, <2>2, <2>3, CalmNext
  <2>6. ChainInv'
    BY <1>2, <2>1, <2>3, ChainInvNext
  <2>7. asserted' = {}
    BY <1>2, <2>1, <2>4, <2>5, AssertionsStep, Zenon
  <2> QED BY <2>4, <2>5, <2>6, <2>7, Zenon DEF CalmInv, NoAssertFails
<1>3. CInv /\ CInv' /\ CalmInv /\ (asserted \cap LibAssertions = {})' /\ [Next]_vars => CalmInv'
  BY <1>2
<1> QED BY <1>1, <1>3, ControllerInvariant, LibAssertionsHold, PTL DEF Spec

\* No assertion fails as long as blocks execute, or the process is not started
\* again, and blog.append does not fail on a node that produces.
THEOREM AssertionsHold ==
  ASSUME Sound, Steady \/ Resident
  PROVE  Spec => []NoAssertFails
<1>1. CalmInv => NoAssertFails
  BY Zenon DEF CalmInv
<1> QED BY <1>1, CalmInvariant, PTL

\* Under the same conditions neither of the two heads is preferred to the other
\* between handlers, also after a switch that was given up half way.
THEOREM HeadsStayTogether ==
  ASSUME Sound, Steady \/ Resident
  PROVE  Spec => []HeadsAgree
<1>1. CInv /\ CalmInv => HeadsAgree
  BY CalmHeadsAgree, Zenon DEF CalmInv
<1> QED BY <1>1, ControllerInvariant, CalmInvariant, PTL

\* Under the same conditions the state database holds the chain that ends in
\* head, and the open session of a block under production, at every step of a
\* fork switch, of its reversal and of log_irreversible, and after restarts.
THEOREM StateFollowsHead ==
  ASSUME Sound, Steady \/ Resident
  PROVE  Spec => []StateIsHead
<1>1. CInv /\ CalmInv => StateIsHead
  BY CalmState, Zenon DEF CalmInv
<1> QED BY <1>1, ControllerInvariant, CalmInvariant, PTL

\* Under the same conditions nothing is committed before it is in the block log,
\* nor anything else than what is there.
THEOREM CommitFollowsLog ==
  ASSUME Sound, Steady \/ Resident
  PROVE  Spec => []CommitAfterLog
<1>1. CInv /\ CalmInv => CommitAfterLog
  BY CalmCommit, Zenon DEF CalmInv
<1> QED BY <1>1, ControllerInvariant, CalmInvariant, PTL

-----------------------------------------------------------------------------
(***************************************************************************)
(* The best block known, and the end of a replay: as long as blocks        *)
(* execute and blog.append does not fail.                                  *)
(***************************************************************************)
\* Where no block is preferred to the fork database's head, it is the pending head.
LEMMA QuietPending ==
  ASSUME NEW f, FdbInv(f), Quiet(f, f.head)
  PROVE  pending_head(f) = f.head
<1>1. Unvalidated(f) # {} => FirstOf(Unvalidated(f)) \in f.index
  <2>1. Unvalidated(f) \in SUBSET Block /\ Unvalidated(f) \subseteq f.index
    BY FdbFacts DEF Unvalidated
  <2> QED BY <2>1, FirstOfIsFirst
<1> QED BY <1>1 DEF Quiet, pending_head

\* In irreversible mode head is what has been logged.
LEMMA LoggedIrrNext ==
  ASSUME CInv', BestInv', Up', mode' = "irreversible"
  PROVE  LoggedInv'
<1>1. /\ UpOK' /\ IrrOK' /\ head' = LogHead' /\ head' \in Block /\ LogHead' \in Anc[head']
  <2>1. UpOK' /\ IrrOK' /\ head' = LogHead' /\ head' \in Block
    BY DEF CInv, UpOK, BestInv, Typed
  <2> QED BY <2>1, AncStep
<1>2. fdb'.head = head' /\ Lib[head'] <= Num[head']
  BY <1>1, BlockFacts DEF IrrOK
<1>3. ret' = "replay" => ~Appending'
  BY <1>1 DEF UpOK, Logging, LogOK
<1> QED BY <1>1, <1>2, <1>3, Zenon DEF LoggedInv

\* Steps that leave the fork database and head alone, and the node up.
LEMMA BestSame ==
  ASSUME BestInv, Up, Up', fdb' = fdb, head' = head, mode' = mode,
         mode = "irreversible" => LogHead' = LogHead,
         \/ Switching' \/ (ret' = "replay" /\ pc' # "idle")
         \/ ~Switching /\ (pc = "idle" \/ ret # "replay"),
         ret' = "replay" => ret = "replay"
  PROVE  BestInv'
BY DEF BestInv, Quiet

\* Steps that end the process and leave fork_db.dat.
LEMMA BestStops ==
  ASSUME ~Up', fdb' = fdb, fdb.head = fdb.root \/ Quiet(fdb, fdb.head)
  PROVE  BestInv'
BY DEF BestInv, Quiet

\* Where the fork database's head is fit to be written.
LEMMA BestKept ==
  ASSUME CInv, BestInv, Up, ~Switching
  PROVE  fdb.head = fdb.root \/ Quiet(fdb, fdb.head) \/ (mode = "irreversible" /\ Appending)
<1>1. mode \in {"head", "irreversible"} /\ UpOK
  BY ControllerAssumption DEF CInv, Typed
<1>2. CASE mode = "irreversible" /\ ~Appending
  <2>1. head = LogHead /\ fdb.head = head /\ fdb.root = LogHead
    BY <1>1, <1>2 DEF BestInv, UpOK, IrrOK
  <2> QED BY <2>1
<1>3. CASE mode = "head"
  BY <1>3 DEF BestInv
<1> QED BY <1>1, <1>2, <1>3

\* push_block.
LEMMA BestPush ==
  ASSUME CInv, CInv', SteadyInv, SteadyInv', BestInv, LoggedInv, NEW b \in Block, PushBlock(b)
  PROVE  BestInv' /\ LoggedInv'
<1>1. /\ pc = "idle" /\ fdb' = add(fdb, b) /\ Linkable(fdb, b) /\ head' = head /\ mode' = mode /\ LogHead' = LogHead
      /\ blog' = blog /\ toLog' = toLog
      /\ IF mode = "irreversible" THEN pc' = "log" /\ ret' = "idle"
         ELSE MaybeSwitchForks(pending_head(fdb'), "idle")
  BY Zenon DEF PushBlock, LogHead
<1>2. mode \in {"head", "irreversible"} /\ Up
  BY <1>1, ControllerAssumption DEF CInv, Typed, Up
<1>3. CASE mode = "irreversible"
  <2>1. BestInv' /\ Up' /\ mode' = "irreversible"
    BY <1>1, <1>2, <1>3 DEF BestInv, Up
  <2> QED BY <2>1, LoggedIrrNext
<1>4. CASE mode = "head"
  <2>1. PICK nh : nh = pending_head(fdb')
    OBVIOUS
  <2>2. /\ ret' = "idle"
        /\ nh = head => pc' = "idle"
        /\ nh # head => pc' \in {"apply_one", "pop", "apply"}
    BY <1>1, <1>4, <2>1 DEF MaybeSwitchForks
  <2>3. CASE nh = head
    <3>1. pc' = "idle" /\ head = fdb.head /\ head = fdb'.head /\ nh = fdb'.head
      BY <1>1, <2>2, <2>3 DEF SteadyInv
    <3>2. Quiet(fdb', fdb'.head)
      BY <2>1, <3>1, PendingHeadQuiet, Zenon DEF CInv
    <3>3. BestInv'
      BY <1>1, <1>4, <2>2, <3>1, <3>2 DEF BestInv, Up
    <3>4. LoggedInv'
      BY <1>1, <2>2, <3>1 DEF LoggedInv, Up
    <3> QED BY <3>3, <3>4
  <2>4. CASE nh # head
    <3>1. Up' /\ Switching' /\ pc' \in {"apply_one", "pop", "apply"} /\ ret' = "idle"
      BY <2>2, <2>4 DEF Up, Switching
    <3> QED BY <1>1, <1>4, <3>1 DEF BestInv, LoggedInv, Up
  <2> QED BY <2>3, <2>4
<1> QED BY <1>2, <1>3, <1>4

\* pop_block.
LEMMA BestPop ==
  ASSUME CInv, SteadyInv, BestInv, LoggedInv, PopBlock
  PROVE  BestInv' /\ LoggedInv'
<1>1. /\ pc = "pop" /\ pc' \in {"pop", "apply"} /\ fdb' = fdb /\ mode' = mode /\ ret' = ret
  BY Zenon DEF PopBlock, SteadyInv
<1>2. Switching /\ Switching' /\ Up' /\ ~Appending'
  BY <1>1 DEF Switching, Up, Appending
<1>3. mode = "head" /\ SwitchOK
  BY <1>2, SwitchFacts
<1>4. ret # "replay"
  BY <1>1, <1>3 DEF SwitchOK, SwitchFrom
<1> QED BY <1>1, <1>2, <1>3, <1>4 DEF BestInv, LoggedInv

\* The next block of the new branch: the last one is the best known.
LEMMA BestApply ==
  ASSUME CInv, CInv', SteadyInv, BestInv, LoggedInv, NEW b \in newBranch, ApplyNext(b)
  PROVE  BestInv' /\ LoggedInv'
<1>1. /\ pc \in {"apply_one", "apply"} /\ Prev[b] = head /\ fdb' = mark_valid(fdb, b) /\ head' = b
      /\ mode' = mode /\ ret' = ret /\ LogHead' = LogHead
      /\ pc' = IF \E c \in newBranch : Num[c] > Num[b] THEN pc ELSE "log"
  BY Zenon DEF ApplyNext, ApplyBlock, LogHead
<1>2. Switching /\ Up /\ Up' /\ ~Appending'
  BY <1>1 DEF Switching, Up, Appending
<1>3. mode = "head" /\ SwitchOK /\ FdbInv(fdb) /\ Closed(fdb) /\ OnTree
  BY <1>2, SwitchFacts
<1>4. PICK oh \in Block, n \in Block : SwitchFrom(oh, n)
  BY <1>3, Zenon DEF SwitchOK
<1>5. /\ b \in fdb.index /\ b \in Block /\ b # Genesis /\ Anc[b] = Anc[head] \cup {b}
      /\ ret = "replay" => b \in fdb.validated
  BY <1>1, <1>4, NextFacts
<1>6. CASE ret = "replay"
  <2>1. fdb' = fdb
    BY <1>1, <1>5, <1>6 DEF mark_valid
  <2>2. LogHead \in Anc[head'] /\ pc' # "idle"
    BY <1>1, <1>3, <1>5 DEF OnTree
  <2>3. pc' \notin {"append", "advance", "advance_throw"}
    BY <1>2 DEF Appending
  <2> QED BY <1>1, <1>2, <1>3, <1>6, <2>1, <2>2, <2>3 DEF BestInv, LoggedInv, Quiet
<1>7. CASE ret # "replay" /\ pc' # "log"
  <2>1. Switching' /\ pc' \in {"apply_one", "apply"}
    BY <1>1, <1>7 DEF Switching
  <2> QED BY <1>1, <1>2, <1>3, <1>7, <2>1, Zenon DEF BestInv, LoggedInv
<1>8. CASE ret # "replay" /\ pc' = "log"
  <2>1. PICK nh \in Block : SteadySwitch(nh)
    BY <1>2, <1>8 DEF SteadyInv
  <2>2. nh \in newBranch /\ b \in Anc[nh] /\ Quiet(fdb, nh)
    BY <2>1 DEF SteadySwitch
  <2>3. b = nh
    <3>1. ~(Num[nh] > Num[b]) /\ Num[nh] \in Nat /\ Num[b] \in Nat
      BY <1>1, <1>5, <1>8, <2>2, BlockFacts
    <3> QED BY <2>2, <3>1, AncMonotone
  <2>4. fdb'.head = b
    <3>1. UpOK' /\ Logging'
      BY <1>2, <1>8 DEF CInv, Logging
    <3> QED BY <1>1, <1>8, <3>1 DEF UpOK, LogOK
  <2>5. fdb'.index = fdb.index
    <3>1. Valid(fdb, Prev[b])
      BY <1>1, <1>3 DEF OnTree
    <3> QED BY <1>1, <1>3, <1>5, <3>1, MarkValidFacts
  <2>6. Quiet(fdb', fdb'.head)
    BY <2>2, <2>3, <2>4, <2>5 DEF Quiet
  <2> QED BY <1>1, <1>2, <1>3, <1>8, <2>6 DEF BestInv, LoggedInv
<1> QED BY <1>6, <1>7, <1>8

\* log_irreversible up to its loop: what replay() has pushed makes nothing
\* irreversible that is not logged.
LEMMA BestBeginLog ==
  ASSUME CInv, CInv', BestInv, LoggedInv, BeginLog
  PROVE  BestInv' /\ LoggedInv'
<1>1. pc = "log" /\ Logging /\ ~Appending /\ Up /\ ~Switching
  BY Zenon DEF BeginLog, Logging, Appending, Up, Switching
<1>2. /\ Typed /\ FdbInv(fdb) /\ UpOK /\ LogOK /\ LogHead \in Block
      /\ mode \in {"head", "irreversible"} /\ fdb.root = LogHead
  BY <1>1, LoggingFacts DEF UpOK
<1>3. fdb' = fdb /\ head' = head /\ mode' = mode /\ ret' = ret /\ LogHead' = LogHead
  BY Zenon DEF BeginLog, LogHead
<1>4. IF Lib[fork_db_head] <= Num[LogHead] THEN pc' = ret
      ELSE toLog' = fetch_branch(fdb, fork_db_head, Lib[fork_db_head]) /\ pc' = "append"
  BY <1>2, Zenon DEF BeginLog, Return, LogHead
<1>5. ret \in {"idle", "replay", "init"} /\ Up' /\ ~Switching'
  BY <1>2, <1>4 DEF Typed, Up, Switching
<1>6. BestInv'
  <2>1. (ret' = "replay" /\ pc' # "idle") \/ (~Switching /\ ret # "replay")
    BY <1>1, <1>3, <1>4
  <2> QED BY <1>1, <1>3, <1>5, <2>1, BestSame
<1>7. CASE mode = "irreversible"
  BY <1>3, <1>5, <1>6, <1>7, LoggedIrrNext
<1>8. CASE mode = "head" /\ Lib[fdb.head] <= Num[LogHead]
  <2>1. pc' = ret
    BY <1>4, <1>8 DEF fork_db_head
  <2>2. pc' \notin {"append", "advance_throw"} /\ ~Appending'
    BY <1>5, <2>1 DEF Appending
  <2>3. LogHead' \in Anc[head']
    BY <1>1, <1>2, <1>3 DEF UpOK, OnTree, Lags
  <2> QED BY <1>3, <1>6, <1>8, <2>2, <2>3 DEF LoggedInv
<1>9. CASE mode = "head" /\ ~(Lib[fdb.head] <= Num[LogHead])
  <2>1. toLog' = fetch_branch(fdb, fdb.head, Lib[fdb.head]) /\ pc' = "append"
    BY <1>4, <1>9 DEF fork_db_head
  <2>2. ret # "replay"
    BY <1>9 DEF LoggedInv
  <2>3. fdb.head \in Block /\ fdb.root \in Block /\ Anc[fdb.head] \ Anc[fdb.root] \subseteq fdb.index
    BY <1>2, FdbFacts
  <2>4. /\ Num[LogHead] \in Nat /\ Num[fdb.head] \in Nat /\ Lib[fdb.head] \in Nat
        /\ Lib[fdb.head] < Num[fdb.head] /\ Num[LogHead] < Lib[fdb.head]
        /\ Lib[fdb.head] \in 1..Num[fdb.head]
    BY <1>2, <1>9, <2>3, BlockFacts
  <2>5. PICK y \in Anc[fdb.head] : Num[y] = Lib[fdb.head]
    BY <2>3, <2>4, AncAtHeight
  <2>6. y \notin Anc[fdb.root]
    BY <1>2, <2>3, <2>4, <2>5, AncMonotone
  <2>7. y \in toLog' /\ Lib[fdb'.head] <= Num[y]
    BY <1>3, <2>1, <2>3, <2>4, <2>5, <2>6 DEF fetch_branch
  <2> QED BY <1>3, <1>5, <1>6, <2>1, <2>2, <2>7 DEF LoggedInv
<1> QED BY <1>2, <1>7, <1>8, <1>9

\* One turn of the loop of log_irreversible: the highest of the blocks to log is
\* as high as the fork database's head demands.
LEMMA BestAppend ==
  ASSUME CInv, CInv', BestInv, LoggedInv, AppendBlock
  PROVE  BestInv' /\ LoggedInv'
<1>1. pc = "append" /\ Logging /\ Appending /\ Up /\ ~Switching
  BY Zenon DEF AppendBlock, Logging, Appending, Up, Switching
<1>2. mode \in {"head", "irreversible"} /\ LogHead \in Block /\ ret # "replay" /\ UpOK /\ Typed
  BY <1>1, LoggingFacts DEF LoggedInv
<1>3. PICK b : b = Lowest(toLog)
  OBVIOUS
<1>4. /\ IF mode = "irreversible" THEN head' = b ELSE fdb' = fdb /\ head' = head
      /\ blog' = Append(blog, b) /\ toLog' = toLog \ {b} /\ mode' = mode /\ ret' = ret
      /\ pc' = IF toLog' = {} THEN "advance" ELSE "append"
  BY <1>1, <1>3, Zenon DEF AppendBlock, ApplyBlock
<1>5. LogHead' = b /\ b \in Block
  <2>1. blog \in Seq(Block) /\ b \in Block
    BY <1>1, <1>3, AppendFacts, Zenon DEF CInv, LogChain
  <2>2. Len(Append(blog, b)) = Len(blog) + 1 /\ Append(blog, b)[Len(blog) + 1] = b
    BY <2>1, SeqAppend
  <2> QED BY <1>4, <2>1, <2>2 DEF LogHead, LastOf
<1>6. Up' /\ ~Switching' /\ pc' \in {"append", "advance"}
  BY <1>4 DEF Up, Switching
<1>7. CASE mode = "irreversible"
  <2>1. BestInv'
    BY <1>2, <1>4, <1>5, <1>6, <1>7 DEF BestInv
  <2> QED BY <1>4, <1>6, <1>7, <2>1, LoggedIrrNext
<1>8. CASE mode = "head"
  <2>1. BestInv'
    BY <1>1, <1>2, <1>4, <1>6, <1>8, BestSame
  <2>2. toLog \in SUBSET Block /\ toLog # {}
    BY <1>1, <1>2 DEF Typed, UpOK, AppendOK
  <2>3. b \in toLog /\ \A c \in toLog : Num[b] <= Num[c]
    <3>1. \E c \in toLog : \A d \in toLog : Num[c] <= Num[d]
      BY <2>2, LowestBlock, Zenon
    <3> QED BY <1>3, <3>1 DEF Lowest
  <2>4. PICK y \in toLog : Lib[fdb.head] <= Num[y]
    BY <1>1, <1>8 DEF LoggedInv
  <2>5. fdb' = fdb /\ Num[y] \in Nat /\ Num[b] \in Nat /\ Lib[fdb.head] \in Nat
    <3>1. fdb.head \in Block
      BY FdbFacts DEF CInv
    <3> QED BY <1>4, <1>5, <1>8, <2>2, <2>4, <3>1, BlockFacts
  <2>6. CASE toLog' = {}
    <3>1. y = b
      BY <1>4, <2>4, <2>6
    <3> QED BY <1>2, <1>4, <1>5, <1>6, <1>8, <2>1, <2>4, <2>5, <2>6, <3>1 DEF LoggedInv
  <2>7. CASE toLog' # {}
    <3>1. PICK c : c \in toLog'
      BY <2>7
    <3>2. \E z \in toLog' : Lib[fdb.head] <= Num[z]
      <4>1. CASE y # b
        BY <1>4, <2>4, <4>1
      <4>2. CASE y = b
        <5>1. c \in toLog /\ Num[b] <= Num[c] /\ Num[c] \in Nat
          BY <1>4, <2>2, <2>3, <3>1, BlockFacts
        <5> QED BY <2>4, <2>5, <3>1, <4>2, <5>1
      <4> QED BY <4>1, <4>2
    <3> QED BY <1>2, <1>4, <1>6, <1>8, <2>1, <2>5, <2>7, <3>2 DEF LoggedInv
  <2> QED BY <2>6, <2>7
<1> QED BY <1>2, <1>7, <1>8

\* The block to be applied in irreversible mode fails.
LEMMA BestAppendStops ==
  ASSUME MaxFails = 0, CInv, CInv', BestInv, AppendApplyFails \/ AppendOutOfSpace
  PROVE  BestInv' /\ LoggedInv'
<1>1. ~AppendOutOfSpace
  <2>1. fails \in 0..0
    BY Zenon DEF CInv, Typed
  <2>2. ~(fails < 0)
    BY <2>1
  <2> QED BY <2>2, Zenon DEF AppendOutOfSpace
<1>2. /\ pc = "append" /\ pc' = "advance_throw" /\ fdb' = fdb /\ head' = head /\ mode' = mode
      /\ ret' = ret /\ LogHead' = LogHead /\ mode = "irreversible"
  BY <1>1, Zenon DEF AppendApplyFails, LogHead
<1>3. Up /\ Logging /\ Up'
  BY <1>2 DEF Up, Logging, Appending
<1>4. ret # "replay"
  BY <1>2, <1>3, LoggingFacts DEF LogOK
<1>5. BestInv'
  BY <1>2, <1>3, <1>4 DEF BestInv
<1> QED BY <1>2, <1>3, <1>5, LoggedIrrNext

\* The root follows the block log.
LEMMA BestAdvance ==
  ASSUME CInv, CInv', BestInv, LoggedInv, AdvanceRootToLog
  PROVE  BestInv' /\ LoggedInv'
<1>1. pc \in {"advance", "advance_throw"} /\ Appending /\ Logging /\ Up /\ ~Switching
  BY Zenon DEF AdvanceRootToLog, Appending, Logging, Up, Switching
<1>2. /\ FdbInv(fdb) /\ Closed(fdb) /\ fdb.root \in Anc[LogHead] /\ LogHead \in Anc[fdb.head]
      /\ mode \in {"head", "irreversible"} /\ (mode = "irreversible" => ret = "idle")
      /\ Typed
  BY <1>1, LoggingFacts DEF UpOK, AppendOK, LogOK
<1>3. LogHead = fdb.root \/ CanAdvanceRoot(fdb, LogHead)
  BY <1>2, CanAdvance
<1>4. /\ fdb' = IF LogHead # fdb.root THEN advance_root(fdb, LogHead) ELSE fdb
      /\ IF pc = "advance" THEN Return ELSE ThrowAndAbort
      /\ head' = head /\ mode' = mode /\ ret' = ret /\ LogHead' = LogHead
  BY <1>3, Zenon DEF AdvanceRootToLog, LogHead
<1>5. fdb'.head = fdb.head /\ fdb'.index \subseteq fdb.index
  <2>1. CASE LogHead # fdb.root
    <3>1. PICK g : g = advance_root(fdb, LogHead)
      OBVIOUS
    <3>2. g.head = fdb.head /\ g.index = {c \in fdb.index \ {LogHead} : LogHead \in Anc[c]}
      BY <1>2, <2>1, <3>1, AdvanceFacts, Zenon
    <3> QED BY <1>4, <2>1, <3>1, <3>2
  <2> QED BY <1>4, <2>1
<1>6. ret \in {"idle", "init"} /\ (mode = "irreversible" => ret = "idle")
  BY <1>1, <1>2 DEF LoggedInv, Typed
<1>7. pc' = ret /\ (mode = "head" => pc = "advance")
  <2>1. mode = "head" => pc = "advance"
    BY <1>1 DEF LoggedInv
  <2> QED BY <1>2, <1>4, <1>6, <2>1 DEF Return, ThrowAndAbort, Throw
<1>8. Up' /\ ~Switching' /\ ~Appending'
  BY <1>6, <1>7 DEF Up, Switching, Appending
<1>9. CASE mode = "irreversible"
  <2>1. BestInv'
    BY <1>1, <1>4, <1>6, <1>8, <1>9 DEF BestInv
  <2> QED BY <1>4, <1>8, <1>9, <2>1, LoggedIrrNext
<1>10. CASE mode = "head"
  <2>1. Quiet(fdb', fdb'.head)
    BY <1>1, <1>5, <1>6, <1>10 DEF BestInv, Quiet
  <2>2. BestInv'
    BY <1>4, <1>6, <1>8, <1>10, <2>1 DEF BestInv
  <2>3. LoggedInv'
    BY <1>4, <1>5, <1>6, <1>7, <1>8, <1>10 DEF LoggedInv
  <2> QED BY <2>2, <2>3
<1> QED BY <1>2, <1>9, <1>10

\* replay() pushes a block that is built on head: none is refused.
LEMMA BestReplayPush ==
  ASSUME CInv, BestInv, LoggedInv, ReplayPushBlock
  PROVE  BestInv' /\ LoggedInv' /\ pc' = "apply_one"
<1>1. /\ pc = "replay" /\ todo # {} /\ Up /\ head' = head /\ mode' = mode /\ LogHead' = LogHead
  BY Zenon DEF ReplayPushBlock, Up, LogHead
<1>2. fdb' = fdb /\ ret = "replay" /\ ret' = "replay" /\ (pc' = "down" \/ pc' = "apply_one")
  BY ReplayedIsKnown
<1>3. LogHead \in Anc[head] /\ FdbInv(fdb) /\ UpOK
  BY <1>1, <1>2 DEF LoggedInv, CInv
<1>4. OnTree /\ ReplayOK
  BY <1>1, <1>3 DEF UpOK, Lags
<1>5. PICK b : b = Lowest(todo)
  OBVIOUS
<1>6. Prev[b] = head
  <2>1. fdb.head \in Block /\ head \in Anc[fdb.head] /\ todo = Anc[fdb.head] \ Anc[head]
    BY <1>3, <1>4, FdbFacts DEF ReplayOK
  <2> QED BY <1>1, <1>5, <2>1, BranchLowest
<1>7. get_block_header(fdb, Prev[b])
  BY <1>3, <1>4, <1>6, FdbFacts, Zenon DEF OnTree
<1>8. MaybeSwitchForks(b, "replay")
  BY <1>5, <1>6, <1>7, Zenon DEF ReplayPushBlock
<1>9. pc' = "apply_one"
  BY <1>2, <1>8 DEF MaybeSwitchForks
<1>10. Up' /\ Switching' /\ ~Appending'
  BY <1>9 DEF Up, Switching, Appending
<1>11. BestInv'
  BY <1>1, <1>2, <1>10, BestSame
<1>12. LoggedInv'
  BY <1>1, <1>2, <1>3, <1>9, <1>10 DEF LoggedInv
<1> QED BY <1>9, <1>11, <1>12

\* The end of init: the best branch is the one that replay() went up, or it is
\* switched to.
LEMMA BestInit ==
  ASSUME CInv, SteadyInv, BestInv, LoggedInv, InitBestBranch
  PROVE  BestInv' /\ LoggedInv'
<1>1. /\ pc \in {"replay", "init"} /\ Up /\ ~Switching /\ fdb' = fdb /\ head' = head /\ mode' = mode
      /\ LogHead' = LogHead
  BY Zenon DEF InitBestBranch, Up, Switching, LogHead
<1>2. FdbInv(fdb) /\ ret = pc /\ mode \in {"head", "irreversible"} /\ Lib[fdb.head] <= Num[LogHead]
  BY <1>1, ControllerAssumption DEF CInv, UpOK, Typed, LoggedInv
<1>3. head = fdb.head
  BY ReplayedToHead
<1>4. CASE /\ mode = "head" /\ pending_head(fdb) # fdb.head
           /\ pc = "init" \/ fdb.head = fdb.root
  <2>1. MaybeSwitchForks(pending_head(fdb), "init")
    BY <1>4, Zenon DEF InitBestBranch
  <2>2. ret' = "init" /\ pc' \in {"apply_one", "pop", "apply"}
    BY <1>3, <1>4, <2>1 DEF MaybeSwitchForks
  <2>3. Up' /\ Switching' /\ ~Appending'
    BY <2>2 DEF Up, Switching, Appending
  <2> QED BY <1>1, <1>4, <2>2, <2>3 DEF BestInv, LoggedInv
<1>5. CASE ~(/\ mode = "head" /\ pending_head(fdb) # fdb.head
             /\ pc = "init" \/ fdb.head = fdb.root)
  <2>1. pc' = "idle" /\ ret' = "idle"
    BY <1>2, <1>5, Zenon DEF InitBestBranch
  <2>2. Up' /\ ~Appending'
    BY <2>1 DEF Up, Appending
  <2>3. mode = "head" => Quiet(fdb, fdb.head)
    <3>1. CASE pending_head(fdb) = fdb.head
      BY <1>2, <3>1, PendingHeadQuiet
    <3>2. CASE pc = "replay" /\ fdb.head # fdb.root
      BY <1>2, <3>2 DEF BestInv
    <3> QED BY <1>1, <1>5, <3>1, <3>2
  <2>4. BestInv'
    BY <1>1, <2>1, <2>2, <2>3 DEF BestInv, Quiet
  <2>5. LoggedInv'
    BY <1>1, <1>2, <2>1, <2>2 DEF LoggedInv
  <2> QED BY <2>4, <2>5
<1> QED BY <1>2, <1>4, <1>5

\* A block the node produced is better than every other.
LEMMA BestCommit ==
  ASSUME CInv, SteadyInv, BestInv, LoggedInv, NEW b \in Mine, CommitBlock(b)
  PROVE  BestInv' /\ LoggedInv'
<1>1. /\ pc = "idle" /\ pending = {b} /\ fdb' = mark_valid(add(fdb, b), b) /\ mode' = mode
      /\ ret' = "idle"
  BY Zenon DEF CommitBlock
<1>2. /\ FdbInv(fdb) /\ Closed(fdb) /\ head \in Block /\ OnTree /\ mode = "head"
      /\ b \in Block \ {Genesis} /\ Prev[b] = head /\ b \notin fdb.index
  BY <1>1, ProducingFacts
<1>3. /\ head = fdb.head /\ Quiet(fdb, head) /\ fdb.index \subseteq Block
  BY <1>1, <1>2, FdbFacts, Zenon DEF SteadyInv, BestInv, Up, Switching
<1>4. ~first_preferred(fdb.head, head) /\ Valid(fdb, head)
  BY <1>2, <1>3, PreferenceFacts, Zenon DEF OnTree
<1>5. PICK g : g = mark_valid(add(fdb, b), b)
  OBVIOUS
<1>6. g.head = b /\ g.index = fdb.index \cup {b}
  <2>1. /\ Prev[b] \in Block /\ Valid(fdb, Prev[b]) /\ ~first_preferred(fdb.head, Prev[b])
        /\ g = Produced(fdb, b)
    BY <1>2, <1>4, <1>5, Zenon DEF Produced
  <2> QED BY <1>2, <2>1, ProducedIsHead, Zenon
<1>7. fdb' = g /\ fdb'.head = b
  BY <1>1, <1>5, <1>6, Zenon
<1>8. pc' = "log"
  BY <1>7 DEF CommitBlock
<1>9. ASSUME NEW u \in g.index PROVE ~first_preferred(u, b)
  <2>1. first_preferred(b, head)
    BY <1>2, PrevWorse
  <2>2. u \in Block /\ (u = b \/ ~first_preferred(u, head))
    BY <1>2, <1>3, <1>6, Zenon DEF Quiet
  <2> QED BY <1>2, <2>1, <2>2, PreferenceFacts
<1>10. Quiet(fdb', fdb'.head)
  BY <1>7, <1>9 DEF Quiet
<1>11. Up' /\ ~Appending'
  BY <1>8 DEF Up, Appending
<1> QED BY <1>1, <1>2, <1>8, <1>10, <1>11, Zenon DEF BestInv, LoggedInv

\* The node is stopped between handlers, or in replay().
LEMMA BestShutdown ==
  ASSUME CInv, BestInv, LoggedInv, Shutdown \/ InterruptReplay
  PROVE  BestInv' /\ LoggedInv'
<1>1. /\ pc \in {"idle", "replay"} /\ pc' = "down" /\ fdb' = fdb /\ LogHead' = LogHead
  BY Zenon DEF Shutdown, InterruptReplay, LogHead
<1>2. Up /\ ~Switching /\ ~Appending /\ ~Up'
  BY <1>1 DEF Up, Switching, Appending
<1>3. fdb.head = fdb.root \/ Quiet(fdb, fdb.head)
  BY <1>2, BestKept
<1>4. BestInv'
  BY <1>1, <1>2, <1>3, BestStops
<1>5. LoggedInv'
  BY <1>1, <1>2 DEF LoggedInv
<1> QED BY <1>4, <1>5

\* startup() and replay-blockchain: a fork database that is not rolled back to its
\* root is the one that was written.
LEMMA BestRestarts ==
  ASSUME CInv, CInv', BestInv, LoggedInv, Restarted, NEW m \in Modes, NEW n,
         Startup(m, n) \/ ReplayBlockchain(m, n)
  PROVE  BestInv' /\ LoggedInv'
<1>1. /\ pc = "down" /\ mode' = m /\ LogHead' = LogHead
      /\ \/ pc' = "down"
         \/ pc' = "replay" /\ ret' = "replay"
  BY Zenon DEF Startup, ReplayBlockchain, InitFrom, LogHead
<1>2. ~Up /\ ~Switching' /\ ~Appending' /\ LogChain /\ LogHead \in Block /\ FdbInv(fdb)
      /\ Num[LogHead] = Len(blog) /\ Len(blog) \in Nat
  BY <1>1, LogFacts DEF Up, Switching, Appending, CInv
<1>3. \/ fdb' = Opened(fdb, m) /\ fdb.root = LogHead /\ saved /\ head' \in {fdb'.head, LogHead}
      \/ \E j \in 1..Len(blog) : fdb' = reset(blog[j]) /\ head' = blog[j]
  <2>1. CASE Startup(m, n)
    <3>1. saved /\ Started(m)
      BY <2>1, Zenon DEF Restarted, Startup
    <3> QED BY <3>1, Zenon DEF Started, StartupKeeps, StartupAppends
  <2>2. CASE ReplayBlockchain(m, n)
    <3>1. Replayed(m)
      BY <2>2, Zenon DEF Restarted
    <3> QED BY <3>1 DEF Replayed
  <2> QED BY <2>1, <2>2, Zenon
<1>4. /\ fdb'.head = fdb'.root \/ (fdb' = fdb /\ saved /\ m # "irreversible")
      /\ Lib[fdb'.head] <= Num[LogHead]
      /\ fdb'.root = LogHead => LogHead \in Anc[head']
  <2>1. CASE fdb' = Opened(fdb, m) /\ fdb.root = LogHead /\ saved /\ head' \in {fdb'.head, LogHead}
    <3>1. \/ fdb' = fdb /\ (m = "irreversible" => fdb.head = fdb.root)
          \/ fdb' = rollback_head_to_root(fdb)
      BY <2>1 DEF Opened
    <3>2. fdb' = rollback_head_to_root(fdb) => fdb'.head = fdb.root /\ fdb'.root = fdb.root
      BY <1>2 DEF rollback_head_to_root, FdbInv, ForkDb
    <3>3. fdb'.root = LogHead
      BY <2>1, <3>1, <3>2
    <3>4. LogHead \in Anc[fdb'.head] /\ LogHead \in Anc[LogHead]
      BY <1>2, <3>3, FdbFacts, AncStep, Zenon DEF CInv
    <3>5. fdb' = fdb => Lib[fdb.head] <= Num[LogHead]
      BY <1>2, <2>1, Zenon DEF LoggedInv
    <3>6. Lib[LogHead] <= Num[LogHead]
      BY <1>2, BlockFacts
    <3> QED BY <2>1, <3>1, <3>2, <3>3, <3>4, <3>5, <3>6, Zenon
  <2>2. ASSUME NEW j \in 1..Len(blog), fdb' = reset(blog[j]), head' = blog[j]
        PROVE  /\ fdb'.head = fdb'.root /\ Lib[fdb'.head] <= Num[LogHead]
               /\ fdb'.root = LogHead => LogHead \in Anc[head']
    <3>1. blog[j] \in Block /\ Num[blog[j]] = j
      BY <1>2, SeqElement DEF LogChain
    <3>2. fdb'.head = blog[j] /\ fdb'.root = blog[j]
      BY <2>2, <3>1, ResetFacts
    <3>3. Lib[blog[j]] \in Nat /\ Lib[blog[j]] < Num[blog[j]] /\ blog[j] \in Anc[blog[j]]
      BY <3>1, BlockFacts, AncStep
    <3>4. Num[blog[j]] <= Num[LogHead]
      BY <1>2, <3>1
    <3>5. Lib[blog[j]] <= Num[LogHead]
      BY <1>2, <3>1, <3>3, <3>4
    <3> QED BY <2>2, <3>2, <3>3, <3>5, Zenon
  <2> QED BY <1>3, <2>1, <2>2, Zenon
<1>5. Up' => fdb'.root = LogHead /\ (m = "irreversible" => fdb'.head = head')
  BY <1>1, <1>2, Zenon DEF CInv, UpOK, IrrOK
<1>6. BestInv'
  <2>1. Up' => pc' = "replay" /\ ret' = "replay"
    BY <1>1 DEF Up
  <2>2. fdb'.head = fdb'.root \/ Quiet(fdb', fdb'.head)
    BY <1>2, <1>4 DEF BestInv
  <2> QED BY <1>1, <1>4, <1>5, <2>1, <2>2, Zenon DEF BestInv
<1>7. LoggedInv'
  <2>1. pc' \notin {"append", "advance_throw"}
    BY <1>1
  <2> QED BY <1>1, <1>2, <1>4, <1>5, <2>1 DEF LoggedInv
<1> QED BY <1>6, <1>7

\* Every step keeps head the best block known, and logged what it makes
\* irreversible.
LEMMA BestNext ==
  ASSUME MaxFails = 0, CInv, CInv', LenInv, SteadyInv, SteadyInv', BestInv, LoggedInv, [Next]_vars
  PROVE  BestInv' /\ LoggedInv'
<1> DEFINE Good == BestInv' /\ LoggedInv'
<1>1. ASSUME UNCHANGED vars \/ Wait PROVE Good
  <2>1. /\ fdb' = fdb /\ head' = head /\ mode' = mode /\ pc' = pc /\ ret' = ret /\ saved' = saved
        /\ blog' = blog /\ toLog' = toLog
    BY <1>1, Zenon DEF vars, Wait
  <2> QED BY <2>1, Zenon DEF BestInv, LoggedInv, Quiet, Up, Switching, Appending, LogHead
<1>2. ASSUME \E b \in Block : PushBlock(b) PROVE Good
  BY <1>2, BestPush
<1>3. ASSUME PopBlock \/ \E b \in newBranch : ApplyNext(b) PROVE Good
  BY <1>3, BestPop, BestApply
<1>4. /\ ~(\E b \in newBranch : ApplyFails(b)) /\ ~(\E b \in oldBranch : Reapply(b)) /\ ~EmptyBack
  BY SteadyNoFail, Zenon DEF Reapply, EmptyBack, SteadyInv
<1>5. ASSUME BeginLog \/ AppendBlock \/ AppendApplyFails \/ AppendOutOfSpace \/ AdvanceRootToLog
      PROVE  Good
  BY <1>5, BestBeginLog, BestAppend, BestAppendStops, BestAdvance
<1>6. ASSUME ReplayPushBlock \/ InitBestBranch PROVE Good
  BY <1>6, BestReplayPush, BestInit
<1>7. ASSUME AbortBlock \/ \E b \in Mine : StartBlock(b) PROVE Good
  <2>1. /\ pc = "idle" /\ pc' = "idle" /\ fdb' = fdb /\ head' = head /\ mode' = mode /\ ret' = ret
        /\ LogHead' = LogHead
    BY <1>7, Zenon DEF AbortBlock, StartBlock, LogHead
  <2>2. Up /\ Up' /\ ~Switching /\ ~Appending'
    BY <2>1 DEF Up, Switching, Appending
  <2>3. BestInv'
    BY <2>1, <2>2, BestSame
  <2>4. LoggedInv'
    BY <2>1, <2>2 DEF LoggedInv
  <2> QED BY <2>3, <2>4
<1>8. ASSUME \E b \in Mine : CommitBlock(b) PROVE Good
  BY <1>8, BestCommit
<1>9. ASSUME Shutdown \/ InterruptReplay PROVE Good
  BY <1>9, BestShutdown
<1>10. ASSUME Die PROVE Good
  <2>1. pc' = "down" /\ saved' = FALSE /\ fdb' = reset(Genesis) /\ ret' = "idle"
    BY <1>10, Zenon DEF Die
  <2>2. ~Up' /\ fdb'.head = fdb'.root
    BY <2>1 DEF Up, reset
  <2> QED BY <2>1, <2>2, Zenon DEF BestInv, LoggedInv
<1>11. ASSUME Restart PROVE Good
  <2>1. PICK m \in Modes, n \in 1..Len(blog) + Revision : Startup(m, n) \/ ReplayBlockchain(m, n)
    BY <1>11, Zenon DEF Restart
  <2> QED BY <2>1, RestartsKeep, BestRestarts
<1> HIDE DEF Good
<1>12. Good
  BY <1>1, <1>2, <1>3, <1>4, <1>5, <1>6, <1>7, <1>8, <1>9, <1>10, <1>11, Zenon
     DEF Next, Continue, Produce
<1> QED BY <1>12 DEF Good

\* The invariants of a node whose blocks execute and whose disk has space.
SteadyNode == LenInv /\ SteadyInv /\ asserted \cap ProducedAssertion = {} /\ BestInv /\ LoggedInv

\* They hold in every state, through restarts and replays.
THEOREM SteadyInvariant ==
  ASSUME Steady, MaxFails = 0
  PROVE  Spec => []SteadyNode
<1>1. Init => SteadyNode
  <2> SUFFICES ASSUME Init PROVE SteadyNode
    OBVIOUS
  <2>1. LenInv /\ asserted \cap ProducedAssertion = {}
    BY LenInvInit, Zenon DEF Init
  <2>2. /\ fdb = reset(Genesis) /\ head = Genesis /\ pc = "idle" /\ ret = "idle"
        /\ invalid \subseteq MayFail /\ blog = <<Genesis>>
    BY Zenon DEF Init, FdbInit
  <2>3. /\ Genesis \in Block /\ fdb.index = {} /\ fdb.validated = {} /\ fdb.head = Genesis
        /\ Lib[Genesis] <= Num[Genesis] /\ LogHead = Genesis
    <3>1. Genesis \in Block
      BY TreeAssumption
    <3> QED BY <2>2, <3>1, BlockFacts DEF reset, LogHead, LastOf
  <2>4. ~Switching /\ Up /\ ~Appending
    BY <2>2 DEF Switching, Up, Appending
  <2>5. SteadyInv
    BY <2>2, <2>3, <2>4 DEF Steady, SteadyInv, Tight
  <2>6. BestInv
    BY <2>2, <2>3, <2>4 DEF BestInv, Quiet
  <2>7. LoggedInv
    BY <2>2, <2>3, <2>4 DEF LoggedInv
  <2> QED BY <2>1, <2>5, <2>6, <2>7 DEF SteadyNode
<1>2. ASSUME CInv, CInv', SteadyNode, LenInv', [Next]_vars PROVE SteadyNode'
  <2>1. LenInv /\ SteadyInv /\ asserted \cap ProducedAssertion = {} /\ BestInv /\ LoggedInv
    BY <1>2 DEF SteadyNode
  <2>2. SteadyInv' /\ asserted' \cap ProducedAssertion = {}
    BY <1>2, <2>1, RestartsKeep, SteadyNext
  <2>3. BestInv' /\ LoggedInv'
    BY <1>2, <2>1, <2>2, BestNext
  <2> QED BY <1>2, <2>2, <2>3, Zenon DEF SteadyNode
<1>3. CInv /\ CInv' /\ SteadyNode /\ LenInv' /\ [Next]_vars => SteadyNode'
  BY <1>2
<1>4. Spec => [](LenInv /\ asserted \cap StateAssertions = {})
  BY RevisionFollowsHead DEF Sound
<1>5. LenInv /\ asserted \cap StateAssertions = {} => LenInv
  OBVIOUS
<1> QED BY <1>1, <1>3, <1>4, <1>5, ControllerInvariant, PTL DEF Spec

\* As long as blocks execute and the block log can be appended to, head is the best
\* block known between handlers (in irreversible mode: the root), whatever the
\* order blocks arrive in and however often the node is restarted or replayed.
THEOREM HeadStaysBest ==
  ASSUME Steady, MaxFails = 0
  PROVE  Spec => []HeadIsBestKnown
<1>1. ASSUME CInv, SteadyNode PROVE HeadIsBestKnown
  <2> SUFFICES ASSUME pc = "idle"
               PROVE  head = IF mode = "irreversible" THEN fdb.root ELSE pending_head(fdb)
    BY DEF HeadIsBestKnown
  <2>1. SteadyInv /\ BestInv /\ FdbInv(fdb) /\ fdb.root = LogHead /\ Up /\ ~Switching
    BY <1>1, IdleFacts, Zenon DEF SteadyNode, Up, Switching
  <2>2. mode \in {"head", "irreversible"}
    BY <1>1, ControllerAssumption DEF CInv, Typed
  <2>3. mode = "irreversible" => head = fdb.root
    BY <2>1, Zenon DEF BestInv
  <2>4. mode = "head" => head = pending_head(fdb)
    BY <2>1, QuietPending, Zenon DEF BestInv, SteadyInv
  <2> QED BY <2>2, <2>3, <2>4
<1> QED BY <1>1, ControllerInvariant, SteadyInvariant, PTL

\* Under the same conditions a replay of the block log and of the blocks of
\* fork_db.dat runs through unless the node is told to stop: no block of its own
\* fork database is refused, because the fork database's head makes nothing
\* irreversible that is not in the block log (LoggedInv).
THEOREM ReplayRunsThrough ==
  ASSUME Steady, MaxFails = 0
  PROVE  Spec => ReplayCompletes
<1>1. ASSUME CInv, SteadyNode, [Next]_vars, pc = "replay", pc' = "down" PROVE restarts' > restarts
  <2>1. BestInv /\ LoggedInv
    BY <1>1 DEF SteadyNode
  <2>2. InterruptReplay \/ Die
    <3>1. ~ReplayPushBlock
      BY <1>1, <2>1, BestReplayPush
    <3>2. ~InitBestBranch
      BY <1>1, Zenon DEF InitBestBranch, MaybeSwitchForks
    <3> QED BY <1>1, <3>1, <3>2, Zenon
               DEF Next, vars, Wait, PushBlock, Continue, PopBlock, ApplyNext,
              ApplyFails, Reapply, EmptyBack, BeginLog, AppendBlock, AppendApplyFails,
              AppendOutOfSpace, AdvanceRootToLog, Produce, StartBlock, CommitBlock, AbortBlock,
              Shutdown, Restart, Startup, ReplayBlockchain
  <2>3. restarts' = restarts + 1
    BY <1>1, <2>2, Zenon DEF InterruptReplay, Die
  <2>4. restarts \in Nat
    BY <1>1 DEF CInv, Typed
  <2> QED BY <2>3, <2>4
<1>2. CInv /\ SteadyNode /\ [Next]_vars => [pc = "replay" /\ pc' = "down" => restarts' > restarts]_vars
  BY <1>1
<1> QED BY <1>2, ControllerInvariant, SteadyInvariant, PTL DEF Spec, ReplayCompletes

-----------------------------------------------------------------------------
(***************************************************************************)
(* The ledger.  The block log gets ahead of head only in a replay of the   *)
(* blocks of fork_db.dat (Lags), and not even then while blocks execute and*)
(* appends succeed.                                                        *)
(***************************************************************************)
\* fork_db.dat is not replayed, or is that of a node whose blocks execute and
\* whose disk has space.
KeepsPace == ~Replays \/ (Steady /\ MaxFails = 0)

\* While the node runs its head is on the tree of the fork database, above all
\* that has been logged.
UpOnTree == Up => OnTree

\* It is in every state, whichever handler is under way.
THEOREM NeverBehindLog ==
  ASSUME KeepsPace
  PROVE  Spec => []UpOnTree
<1>1. CASE ~Replays
  <2>1. CInv => UpOnTree
    BY <1>1, Zenon DEF CInv, Lags, UpOK, UpOnTree
  <2> QED BY <2>1, ControllerInvariant, PTL
<1>2. CASE Steady /\ MaxFails = 0
  <2>1. CInv /\ SteadyNode => UpOnTree
    BY Zenon DEF CInv, Lags, UpOK, UpOnTree, SteadyNode, LoggedInv
  <2>2. Spec => []SteadyNode
    BY <1>2, SteadyInvariant
  <2> QED BY <2>1, <2>2, ControllerInvariant, PTL
<1> QED BY <1>1, <1>2 DEF KeepsPace

\* Head never leaves the tree of the fork database nor what has been logged as
\* irreversible, in any step of any handler, unless --replay-blockchain meets
\* blocks or appends that fail.
THEOREM HeadStaysAboveLog ==
  ASSUME KeepsPace
  PROVE  Spec => []HeadAboveLog
<1>1. CInv /\ UpOnTree => HeadAboveLog
  BY FdbFacts, Zenon DEF HeadAboveLog, UpOnTree, OnTree, LogHead, CInv
<1> QED BY <1>1, ControllerInvariant, NeverBehindLog, PTL

\* Under the same condition the controller implements the ledger: a reader sees a
\* log to which linked blocks are appended one at a time and a tip that moves
\* anywhere but off that log, through every fork switch, failure, crash and restart.
THEOREM ControllerImplementsLedger ==
  ASSUME KeepsPace
  PROVE  Spec => ImplementsLedger
<1>1. Init => LedgerView!Init
  BY DEF Init, Up, LedgerView!Init
<1>2. CInv /\ UpOnTree => Tip \in Block /\ LogHead \in Anc[Tip]
  <2>1. CInv => LogHead \in Block /\ LogHead \in Anc[LogHead]
    BY LogFacts, AncStep, Zenon DEF CInv
  <2>2. CInv => head \in Block
    BY DEF CInv, Typed
  <2> QED BY <2>1, <2>2 DEF LogHead, Tip, UpOnTree, OnTree
<1>3. CInv /\ (Tip \in Block /\ LogHead \in Anc[Tip])' /\ [Next]_vars
        => [LedgerView!Next]_<<blog, IF Up THEN head ELSE LastOf(blog)>>
  BY LedgerStep
<1> QED BY <1>1, <1>2, <1>3, ControllerInvariant, NeverBehindLog, PTL
        DEF Spec, ImplementsLedger, LedgerView!Spec

=============================================================================
