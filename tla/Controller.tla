----------------------------- MODULE Controller -----------------------------
(***************************************************************************)
(* The block life cycle of controller_impl (libraries/chain/controller.cpp)*)
(* on the main thread: accept or produce a block, switch forks, log what   *)
(* became irreversible, stop, crash, start again and replay.               *)
(*                                                                         *)
(* A handler of the code is a sequence of steps here, one for each block   *)
(* it applies, pops, appends or removes; pc says which loop the handler is *)
(* in and ret where it returns to.  Nothing else runs on the main thread   *)
(* in between, but the process can die between any two steps.              *)
(*                                                                         *)
(* What a block does to the state database is abstracted to the fact that  *)
(* it was applied: `applied` is the stack of blocks whose changes the      *)
(* database holds, one chainbase revision each.                            *)
(***************************************************************************)
EXTENDS ForkDatabase, Sequences

CONSTANTS MayFail,     \* blocks whose execution may fail (apply_block throws)
          Mine,        \* blocks this node may produce (or receive, from a backup)
          Modes,       \* the read modes the node may be started in
          MaxFails,    \* bound: how many times blog.append runs out of space
          MaxRestarts, \* bound: how many times the process stops or dies
          Replays      \* whether --replay-blockchain is used after an orderly stop

ASSUME ControllerAssumption ==
  /\ Num[Genesis] = 1
  /\ MayFail \subseteq Block \ {Genesis}
  /\ Mine \subseteq Block \ {Genesis}
  /\ Modes \subseteq {"head", "irreversible"} /\ Modes # {}
  /\ MaxFails \in Nat /\ MaxRestarts \in Nat /\ Replays \in BOOLEAN

VARIABLES invalid,    \* the blocks of MayFail that do fail; it never changes
          head,       \* the controller's head block
          applied,    \* chainbase: the blocks applied, by revision
          committed,  \* chainbase: revisions up to this one cannot be undone
          blog,       \* the block log
          pending,    \* the block under production: {} or {b}
          mode,       \* read_mode
          pc, ret,    \* the loop the handler is in, and where it returns to
          newBranch, oldBranch,  \* `branches` of maybe_switch_forks
          todo,       \* the reversible blocks replay() still has to push
          toLog,      \* the blocks log_irreversible still has to append
          asserted,   \* the internal consistency assertions that have failed
          fails, restarts
db     == <<applied, committed>>
branch == <<newBranch, oldBranch>>
vars   == <<fdb, saved, invalid, head, applied, committed, blog, pending, mode, pc, ret,
            newBranch, oldBranch, todo, toLog, asserted, fails, restarts>>

\* chainbase, as the controller uses it: a session per block, undone from the
\* top, down to what was committed.
Revision == Len(applied)
no_undo(s) == s
Undo(s) == IF Len(s) > committed THEN SubSeq(s, 1, Len(s) - 1) ELSE s
commit_ahead(s, n) == IF n < Len(s) THEN n + 1 ELSE Len(s)
Commit(s, n) == IF n <= committed THEN committed ELSE IF n > Len(s) THEN Len(s) ELSE n

LastOf(s) == s[Len(s)]
\* (mutant) a branch is walked from its head
highest_first(S) == CHOOSE b \in S : \A c \in S : Num[c] <= Num[b]
\* Branches are fetched from their head down and walked from rbegin().
Lowest(S) == CHOOSE b \in S : \A c \in S : Num[b] <= Num[c]
Asserts(name) == asserted' = asserted \cup {name}

-----------------------------------------------------------------------------
(***************************************************************************)
(* An exception leaves the handler.  In normal operation the node goes on; *)
(* out of init it ends the start up, and the destructors write fork_db.dat *)
(* again.                                                                  *)
(***************************************************************************)
Throw ==
  IF ret = "idle" THEN pc' = "idle" /\ UNCHANGED saved
                  ELSE pc' = "down" /\ saved' = TRUE

\* start_block needs the revision on par, the id comparison needs the block to
\* be built on head, and execution must succeed (it did for a validated block).
CanApply(b) ==
  /\ Prev[b] = head
  /\ Revision = Num[head]
  /\ b \in fdb.validated \/ b \notin invalid

\* apply_block and the commit_block it ends with.
ApplyBlock(b) ==
  /\ fdb' = mark_valid(fdb, b)
  /\ head' = b
  /\ applied' = Append(applied, b)

\* maybe_switch_forks up to its first loop.
MaybeSwitchForks(nh, r) ==
  /\ newBranch' = fetch_branch_from(nh, head)
  /\ oldBranch' = fetch_branch_from(head, nh)
  /\ ret' = r
  /\ pc' = IF nh = head THEN r
           ELSE IF Prev[nh] = head THEN "apply_one"
           ELSE IF oldBranch' # {} THEN "pop"
           ELSE "apply"

\* push_block; a block that is known or does not link is refused before this.
PushBlock(b) ==
  /\ pc = "idle" /\ pending = {} /\ Linkable(fdb, b)
  /\ fdb' = add(fdb, b)
  /\ IF mode = "irreversible"
     THEN pc' = "log" /\ ret' = "idle" /\ UNCHANGED branch
     ELSE MaybeSwitchForks(pending_head(fdb'), "idle")
  /\ UNCHANGED <<saved, head, db, blog, pending, mode, todo, toLog, asserted, fails, restarts, invalid>>

\* After a failed switch: back to the old branch.  With no old branch the code
\* reads branches.second.back() of an empty deque.
AfterUnwind == IF oldBranch # {} THEN "reapply" ELSE "empty_back"

\* pop_block, in the loop that leaves the old branch or the one that leaves the
\* new branch again.
PopBlock ==
  /\ pc \in {"pop", "unwind"}
  /\ LET leaving == IF pc = "pop" THEN oldBranch ELSE newBranch
     IN  pc' = IF Prev[head] \in leaving THEN pc
               ELSE IF pc = "pop" THEN "apply" ELSE AfterUnwind
  /\ IF get_block_header(fdb, Prev[head]) THEN UNCHANGED asserted ELSE Asserts("pop beyond LIB")
  /\ head' = Prev[head]
  /\ applied' = Undo(applied)
  /\ UNCHANGED <<fdb, saved, committed, blog, pending, mode, ret, branch, todo, toLog, fails, restarts, invalid>>

\* The next block of the new branch.
ApplyNext(b) ==
  /\ pc \in {"apply_one", "apply"}
  /\ b \in newBranch /\ Prev[b] = head /\ CanApply(b)
  /\ ApplyBlock(b)
  /\ pc' = IF \E c \in newBranch : Num[c] > Num[b] THEN pc ELSE "log"
  /\ UNCHANGED <<saved, committed, blog, pending, mode, ret, branch, todo, toLog, asserted, fails, restarts, invalid>>

\* It fails: it leaves the fork database with what hangs from it, and the
\* blocks of the new branch already applied are popped.
ApplyFails(b) ==
  /\ pc \in {"apply_one", "apply"}
  /\ b \in newBranch /\ Prev[b] = head /\ ~CanApply(b)
  /\ IF CanRemove(fdb, b)
     THEN /\ fdb' = remove(fdb, b)
          /\ IF pc = "apply_one" THEN Throw
             ELSE pc' = (IF head \in newBranch THEN "unwind" ELSE AfterUnwind) /\ UNCHANGED saved
          /\ UNCHANGED asserted
     ELSE Asserts("remove head") /\ Throw /\ UNCHANGED fdb
  /\ UNCHANGED <<head, db, blog, pending, mode, ret, branch, todo, toLog, fails, restarts, invalid>>

\* The next block of the old branch again; after the last one the exception of
\* the block that failed is rethrown.
Reapply(b) ==
  /\ pc = "reapply" /\ b \in oldBranch /\ Prev[b] = head
  /\ ApplyBlock(b)
  /\ IF \E c \in oldBranch : Num[c] > Num[b] THEN UNCHANGED <<pc, saved>> ELSE Throw
  /\ UNCHANGED <<committed, blog, pending, mode, ret, branch, todo, toLog, asserted, fails, restarts, invalid>>

\* Undefined behaviour; the comparison it feeds can come out either way, and
\* either way the handler is left with an exception (or the process dies: Die).
EmptyBack ==
  /\ pc = "empty_back"
  /\ Throw
  /\ UNCHANGED <<fdb, head, db, blog, pending, mode, ret, branch, todo, toLog, asserted, fails, restarts, invalid>>

-----------------------------------------------------------------------------
(***************************************************************************)
(* log_irreversible.  It runs after every change of head and, in           *)
(* irreversible mode, after every block added; a block under production    *)
(* has become head by then, but its session is still open.                 *)
(***************************************************************************)
fork_db_head == IF mode = "irreversible" THEN pending_head(fdb) ELSE fdb.head

\* The handler returns; commit_block pushes the open session.
Return == pc' = ret /\ pending' = {} /\ UNCHANGED <<applied, saved>>

\* The handler throws; commit_block aborts the pending block, which drops its
\* session.
ThrowAndAbort ==
  /\ Throw
  /\ pending' = {}
  /\ applied' = IF pending = {} THEN applied ELSE Undo(applied)

BeginLog ==
  /\ pc = "log"
  /\ LET fork_head == fork_db_head
     IN  IF fdb.root # LastOf(blog)
         THEN Asserts("root is not block log head") /\ ThrowAndAbort /\ UNCHANGED toLog
         ELSE /\ UNCHANGED asserted
              /\ IF Lib[fork_head] <= Num[LastOf(blog)]
                 THEN Return /\ UNCHANGED toLog
                 ELSE /\ toLog' = fetch_branch(fdb, fork_head, Lib[fork_head])
                      /\ pc' = "append"
                      /\ UNCHANGED <<applied, pending, saved>>
  /\ UNCHANGED <<fdb, head, committed, blog, mode, ret, branch, todo, fails, restarts, invalid>>

\* One turn of the loop: in irreversible mode the block is applied now; it is
\* appended to the block log and then committed.
AppendBlock ==
  /\ pc = "append"
  /\ LET b == Lowest(toLog)
     IN  /\ IF mode = "irreversible" THEN CanApply(b) /\ ApplyBlock(b)
                                     ELSE UNCHANGED <<fdb, head, applied>>
         /\ blog' = Append(blog, b)
         /\ committed' = Commit(applied', Num[b])
         /\ toLog' = toLog \ {b}
  /\ pc' = IF toLog' = {} THEN "advance" ELSE pc
  /\ UNCHANGED <<saved, pending, mode, ret, branch, todo, asserted, fails, restarts, invalid>>

\* In irreversible mode the block that is to be applied can fail.
AppendApplyFails ==
  /\ pc = "append" /\ mode = "irreversible" /\ ~CanApply(Lowest(toLog))
  /\ pc' = "advance_throw"
  /\ UNCHANGED <<fdb, saved, head, db, blog, pending, mode, ret, branch, todo, toLog, asserted, fails, restarts, invalid>>

\* blog.append throws (no space); in irreversible mode the block has been
\* applied by then.
AppendOutOfSpace ==
  /\ pc = "append" /\ fails < MaxFails
  /\ LET b == Lowest(toLog)
     IN  IF mode = "irreversible" THEN CanApply(b) /\ ApplyBlock(b)
                                  ELSE UNCHANGED <<fdb, head, applied>>
  /\ fails' = fails + 1
  /\ pc' = "advance_throw"
  /\ UNCHANGED <<saved, committed, blog, pending, mode, ret, branch, todo, toLog, asserted, restarts, invalid>>

root_left_behind ==
  /\ pc \in {"advance", "advance_throw"}
  /\ fdb' = IF pc = "advance" THEN advance_root(fdb, LastOf(blog)) ELSE fdb
  /\ IF pc = "advance" THEN Return ELSE ThrowAndAbort
  /\ toLog' = {}
  /\ UNCHANGED <<head, committed, blog, mode, ret, branch, todo, fails, restarts, invalid, asserted>>

\* The root follows the last block that was appended and committed, on the way
\* out of the loop or of its exception handler.
AdvanceRootToLog ==
  /\ pc \in {"advance", "advance_throw"}
  /\ LET r == LastOf(blog)
         ok == r = fdb.root \/ CanAdvanceRoot(fdb, r)
     IN  /\ fdb' = IF ok /\ r # fdb.root THEN advance_root(fdb, r) ELSE fdb
         /\ IF ok THEN UNCHANGED asserted ELSE Asserts("cannot advance root")
         /\ IF ok /\ pc = "advance" THEN Return ELSE ThrowAndAbort
  /\ toLog' = {}
  /\ UNCHANGED <<head, committed, blog, mode, ret, branch, todo, fails, restarts, invalid>>

-----------------------------------------------------------------------------
(***************************************************************************)
(* Production.  The speculative block a node that is not producing keeps   *)
(* open is left out: its session is dropped before any of these steps.     *)
(***************************************************************************)
StartBlock(b) ==
  /\ pc = "idle" /\ pending = {} /\ mode = "head"
  /\ b \in Mine /\ b \notin fdb.index /\ Prev[b] = head
  /\ IF Revision = Num[head]
     THEN pending' = {b} /\ applied' = Append(applied, b) /\ UNCHANGED asserted
     ELSE Asserts("revision is not head") /\ UNCHANGED <<pending, applied>>
  /\ UNCHANGED <<fdb, saved, head, committed, blog, mode, pc, ret, branch, todo, toLog, fails, restarts, invalid>>

AbortBlock ==
  /\ pc = "idle" /\ pending # {}
  /\ pending' = {}
  /\ applied' = Undo(applied)
  /\ UNCHANGED <<fdb, saved, head, committed, blog, mode, pc, ret, branch, todo, toLog, asserted, fails, restarts, invalid>>

\* commit_block of a block this node produced.
CommitBlock(b) ==
  /\ pc = "idle" /\ pending = {b}
  /\ fdb' = mark_valid(add(fdb, b), b)
  /\ ret' = "idle"
  /\ IF fdb'.head = b
     THEN head' = b /\ pc' = "log" /\ UNCHANGED <<pending, applied, asserted>>
     ELSE /\ Asserts("produced block is not head")
          /\ pending' = {} /\ applied' = Undo(applied)
          /\ UNCHANGED <<head, pc>>
  /\ UNCHANGED <<saved, committed, blog, mode, branch, todo, toLog, fails, restarts, invalid>>

-----------------------------------------------------------------------------
\* An orderly stop: the pending block is aborted, fork_db.dat is written.
Shutdown ==
  /\ pc = "idle" /\ restarts < MaxRestarts
  /\ pc' = "down" /\ saved' = TRUE /\ restarts' = restarts + 1
  /\ pending' = {}
  /\ applied' = IF pending = {} THEN applied ELSE Undo(applied)
  /\ UNCHANGED <<fdb, head, committed, blog, mode, ret, branch, todo, toLog, asserted, fails, invalid>>

\* The process dies.  The state database is marked dirty and cannot be used
\* again, fork_db.dat was deleted when it was opened; the block log remains.
Die ==
  /\ pc # "down" /\ (restarts < MaxRestarts \/ pc = "empty_back")
  /\ pc' = "down" /\ saved' = FALSE
  /\ restarts' = IF pc = "empty_back" THEN restarts ELSE restarts + 1
  /\ fdb' = reset(Genesis) /\ head' = Genesis
  /\ applied' = <<>> /\ committed' = 0 /\ pending' = {}
  /\ ret' = "idle" /\ newBranch' = {} /\ oldBranch' = {} /\ todo' = {} /\ toLog' = {}
  /\ UNCHANGED <<blog, mode, asserted, fails, invalid>>

(***************************************************************************)
(* init, from the point where head is h and the database holds s, of which *)
(* c is committed, up to the reversible blocks replay() pushes: what the   *)
(* block log has beyond head is applied, up to block n, and the fork       *)
(* database follows.  n is short of the block log head when the node is    *)
(* told to stop meanwhile (check_shutdown).                                *)
(***************************************************************************)
ReplayLog(f, t) ==
  IF Num[pending_head(f)] < Num[t] \/ Num[t] < Num[f.root] THEN reset(t)
  ELSE IF Num[t] # Num[f.root] THEN advance_root(mark_valid(f, t), t)
  ELSE f

InitFrom(f, h, s, c, n) ==
  /\ n \in IF Len(blog) <= Num[h] THEN {Num[h]}
           ELSE IF restarts < MaxRestarts THEN Num[h] + 1 .. Len(blog) ELSE {Len(blog)}
  /\ fdb' = IF n = Num[h] THEN f ELSE ReplayLog(f, blog[n])
  /\ head' = IF n = Num[h] THEN h ELSE blog[n]
  /\ applied' = s \o SubSeq(blog, Num[h] + 1, n)
  /\ committed' = IF n = Num[h] THEN c ELSE n
  /\ newBranch' = {} /\ oldBranch' = {}
  /\ IF n < Len(blog)
     THEN /\ pc' = "down" /\ saved' = TRUE /\ restarts' = restarts + 1
          /\ todo' = {} /\ UNCHANGED ret
     ELSE /\ pc' = "replay" /\ ret' = "replay" /\ saved' = FALSE
          /\ todo' = {b \in Anc[fdb'.head] \cap fdb'.index : Num[b] > Num[head']}
          /\ UNCHANGED restarts

keep_head(f, m) == f

\* What startup does to the fork database it opened, by read mode.
Opened(f, m) == IF m = "irreversible" /\ f.head # f.root THEN rollback_head_to_root(f) ELSE f

\* Whether init goes on with what startup() finds ("fork database head is
\* inconsistent with state").
StateCovers(f) == Revision >= Num[f.head]

\* startup(): state database and fork database are both there.  A state that is
\* behind is refused, and all there is left to do is to replay.
Startup(m, n) ==
  /\ pc = "down" /\ saved /\ Openable(fdb)
  /\ LET f == Opened(fdb, m)
     IN  /\ StateCovers(f)
         /\ InitFrom(f, f.head, SubSeq(applied, 1, Num[f.head]), committed, n)
  /\ mode' = m
  /\ UNCHANGED <<blog, pending, toLog, asserted, fails, invalid>>

\* startup(genesis) on an empty state database: --replay-blockchain after an
\* orderly stop, or the only way back after the process died.
ReplayBlockchain(m, n) ==
  /\ pc = "down" /\ (saved => Replays /\ Openable(fdb))
  /\ InitFrom(IF saved THEN Opened(fdb, m) ELSE reset(Genesis), Genesis, <<Genesis>>, 1, n)
  /\ mode' = m
  /\ UNCHANGED <<blog, pending, toLog, asserted, fails, invalid>>

\* The node is told to stop while replay() is among the reversible blocks.
InterruptReplay ==
  /\ pc = "replay" /\ todo # {} /\ restarts < MaxRestarts
  /\ pc' = "down" /\ saved' = TRUE /\ restarts' = restarts + 1 /\ todo' = {}
  /\ UNCHANGED <<fdb, head, db, blog, pending, mode, ret, branch, toLog, asserted, fails, invalid>>

\* replay() pushes the next reversible block of the fork database's head branch.
ReplayPushBlock ==
  /\ pc = "replay" /\ todo # {}
  /\ LET b == Lowest(todo)
     IN  IF Prev[b] = head /\ get_block_header(fdb, Prev[b])
         THEN /\ fdb' = IF b \in fdb.index THEN fdb ELSE add(fdb, b)
              /\ todo' = todo \ {b}
              /\ MaybeSwitchForks(b, "replay")
              /\ UNCHANGED saved
         ELSE Throw /\ UNCHANGED <<fdb, todo, ret, branch>>
  /\ UNCHANGED <<head, db, blog, pending, mode, toLog, asserted, fails, restarts, invalid>>

\* The end of init: out of irreversible mode, the best branch is applied.
InitBestBranch ==
  /\ pc \in {"replay", "init"} /\ todo = {}
  /\ IF /\ mode # "irreversible"
        /\ pending_head(fdb) # fdb.head
        /\ pc = "init" \/ fdb.head = fdb.root
     THEN MaybeSwitchForks(pending_head(fdb), "init")
     ELSE pc' = "idle" /\ ret' = "idle" /\ UNCHANGED branch
  /\ UNCHANGED <<fdb, saved, head, db, blog, pending, mode, todo, toLog, asserted, fails, restarts, invalid>>

-----------------------------------------------------------------------------
Init ==
  /\ FdbInit /\ invalid \in SUBSET MayFail
  /\ head = Genesis /\ applied = <<Genesis>> /\ committed = 1 /\ blog = <<Genesis>>
  /\ pending = {} /\ mode \in Modes /\ pc = "idle" /\ ret = "idle"
  /\ newBranch = {} /\ oldBranch = {} /\ todo = {} /\ toLog = {}
  /\ asserted = {} /\ fails = 0 /\ restarts = 0

\* The steps that continue a handler once it has begun.
Continue ==
  \/ PopBlock
  \/ \E b \in newBranch : ApplyNext(b) \/ ApplyFails(b)
  \/ \E b \in oldBranch : Reapply(b)
  \/ EmptyBack
  \/ BeginLog \/ AppendBlock \/ AppendApplyFails \/ AppendOutOfSpace \/ AdvanceRootToLog
  \/ ReplayPushBlock \/ InitBestBranch

Produce == \E b \in Mine : StartBlock(b) \/ CommitBlock(b)

Restart == \E m \in Modes, n \in 1..Len(blog) + Revision : Startup(m, n) \/ ReplayBlockchain(m, n)

\* The main thread waits for work.
Wait == pc = "idle" /\ UNCHANGED vars

Next ==
  \/ Wait
  \/ \E b \in Block : PushBlock(b)
  \/ Continue
  \/ Produce \/ AbortBlock
  \/ Shutdown \/ InterruptReplay \/ Die
  \/ Restart

Spec == Init /\ [][Next]_vars

(***************************************************************************)
(* The main thread runs a handler to its end.  A peer that has a block     *)
(* this node could link sends it again until it is taken: push_block is    *)
(* tried again and again for every such block.  The timer of the producer  *)
(* plugin does not leave a block it started pending for ever.              *)
(***************************************************************************)
FinishBlock == AbortBlock \/ \E b \in Mine : CommitBlock(b)

FairSpec ==
  /\ Spec
  /\ WF_vars(Continue) /\ WF_vars(FinishBlock)
  /\ \A b \in Block : SF_vars(PushBlock(b))

-----------------------------------------------------------------------------
Up == pc # "down"
Loops == {"idle", "apply_one", "apply", "pop", "unwind", "reapply", "empty_back", "log",
          "append", "advance", "advance_throw", "replay", "init", "down"}

\* The types of the state.  While maybe_switch_forks is under way, the branch it
\* leaves stays in the fork database as blocks that have been executed, so that
\* a switch that fails can apply them again.
TypeOK ==
  /\ FdbTypeOK
  /\ head \in Block /\ applied \in Seq(Block) /\ blog \in Seq(Block) /\ blog # <<>>
  /\ committed \in 0..Len(applied)
  /\ pending \in SUBSET Mine /\ mode \in Modes
  /\ pc \in Loops /\ ret \in {"idle", "replay", "init"}
  /\ newBranch \subseteq Block /\ oldBranch \subseteq Block
  /\ pc \in {"pop", "apply", "unwind", "reapply"} => oldBranch \subseteq fdb.validated
  /\ todo \subseteq Block /\ toLog \subseteq Block
  /\ fails \in 0..MaxFails /\ restarts \in 0..MaxRestarts

\* The assertions the code makes about its own consistency ("_should_ never
\* fail") do not fail: popping stays above the LIB, a removed block never
\* carries the fork database head, the root can follow the block log, the
\* revision is on par with head, and a produced block becomes head.
NoAssertFails == asserted = {}

\* What the state database holds is exactly the chain that ends in head, plus
\* the open session of the block being produced; through every fork switch,
\* its failure and reversal.
StateIsHead ==
  Up => /\ Len(applied) = Num[head] + (IF pending \subseteq {head} THEN 0 ELSE 1)
        /\ \A i \in 1..Num[head] : applied[i] \in Anc[head] /\ Num[applied[i]] = i

\* head stays on the tree of the fork database and never leaves what has been
\* logged as irreversible.
HeadAboveLog ==
  Up => LastOf(blog) \in Anc[head] /\ get_block_header(fdb, head)

\* The block log is one chain, and the state database never commits a block
\* before it is in the block log, nor a different one.
CommitAfterLog ==
  /\ \A i \in 2..Len(blog) : Num[blog[i]] = i /\ Prev[blog[i]] = blog[i - 1]
  /\ committed <= Len(blog)
  /\ \A i \in 1..committed : applied[i] = blog[i]

\* Between handlers the fork database root is the block log head and the state
\* is committed exactly up to it.
RootIsLogHead == pc = "idle" => fdb.root = LastOf(blog) /\ committed = Num[fdb.root]

\* Between handlers the controller and the fork database agree on how good the
\* chain is: neither head is preferred to the other, also after a switch that
\* failed half way.
HeadsAgree ==
  pc = "idle" => ~first_preferred(fdb.head, head) /\ ~first_preferred(head, fdb.head)

\* A replay of the block log and of the blocks of fork_db.dat runs through: no
\* block of its own fork database is refused.
ReplayCompletes == [][pc = "replay" /\ pc' = "down" => restarts' > restarts]_vars

\* Between handlers, and as long as blocks execute, head is the best block
\* known (in irreversible mode: the root).
HeadIsBestKnown ==
  pc = "idle" /\ pending = {} =>
    head = IF mode = "irreversible" THEN fdb.root ELSE pending_head(fdb)

\* If the node is left running, it ends up on a block that no valid block is
\* preferred to.
ValidChain(b) == Anc[b] \cap invalid = {}
BestChainAdopted ==
  <>[]Up => <>[](pc = "idle" => \A b \in Block : ValidChain(b) => ~first_preferred(b, head))

\* The controller implements the ledger its readers rely on.
LedgerView == INSTANCE Ledger WITH log <- blog, tip <- IF Up THEN head ELSE LastOf(blog)
ImplementsLedger == LedgerView!Spec

=============================================================================
