----------------------------- MODULE Observers ------------------------------
(***************************************************************************)
(* What the plugins make of the controller's signals: transaction retry    *)
(* and finality status (plugins/chain_plugin), scheduled snapshots         *)
(* (snapshot_scheduler.cpp) and the S-header chain (sub_chain_plugin).     *)
(*                                                                         *)
(* Each observer is a record, each of its handlers an operator from one    *)
(* value to the next.  A step of the controller that emits signals is      *)
(* taken together with the handlers, in the order of the signals.  All     *)
(* observers live in memory, so this is one life of the process, in the    *)
(* read mode "head".  Block times are block numbers.                       *)
(***************************************************************************)
EXTENDS Controller

CONSTANTS Trx,       \* transactions
          Txs,       \* Txs[b]: the transactions of block b
          Expiry,    \* Expiry[t]: expiration, as the last block_num t may be in
          Retried,   \* the transactions sent with retry_trx
          Depth,     \* Depth[t]: num_blocks of the retry, or LibTotem
          LibTotem,
          Requests,  \* snapshot requests: [spacing, start, end]
          SBlocks,   \* blocks of this node with relevant S-transactions
          SignFails, \* bound: those whose production may fail after the S-id is stored
          MaxSnapshots \* bound: calls of create_snapshot

ASSUME ObserverAssumption ==
  /\ Txs \in [Block -> SUBSET Trx]
  /\ \A b \in Block, t \in Trx : t \in Txs[b] =>
       Num[b] <= Expiry[t] /\ \A c \in Anc[b] \ {b} : t \notin Txs[c]
  /\ Retried \subseteq Trx /\ SignFails \subseteq SBlocks /\ SBlocks \subseteq Mine
  /\ Modes = {"head"} /\ MaxRestarts = 0
  /\ \A r \in Requests : r.start + r.spacing <= r.end
  /\ MaxSnapshots \in Nat

VARIABLES retry,  \* trx_retry_db: [on, tracked, num, answers]; retry is "not
                  \* allowed on producer nodes", so on excludes production
          fin,    \* trx_finality_status_processing
          snap,   \* snapshot_scheduler: [requests, pending, final]
          sub,    \* sub_chain_plugin: prev (the block whose S-id is stored) and
                  \* link[b], the previous S-id in the S-header of block b
          calls
ovars == <<retry, fin, snap, sub, calls>>

None == 0   \* no block
InBranch(t, b) == \E c \in Anc[b] : t \in Txs[c]

-----------------------------------------------------------------------------
(***************************************************************************)
(* trx_retry_db.  num[t] is block_num of a tracked transaction, 0 while it *)
(* was not seen in a block.  answers is what clients were told, and on     *)
(* which signal.  Resending (retry_trxs) sends to peers and only changes   *)
(* last_try; it is left out.                                               *)
(***************************************************************************)
track_transaction(r, t) == [r EXCEPT !.tracked = @ \cup {t}]

\* (mutant) Off by one.
rollback_above(r, n) == [r EXCEPT !.num = [t \in Trx |-> IF @[t] > n THEN 0 ELSE @[t]]]
rollback_to(r, n) == [r EXCEPT !.num = [t \in Trx |-> IF @[t] >= n THEN 0 ELSE @[t]]]

\* (mutant) Transactions that are not tracked get a block number too.
applied_any(r, S, n) == [r EXCEPT !.num = [t \in Trx |-> IF t \in S THEN n ELSE @[t]]]
RetryApplied(r, S, n) ==
  [r EXCEPT !.num = [t \in Trx |-> IF t \in S \cap r.tracked THEN n ELSE @[t]]]

Answer(r, S, what, b) ==
  [r EXCEPT !.tracked = @ \ S,
            !.num = [t \in Trx |-> IF t \in S THEN 0 ELSE @[t]],
            !.answers = @ \cup {[trx |-> t, told |-> what, at |-> b] : t \in S}]

ack_ready_trxs_by_block_num(r, b) ==
  Answer(r, {t \in r.tracked : r.num[t] # 0 /\ Depth[t] # LibTotem
                               /\ r.num[t] + Depth[t] <= Num[b]}, "acked", b)

ack_ready_trxs_by_lib(r, b) ==
  Answer(r, {t \in r.tracked : r.num[t] \in 1..Num[b]}, "acked", b)

clear_expired(r, b) ==
  Answer(r, {t \in r.tracked : Expiry[t] <= Num[b]}, "expired", b)

RetryIrreversible(r, b) == clear_expired(ack_ready_trxs_by_lib(r, b), b)

-----------------------------------------------------------------------------
(***************************************************************************)
(* trx_finality_status_processing.  known: the objects stored; blk: their  *)
(* block_id; out: forked_out; spec: _speculative_trxs; head, last, irr: the *)
(* block the traces were last of, _last_proc_block_num and the irreversible *)
(* block.  Objects that expire or exceed the storage are left out.         *)
(***************************************************************************)
\* (mutant)
no_rollback(f) == f
handle_rollback(f) ==
  [f EXCEPT !.out = @ \cup {t \in f.known : f.blk[t] # None /\ Num[f.blk[t]] >= Num[f.head]}]

\* A trace or an accepted block that belongs to another block than before.
ChangeBlock(f, b) ==
  LET g == [f EXCEPT !.head = b]
  IN  IF b = f.head THEN f
      ELSE [(IF Num[b] <= f.last THEN handle_rollback(g) ELSE g) EXCEPT !.last = Num[b]]

\* The transactions of S have executed in block b (None: speculatively).
StoreAt(f, S, b) ==
  [f EXCEPT !.known = @ \cup S, !.out = @ \ S,
            !.blk = [t \in Trx |-> IF t \in S THEN b ELSE @[t]]]

FinBlockStart(f) == [f EXCEPT !.spec = {}]
FinSpeculative(f, S) == [StoreAt(f, S, None) EXCEPT !.spec = @ \cup S]
FinApplied(f, S, b) == StoreAt(ChangeBlock(f, b), S, b)

\* signal_accepted_block: a block that had no traces was produced here, by the
\* speculative transactions.
FinAccepted(f, b) ==
  IF b = f.head THEN f
  ELSE [StoreAt(ChangeBlock(f, b), f.spec, b) EXCEPT !.spec = {}]

IsInBlock(f, t) == t \in f.known \ f.out /\ f.blk[t] # None
get_trx_state(f, t) ==
  IF ~IsInBlock(f, t) THEN "NOT_IN_BLOCK"
  ELSE IF Num[f.blk[t]] > Num[f.irr] THEN "IN_BLOCK" ELSE "IRREVERSIBLE"

-----------------------------------------------------------------------------
(***************************************************************************)
(* snapshot_scheduler.  pending is in the order of insertion; sched says   *)
(* that the handler of a scheduled request is attached, which throws when  *)
(* it is given an exception.                                               *)
(***************************************************************************)
Recurs(r, n) == r.spacing # 0 /\ n >= r.start + 1 /\ (n - r.start - 1) % r.spacing = 0
IsDue(r, n)  == Recurs(r, n) \/ (r.spacing = 0 /\ n = r.start + 1)
IsOver(r, n) == (r.spacing = 0 /\ n >= r.start + 1) \/ n - 1 >= r.end

\* create_snapshot of block b, or attach to the one that is pending.
create_snapshot(s, b, sched) ==
  LET Attach(x) == IF x.blk = b THEN [x EXCEPT !.sched = @ \/ sched] ELSE x
  IN  IF b \in s.final THEN s
      ELSE IF \E i \in DOMAIN s.pending : s.pending[i].blk = b
      THEN [s EXCEPT !.pending = [i \in DOMAIN @ |-> Attach(@[i])]]
      ELSE [s EXCEPT !.pending = Append(@, [blk |-> b, sched |-> sched])]

\* on_start_block at height n, on head b: at most one snapshot.
on_start_block(s, n, b) ==
  LET t == IF \E r \in s.requests : IsDue(r, n) THEN create_snapshot(s, b, TRUE) ELSE s
  IN  [t EXCEPT !.requests = {r \in @ : ~IsOver(r, n)}]

\* fetch_block_by_id: the fork database, whatever the branch, then the log.
fetch_block_by_id(b) == b \in fdb.index \/ \E i \in DOMAIN blog : blog[i] = b

\* (mutant) Only the snapshots of the height that has become irreversible.
same_height(p, b) == {i \in DOMAIN p : Num[p[i].blk] = Num[b]}
DueBy(p, b) == {i \in DOMAIN p : Num[p[i].blk] <= Num[b]}

\* The order of by_height.
ByHeight(p, i, j) == Num[p[i].blk] < Num[p[j].blk] \/ (Num[p[i].blk] = Num[p[j].blk] /\ i < j)
Stuck(p, b) == {i \in DueBy(p, b) : p[i].sched /\ ~fetch_block_by_id(p[i].blk)}

\* on_irreversible_block: by height, the pending snapshots are finalised, or
\* dropped when their block is gone; the handler of a scheduled one throws
\* then, which ends the loop before the entry is erased.
SnapIrreversible(s, b) ==
  LET p    == s.pending
      done == {i \in DueBy(p, b) : \A j \in Stuck(p, b) : ByHeight(p, i, j)}
      Left(x) == \E i \in DOMAIN p \ done : p[i] = x
  IN  [s EXCEPT !.pending = SelectSeq(p, Left),
                !.final = @ \cup {c \in {p[i].blk : i \in done} : fetch_block_by_id(c)}]

-----------------------------------------------------------------------------
(***************************************************************************)
(* The signals, and the steps of the controller that emit them.            *)
(***************************************************************************)
\* block_start, a trace of onblock and of every transaction, accepted_block.
WholeBlock(b) ==
  /\ retry' = ack_ready_trxs_by_block_num(
                RetryApplied(rollback_to(retry, Num[b]), Txs[b], Num[b]), b)
  /\ fin' = FinAccepted(FinApplied(FinBlockStart(fin), Txs[b], b), b)
  /\ snap' = on_start_block(snap, Num[b], head)
  /\ UNCHANGED <<sub, calls>>

OApply(b) == (ApplyNext(b) \/ Reapply(b)) /\ WholeBlock(b)

\* The block fails after the transactions of S, or before onblock.
OApplyFails(b) ==
  /\ ApplyFails(b)
  /\ snap' = on_start_block(snap, Num[b], head)
  /\ \/ \E S \in SUBSET Txs[b] :
          /\ retry' = RetryApplied(rollback_to(retry, Num[b]), S, Num[b])
          /\ fin' = FinApplied(FinBlockStart(fin), S, b)
     \/ retry' = rollback_to(retry, Num[b]) /\ fin' = FinBlockStart(fin)
  /\ UNCHANGED <<sub, calls>>

\* irreversible_block, emitted before the append; again when it was not appended.
OAppend ==
  /\ AppendBlock \/ AppendOutOfSpace
  /\ LET b == Lowest(toLog)
     IN  /\ retry' = RetryIrreversible(retry, b)
         /\ fin' = [fin EXCEPT !.irr = b]
         /\ snap' = SnapIrreversible(snap, b)
  /\ UNCHANGED <<sub, calls>>

\* A producing node starts b, and executes its transactions.
OStartBlock(b) ==
  /\ ~retry.on /\ StartBlock(b)
  /\ retry' = rollback_to(retry, Num[b])
  /\ fin' = FinSpeculative(FinBlockStart(fin), Txs[b])
  /\ snap' = on_start_block(snap, Num[b], head)
  /\ UNCHANGED <<sub, calls>>

\* produce_block: the S-header with the stored S-id, which is replaced by the
\* new one; then commit_block emits accepted_block.
produce_block(b) ==
  /\ CommitBlock(b)
  /\ sub' = IF b \in SBlocks THEN [prev |-> b, link |-> [sub.link EXCEPT ![b] = sub.prev]]
                             ELSE sub
  /\ retry' = ack_ready_trxs_by_block_num(retry, b)
  /\ fin' = FinAccepted(fin, b)
  /\ UNCHANGED <<snap, calls>>

\* It fails after that (the block cannot be signed, say), and the block is aborted:
\* the stored S-id stays the one of the block that was not made.
ProduceFails(b) ==
  /\ AbortBlock /\ pending = {b} /\ b \in SignFails
  /\ sub' = [sub EXCEPT !.prev = b]
  /\ UNCHANGED <<retry, fin, snap, calls>>

\* send_transaction: executed in the speculative block on head (started for it
\* or before), and tracked when the client asked for retry.
send_transaction(t) ==
  /\ pc = "idle" /\ pending = {} /\ ~InBranch(t, head) /\ Num[head] < Expiry[t]
  /\ \A a \in retry.answers : a.trx # t
  /\ retry' = LET r == rollback_to(retry, Num[head] + 1)
              IN  IF retry.on /\ t \in Retried THEN track_transaction(r, t) ELSE r
  /\ fin' = FinSpeculative(fin, {t})
  /\ snap' = on_start_block(snap, Num[head] + 1, head)
  /\ UNCHANGED <<vars, sub, calls>>

schedule_snapshot(r) ==
  /\ pc = "idle" /\ r \notin snap.requests /\ calls < MaxSnapshots
  /\ snap' = [snap EXCEPT !.requests = @ \cup {r}]
  /\ calls' = calls + 1
  /\ UNCHANGED <<vars, retry, fin, sub>>

\* The create_snapshot call of the API, which aborts a pending block.
CreateSnapshot ==
  /\ pc = "idle" /\ calls < MaxSnapshots
  /\ IF pending = {} THEN UNCHANGED vars ELSE AbortBlock
  /\ snap' = create_snapshot(snap, head, FALSE)
  /\ calls' = calls + 1
  /\ UNCHANGED <<retry, fin, sub>>

\* Steps without a signal.
Quiet ==
  /\ \/ \E b \in Block : PushBlock(b)
     \/ PopBlock \/ BeginLog \/ AdvanceRootToLog \/ AbortBlock
  /\ UNCHANGED ovars

OInit ==
  /\ Init
  /\ \E on \in BOOLEAN :
       retry = [on |-> on, tracked |-> {}, num |-> [t \in Trx |-> 0], answers |-> {}]
  /\ fin = [head |-> Genesis, last |-> Num[Genesis], irr |-> Genesis, known |-> {},
            blk |-> [t \in Trx |-> None], out |-> {}, spec |-> {}]
  /\ snap = [requests |-> {}, pending |-> <<>>, final |-> {}]
  /\ sub = [prev |-> None, link |-> [b \in SBlocks |-> None]]
  /\ calls = 0

ONext ==
  \/ Quiet
  \/ \E b \in newBranch \cup oldBranch : OApply(b) \/ OApplyFails(b)
  \/ OAppend
  \/ \E b \in Mine : OStartBlock(b) \/ produce_block(b) \/ ProduceFails(b)
  \/ \E t \in Trx : send_transaction(t)
  \/ \E r \in Requests : schedule_snapshot(r)
  \/ CreateSnapshot

OSpec == OInit /\ [][ONext]_<<vars, ovars>>

-----------------------------------------------------------------------------
\* The observers' records are well formed: only tracked transactions have a block
\* number, status is kept for stored objects, a block has one pending snapshot.
OTypeOK ==
  /\ retry.tracked \subseteq Retried /\ retry.num \in [Trx -> Nat]
  /\ \A t \in Trx : retry.num[t] # 0 => t \in retry.tracked
  /\ fin.head \in Block /\ fin.irr \in Block /\ fin.out \subseteq fin.known
  /\ fin.spec \subseteq fin.known /\ fin.blk \in [Trx -> Block \cup {None}]
  /\ snap.requests \subseteq Requests /\ snap.final \subseteq Block
  /\ \A i, j \in DOMAIN snap.pending :
       snap.pending[i].blk = snap.pending[j].blk => i = j

\* What trx_retry_db tells a client is true on the chain of the block that made
\* it answer: an acknowledged transaction is in it, as deep as was asked or
\* irreversible, and an expired one is not in it and can no longer get in.
AnswersAreTrue ==
  \A a \in retry.answers :
    IF a.told = "acked"
    THEN \E c \in Anc[a.at] :
           /\ a.trx \in Txs[c]
           /\ \/ Depth[a.trx] # LibTotem /\ Num[c] + Depth[a.trx] <= Num[a.at]
              \/ Num[a.at] <= Num[fin.irr]
    ELSE ~InBranch(a.trx, a.at) /\ Expiry[a.trx] <= Num[a.at]

\* The finality status of a transaction is the truth about head's chain, through
\* switches and failed switches, for received and for produced blocks (once
\* head is the last block the processing has seen a trace of).  It calls no
\* block irreversible that head could still leave.
StatusIsTrue ==
  pc = "idle" /\ fin.head = head =>
    /\ fin.irr \in Anc[head] /\ fdb.root \in Anc[fin.irr]
    /\ \A t \in Trx : get_trx_state(fin, t) =
         IF InBranch(t, fin.irr) THEN "IRREVERSIBLE"
         ELSE IF InBranch(t, head) THEN "IN_BLOCK" ELSE "NOT_IN_BLOCK"

\* A snapshot whose height is behind the irreversible one has been finalised or
\* dropped, unless it is, or is queued behind, a scheduled one of a block that
\* was forked out.
NoForgottenSnapshot ==
  pc = "idle" => \A i \in DOMAIN snap.pending : Num[snap.pending[i].blk] < Num[fdb.root] =>
    \E j \in DOMAIN snap.pending :
      /\ j = i \/ ByHeight(snap.pending, j, i)
      /\ snap.pending[j].sched /\ ~fetch_block_by_id(snap.pending[j].blk)

\* A finalised snapshot is of a block of the irreversible chain; finalize()
\* refuses the others: "Snapshotted block was forked out of the chain".
FinalIsIrreversible ==
  pc = "idle" => \A b \in snap.final : b \in Anc[fdb.root]

\* The S-header of a block of this node names the S-id of the block before it
\* on the same chain that has one ("Previous Block S-ID").
SLinked ==
  pc = "idle" => \A b \in SBlocks \cap Anc[head] :
    sub.link[b] = LET S == (Anc[b] \ {b}) \cap SBlocks
                  IN  IF S = {} THEN None ELSE CHOOSE c \in S : S \subseteq Anc[c]

=============================================================================
