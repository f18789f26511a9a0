----------------------------- MODULE Production -----------------------------
(***************************************************************************)
(* Block production of one node (plugins/producer_plugin): the production  *)
(* loop and its timer, the producer watermarks, and what they let the node *)
(* sign.                                                                   *)
(*                                                                         *)
(* The plugin runs on the main thread.  A timer that expires puts its      *)
(* handler into the application's queue, from where it can no longer be    *)
(* cancelled.  Time is counted in block slots, and the chain is abstracted *)
(* to the number and the slot of the head block.                           *)
(***************************************************************************)
EXTENDS Integers, FiniteSets

CONSTANTS N,           \* producers in the active schedule
          Repetitions, \* producer_repetitions
          Own,         \* the positions in the schedule this node produces for
          Lag,         \* how far the last irreversible block is behind head
          SyncAge,     \* a head older than this means that the node is syncing
          MaxSlot,     \* bound: the clock stops here
          MaxPauses, MaxStarts  \* bounds

ASSUME ProductionAssumption ==
  /\ N \in Nat \ {0} /\ Repetitions \in Nat \ {0}
  /\ Own \subseteq 0..N - 1 /\ Own # {}
  /\ Lag \in Nat /\ SyncAge \in Nat
  /\ MaxSlot \in Nat /\ MaxPauses \in Nat /\ MaxStarts \in Nat

VARIABLES now,       \* the slot of the clock
          head,      \* the head block: [num, slot]
          wm,        \* _producer_watermarks: [num, slot], num = 0 for none
          enabled,   \* _production_enabled
          paused,    \* _pause_production
          mode,      \* _pending_block_mode, or "stopped"
          block,     \* the block being built, if any: {[num, slot, c, own]}
          timer,     \* the handler that is armed: [kind, at]
          queue,     \* handlers whose timer expired and that have not run;
                     \* current: _timer_corelation_id is still the handler's
          signed,    \* the blocks this node has signed: {[num, slot, c]}
          pauses, starts
pvars == <<now, head, wm, enabled, paused, mode, block, timer, queue, signed,
           pauses, starts>>

NoTimer == [kind |-> "none", at |-> 0]
NoMark  == [num |-> 0, slot |-> 0]

Higher(a, b) == IF a > b THEN a ELSE b
Lower(a, b)  == IF a < b THEN a ELSE b

\* get_scheduled_producer, as a position in the schedule.
Scheduled(slot) == (slot % (N * Repetitions)) \div Repetitions

\* on_block_header: number and time of a watermark are raised separately.
consider_new_watermark(w, b) ==
  LET p == Scheduled(b.slot)
  IN  IF p \in Own
      THEN [w EXCEPT ![p] = [num |-> Higher(@.num, b.num), slot |-> Higher(@.slot, b.slot)]]
      ELSE w

calculate_pending_block_time == Higher(now, head.slot) + 1

production_disabled_by_policy == ~enabled \/ paused

(***************************************************************************)
(* calculate_next_block_slot: when producer p should be woken, seen from a *)
(* block with this slot and number.                                        *)
(***************************************************************************)
\* (mutant) the slot is not aligned to the first of its repetitions
unaligned(p, slot, num) ==
  LET w     == wm[p]
      wait  == Higher(IF w.num > num THEN w.num - num + 1 ELSE 1,
                      IF w.slot > slot THEN w.slot - slot + 1 ELSE 1)
      first == slot + wait
  IN  first + ((p - Scheduled(first)) % N) * Repetitions

calculate_next_block_slot(p, slot, num) ==
  LET w     == wm[p]
      wait  == Higher(IF w.num > num THEN w.num - num + 1 ELSE 1,
                      IF w.slot > slot THEN w.slot - slot + 1 ELSE 1)
      first == slot + wait
      rounds == (p - Scheduled(first)) % N
  IN  IF rounds = 0 THEN first ELSE first - (first % Repetitions) + rounds * Repetitions

\* calculate_producer_wake_up_time, from the pending block: the earliest of
\* them over the producers of this node.
WakeUp(num) ==
  LET slots == {calculate_next_block_slot(p, calculate_pending_block_time, num) : p \in Own}
  IN  CHOOSE s \in slots : \A t \in slots : s <= t

\* The clock at which the round of a slot starts: blocks of a round are
\* produced without gaps, each as early as its predecessors allow.
RoundStart(slot) == slot - (slot % Repetitions) - 1

(***************************************************************************)
(* start_block: the block is produced if its slot is one of ours and the   *)
(* watermark is neither on a higher block nor at this slot or later.       *)
(***************************************************************************)
\* (mutant) the height of the watermark is not looked at
any_height ==
  LET p == Scheduled(calculate_pending_block_time)
  IN  /\ enabled /\ p \in Own /\ ~paused
      /\ wm[p].slot < calculate_pending_block_time

Producing ==
  LET p == Scheduled(calculate_pending_block_time)
  IN  /\ enabled /\ p \in Own /\ ~paused
      /\ wm[p].num <= head.num
      /\ wm[p].slot < calculate_pending_block_time

\* (mutant) irreversible blocks are confirmed as well
beyond_lib ==
  LET m == wm[Scheduled(calculate_pending_block_time)].num
  IN  IF Producing /\ m \in 1..head.num - 1 THEN head.num - m ELSE 0

\* What a block confirms besides itself: the blocks above the watermark.
blocks_to_confirm ==
  LET m == wm[Scheduled(calculate_pending_block_time)].num
  IN  IF Producing /\ m \in 1..head.num - 1 THEN Lower(head.num - m, Lower(head.num, Lag)) ELSE 0

\* chain.start_block
StartedBlock == {[num |-> head.num + 1, slot |-> calculate_pending_block_time,
                  c |-> blocks_to_confirm, own |-> Producing]}

AwaitsRound == /\ Producing
               /\ calculate_pending_block_time % Repetitions = 0
               /\ now < calculate_pending_block_time - 1
Syncing == ~Producing /\ now > head.slot + SyncAge

(***************************************************************************)
(* schedule_production_loop, in the state the calling handler leaves: b is *)
(* the block still being built, q the handlers still queued.  A new timer  *)
(* takes a new corelation id, which the queued handlers do not have; the   *)
(* cases that set no timer leave the id as it was.                         *)
(***************************************************************************)
Arm(kind, at, q) == /\ timer' = [kind |-> kind, at |-> at]
                    /\ queue' = {[h EXCEPT !.current = FALSE] : h \in q}
NoArm(q) == timer' = NoTimer /\ queue' = q

ArmUnlessDisabled(at, q) ==
  IF production_disabled_by_policy' THEN NoArm(q) ELSE Arm("loop", at, q)

SetMode == mode' = IF Producing' THEN "producing" ELSE "speculating"

\* waiting_for_production
WaitForProduction(b, q) ==
  /\ AwaitsRound'
  /\ SetMode /\ block' = b
  /\ Arm("loop", calculate_pending_block_time' - 1, q)

\* waiting_for_block: a node that is syncing starts no block.
WaitForBlock(b, q) ==
  /\ Syncing'
  /\ SetMode /\ block' = b
  /\ ArmUnlessDisabled(RoundStart(WakeUp(head.num))', q)

\* failed: before or after the chain started the block.
StartFails(q) ==
  /\ ~AwaitsRound'
  /\ SetMode /\ block' \in {{}, StartedBlock'}
  /\ Arm("loop", now, q)

\* succeeded and exhausted.
StartSucceeds(q) ==
  /\ ~AwaitsRound'
  /\ SetMode /\ block' = StartedBlock'
  /\ IF Producing'
     THEN Arm("produce", RoundStart(calculate_pending_block_time'), q)
     ELSE ArmUnlessDisabled(WakeUp(head.num + 1)' - 1, q)

schedule_production_loop(b, q) ==
  \/ WaitForProduction(b, q)
  \/ WaitForBlock(b, q)
  \/ StartFails(q)
  \/ StartSucceeds(q)

-----------------------------------------------------------------------------
(***************************************************************************)
(* The application runs the queued task of the highest priority.  Timer    *)
(* handlers are posted at high priority, blocks, transactions and API      *)
(* calls at medium or lower: these run only when no handler is queued.     *)
(***************************************************************************)
\* (mutant) handlers have no precedence
any_order == TRUE

NoHandlerQueued == queue = {}

Running == mode # "stopped"
MediumTask == Running /\ NoHandlerQueued

Chain == <<head, wm, signed>>
Policy == <<enabled, paused>>
Bounds == <<pauses, starts>>

\* The clock.
Tick == /\ now < MaxSlot
        /\ now' = now + 1
        /\ UNCHANGED <<head, wm, enabled, paused, mode, block, timer, queue, signed, pauses, starts>>

\* The timer expires: its handler is queued.
TimerExpires ==
  /\ Running /\ timer # NoTimer /\ now >= timer.at
  /\ queue' = queue \cup {[kind |-> timer.kind, current |-> TRUE]}
  /\ timer' = NoTimer
  /\ UNCHANGED <<now, Chain, Policy, mode, block, Bounds>>

\* A handler with an old id returns at once.
IgnoreStale(h) == queue' = queue \ {h} /\ UNCHANGED <<Chain, mode, block, timer>>

LoopHandler ==
  /\ Running
  /\ UNCHANGED <<now, Policy, Bounds>>
  /\ \E h \in queue :
       /\ h.kind = "loop"
       /\ IF h.current
          THEN UNCHANGED Chain /\ schedule_production_loop(block, queue \ {h})
          ELSE IgnoreStale(h)

\* produce_block and commit_block: the block is signed and becomes head, and
\* the accepted_block_header signal raises the watermark.
SignAndCommit(b) ==
  /\ signed' = signed \cup {[num |-> b.num, slot |-> b.slot, c |-> b.c]}
  /\ head' = [num |-> b.num, slot |-> b.slot]
  /\ wm' = consider_new_watermark(wm, b)

\* maybe_produce_block: when produce_block throws, the block is aborted.
ProduceHandler ==
  /\ Running
  /\ UNCHANGED <<now, Policy, Bounds>>
  /\ \E h \in queue :
       /\ h.kind = "produce"
       /\ IF h.current
          THEN /\ \/ UNCHANGED Chain
                  \/ mode = "producing" /\ \E b \in block : SignAndCommit(b)
               /\ schedule_production_loop({}, queue \ {h})
          ELSE IgnoreStale(h)

(***************************************************************************)
(* on_incoming_block.  Blocks are dropped in producing mode.  A block that *)
(* is known, or from the future, leaves the pending block; one that fails  *)
(* aborts it; one that is accepted goes through on_block_header and may    *)
(* become head, on this branch or another one.  The blocks of our own      *)
(* producers that arrive are blocks this node signed.                      *)
(***************************************************************************)
IncomingSlots == 1..now + 1

DropBlock == MediumTask /\ mode = "producing" /\ UNCHANGED pvars

KnownBlock ==
  /\ MediumTask /\ mode = "speculating"
  /\ UNCHANGED <<now, Chain, Policy, Bounds>>
  /\ schedule_production_loop(block, queue)

RejectBlock ==
  /\ MediumTask /\ mode = "speculating"
  /\ UNCHANGED <<now, Chain, Policy, Bounds>>
  /\ schedule_production_loop({}, queue)

AcceptBlock ==
  /\ MediumTask /\ mode = "speculating"
  /\ \E s \in IncomingSlots : \E n \in 2..s + 1, adopt \in BOOLEAN :
       LET b == [num |-> n, slot |-> s]
       IN  /\ Scheduled(s) \in Own => \E x \in signed : x.num = n /\ x.slot = s
           /\ head' = IF adopt THEN b ELSE head
           /\ wm' = consider_new_watermark(wm, b)
           /\ enabled' = (enabled \/ head'.slot + 1 >= now)
  /\ UNCHANGED <<now, signed, paused, Bounds>>
  /\ schedule_production_loop({}, queue)

\* An incoming transaction does not fit: the block being built is shipped
\* at once, or restarted.
Exhausted ==
  /\ MediumTask /\ block # {}
  /\ UNCHANGED <<now, Chain, Policy, Bounds>>
  /\ IF mode = "producing"
     THEN Arm("produce", now, queue) /\ UNCHANGED <<mode, block>>
     ELSE schedule_production_loop({}, queue)

\* create_snapshot and get_integrity_hash abort the block being built; they
\* leave the loop alone when there is none.
Snapshot ==
  /\ MediumTask /\ block # {}
  /\ UNCHANGED <<now, Chain, Policy, Bounds>>
  /\ schedule_production_loop({}, queue)

\* pause only sets the flag.
Pause ==
  /\ MediumTask /\ ~paused /\ pauses < MaxPauses
  /\ paused' = TRUE /\ pauses' = pauses + 1
  /\ UNCHANGED <<now, Chain, enabled, mode, block, timer, queue, starts>>

\* (mutant) the loop is not started again
resume_flag_only ==
  /\ MediumTask /\ paused
  /\ paused' = FALSE
  /\ UNCHANGED <<now, Chain, enabled, Bounds, mode, block, timer, queue>>

\* What only speculates because of the pause is scheduled again.
Resume ==
  /\ MediumTask /\ paused
  /\ paused' = FALSE
  /\ UNCHANGED <<now, Chain, enabled, Bounds>>
  /\ IF mode = "speculating" THEN schedule_production_loop({}, queue)
     ELSE UNCHANGED <<mode, block, timer, queue>>

\* plugin_startup; --enable-stale-production sets the flag at once.  The
\* watermarks are empty: the signals are connected after the chain has been
\* loaded or replayed.
Start ==
  /\ mode = "stopped" /\ starts < MaxStarts
  /\ starts' = starts + 1
  /\ enabled' \in BOOLEAN /\ paused' = FALSE
  /\ wm' = [p \in Own |-> NoMark]
  /\ UNCHANGED <<now, head, signed, pauses>>
  /\ schedule_production_loop({}, {})

\* The process stops.  After a crash the reversible blocks are gone.
Stop ==
  /\ Running
  /\ mode' = "stopped" /\ block' = {} /\ timer' = NoTimer /\ queue' = {}
  /\ \E n \in Higher(1, head.num - Lag)..head.num :
       \E s \in n - 1..head.slot - (head.num - n) :
         head' = IF n = head.num THEN head ELSE [num |-> n, slot |-> s]
  /\ UNCHANGED <<now, wm, enabled, paused, signed, Bounds>>

ProdInit ==
  /\ now = 0 /\ head = [num |-> 1, slot |-> 0]
  /\ wm = [p \in Own |-> NoMark]
  /\ enabled = FALSE /\ paused = FALSE
  /\ mode = "stopped" /\ block = {} /\ timer = NoTimer /\ queue = {}
  /\ signed = {} /\ pauses = 0 /\ starts = 0

ProdNext ==
  \/ Tick \/ TimerExpires \/ LoopHandler \/ ProduceHandler
  \/ DropBlock \/ KnownBlock \/ RejectBlock \/ AcceptBlock
  \/ Exhausted \/ Snapshot \/ Pause \/ Resume \/ Start \/ Stop

ProdSpec == ProdInit /\ [][ProdNext]_pvars

-----------------------------------------------------------------------------
(***************************************************************************)
(* The types of the plugin's fields.                                       *)
(***************************************************************************)
Mark == [num : Nat, slot : Nat]
ProdTypeOK ==
  /\ now \in 0..MaxSlot /\ head \in Mark /\ wm \in [Own -> Mark]
  /\ enabled \in BOOLEAN /\ paused \in BOOLEAN
  /\ mode \in {"stopped", "producing", "speculating"}
  /\ block \subseteq [num : Nat, slot : Nat, c : 0..Lag, own : BOOLEAN]
  /\ timer \in [kind : {"none", "loop", "produce"}, at : Int]
  /\ queue \subseteq [kind : {"loop", "produce"}, current : BOOLEAN]
  /\ signed \subseteq [num : Nat, slot : Nat, c : 0..Lag]
  /\ pauses \in 0..MaxPauses /\ starts \in 0..MaxStarts

(***************************************************************************)
(* No height is signed twice: for each of its producers the blocks the     *)
(* node signs have increasing slots and numbers, and no block confirms a   *)
(* block that an earlier one confirmed.  This is what the watermarks and   *)
(* blocks_to_confirm are for, across forks and whatever arrives, until a   *)
(* stop loses the watermarks.                                              *)
(***************************************************************************)
SignsUpwards ==
  \A x, y \in signed :
    Scheduled(x.slot) = Scheduled(y.slot) /\ x # y =>
      \/ x.slot < y.slot /\ x.num < y.num - y.c
      \/ y.slot < x.slot /\ y.num < x.num - x.c

(***************************************************************************)
(* A produce handler that passes the corelation id check finds the block   *)
(* it was armed for: the node is in producing mode and builds a block that *)
(* was started to be produced, as the two assertions at the head of        *)
(* produce_block demand.                                                   *)
(***************************************************************************)
HandlerIsCurrent ==
  \A h \in queue : h.kind = "produce" /\ h.current =>
    mode = "producing" /\ \E b \in block : b.own

(***************************************************************************)
(* The production loop never dies: a running node that is allowed to       *)
(* produce has a timer armed or a handler queued that will continue the    *)
(* loop.                                                                   *)
(***************************************************************************)
LoopAlive ==
  Running /\ ~production_disabled_by_policy =>
    timer # NoTimer \/ \E h \in queue : h.current

(***************************************************************************)
(* The wake-up time is not too late: there is no slot before it in which   *)
(* the node could have produced on its head.                               *)
(***************************************************************************)
WakesInTime ==
  mode = "speculating" /\ ~production_disabled_by_policy /\ timer.kind = "loop" =>
    \A s \in Higher(now, head.slot) + 2..timer.at :
      LET p == Scheduled(s)
      IN  p \in Own => wm[p].num > head.num \/ wm[p].slot >= s
=============================================================================
