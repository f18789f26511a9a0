# The block life cycle of wire-sysio in TLA+

wire-sysio is a DPoS blockchain node (`nodeop`) in C++. This directory holds TLA+
models of the part of it that decides which chain a node is on: the fork database,
the controller's handling of blocks, the header states that make blocks
irreversible, and the loop that produces blocks. Around it are models of how a node
catches up with its peers, of the windows in which read-only work runs beside the
main thread, and of what plugins make of the controller's signals. TLC checks the
models on small instances. TLAPS proves the safety of the fork database and of the
controller for every tree of blocks, of the header states for every set of producers
and window of confirmations, and of the read-only windows for every number of threads.

Paths below are relative to the repository; `controller.cpp` and the other chain
files are in `libraries/chain`.

## 1. Inventory

| Part | State | Operations | What is hard about it |
|---|---|---|---|
| fork database (`fork_database.cpp`) | `root`, `head`, index of block states with a `validated` flag | add, mark_valid, remove, advance_root, reset, rollback_head_to_root, close, open | three orders (id, previous, preference); `head` is maintained in four places; the file order |
| controller (`controller.cpp`) | `head`, `pending`, fork database, state database, block log | push_block, maybe_switch_forks, pop_block, apply_block, log_irreversible, start/commit/abort_block, startup, init, replay, shutdown | a switch that fails half way; an append that fails; a crash between two steps; two read modes |
| header states (`block_header_state.cpp`) | confirmation window, implied views, active and pending schedule | next, _finish_next, set_proposed_producers | a bounded window, ranges of confirmations, schedules that change while blocks are being confirmed |
| production loop (`plugins/producer_plugin`) | mode, timer and corelation id, watermarks, pause and enable flags | schedule_production_loop, start_block, produce_block, on_incoming_block, pause, resume, startup, shutdown | queued handlers that can no longer be cancelled; watermarks and forks; loops that set no timer |
| read-only windows (`plugins/producer_plugin`) | window, deadline, active tasks, futures, exhausted transactions | start_write_window, switch_to_write_window, switch_to_read_window, read_only_execution_task, push_read_only_transaction | three handlers that switch, each may be late; a pool that waits on one condition variable |
| application queue (`libraries/custom_appbase`) | three priority queues, a condition variable | add, execute_highest, execute_highest_blocking_locked | a wake-up that is lost |
| net plugin (`plugins/net_plugin`) | sync_manager, connections, dispatcher, unlinkable blocks | handshakes, notices, requests, timers, blocks, reconnecting | threads, connections that break, late answers |
| transaction retry, finality status (`plugins/chain_plugin`) | tracked transactions and their blocks | on block start, trace, accepted and irreversible block | forks, blocks that fail half way |
| snapshot scheduler (`snapshot_scheduler.cpp`) | requests, pending snapshots | on start of block, on irreversible block, create | forks between creation and finality |
| sub-chain plugin | previous S-id | S-header computation, update_prev_s_id | updated before the block is committed |
| block log (`block_log.cpp`) | log and index files | append, read, reset, prune, split | partial writes, partitions |
| state database (chainbase, external) | undo stack | start session, push, squash, undo, commit | revision against block number |
| unapplied transaction queue | queue by kind | add forked, aborted, incoming, expire | iteration while it is changed |
| resource limits, subjective billing | moving averages, elastic limits | add usage, process block | integer widths and rounding |
| protocol features | activated features, pre-activations | activate, pop on fork switch | fork switches |
| state history, trace API | logs | append per block | replaced entries on forks |
| transaction execution, authorization, WebAssembly, ABI, HTTP, wallet | | | data or I/O, no protocol at the block level |

## 2. Modules

| Module | Models |
|---|---|
| `ForkDatabase` | the fork database object, and the sequences of calls it can get |
| `ForkDatabaseProofs` | its theorems |
| `Controller` | the controller's main thread; extends `ForkDatabase` |
| `ControllerFacts` | the controller's inductive invariants, and the facts its proofs share |
| `ControllerStepProofs` | pushing, switching, logging and producing keep the invariant |
| `ControllerStateProofs` | so do stopping and starting; the state database holds head's chain |
| `ControllerHeadProofs` | the revision is on par with head, and the two heads agree |
| `ControllerProofs` | the controller's theorems, over the four modules above |
| `Ledger` | abstract specification: what a reader of a node relies on |
| `HeaderState` | header states and schedules along one branch |
| `HeaderStateProofs` | its theorems |
| `Production` | the production loop of one node |
| `ReadWindow` | main thread, read-only thread pool, timers and queues |
| `ReadWindowProofs` | its theorems |
| `Observers` | transaction retry, finality status, snapshot scheduler and S-headers over the signals; extends `Controller` |
| `SyncManager` | one node that is behind, its connections and its peers |
| `MC...` | the instances TLC checks |

**ForkDatabase.** A constant tree of blocks: `Prev`, `Num` (block_num), `Lib`
(dpos_irreversible_blocknum) and the ancestors `Anc`. The object is the record
`fdb` of root, head, index and validated blocks; `saved` says that it is in
fork_db.dat. The three multi-index orders are `IndexBefore` and `first_preferred`;
block ids are the blocks themselves, compared as integers. The file is modelled by the order in
which `close` writes blocks (`WrittenBefore`) and by what `open` needs (`Openable`).

**Controller.** A handler of the code becomes several steps, one for each block it
applies, pops, appends or removes. `pc` names the loop the handler is in, `ret`
where it returns. Nothing else runs on the main thread in between, but the process
can die between any two steps (`Die`). `applied` stands for the state database: the
blocks whose changes it holds, one chainbase revision each; `committed` is how many
cannot be undone. A block executes or throws; `invalid`, chosen at the start, says
which. Internal assertions of the code do not stop the model: they are recorded in
`asserted`, and the handler is left as the exception leaves it.

**Ledger.** The log of irreversible blocks only grows, by children of its last
block, and the tip is always on it. `ImplementsLedger` is the refinement.

**HeaderState.** A step is one whole block: `next`, the promotion of the proposed
schedule in `start_block`, and `set_proposed_producers` in a transaction. The
history variables `confirmers` and `needed` record who really confirmed what.

**Production.** Time is counted in slots. A timer that expires puts its handler
into `queue`; `current` on a handler says that the corelation id is still its own.
Blocks, transactions and API calls run only when no handler is queued: timer
handlers are posted with priority high, the others with medium or lower, and
`exec_pri_queue` runs the highest first. A change of the runtime options that
restarts speculation has the same effect as `RejectBlock`.

**ReadWindow.** The switch handlers `to_read`, `timer` and `last` are told apart,
other tasks only counted. A handler has its place in `order` from when it is wrapped;
it waits in the timer (`armed`), in the io_service (`io`), and then in the priority
queue. A cancelled timer's handler still comes, in `aborted`. A pool thread steps
through read_only_execution_task: check the loop condition, take or wait under the
lock (with the notification of the condition variable as a set of `notified`
threads), run, leave, post. `failed` records any assertion of the switch.

**Observers.** Every observer is a record and every handler an operator on it. A step
of the controller that emits is taken together with the handlers it calls, in the
order of the signals: a block that is applied is block_start, its traces,
accepted_block; a block that fails has emitted block_start and traces; append is
preceded by irreversible_block even when it fails. A production that fails after its
S-id was stored is aborted with the S-id left as it is (`ProduceFails`). Transaction
retry is not allowed on producing nodes (chain_plugin.cpp:955-957), so `retry.on`
excludes production.

**SyncManager.** A block is its number, on one chain. Each connection has a `strand`
of posted handlers and a `wire` with what its peer has sent and still has to send.
`disp`, `app` and `pool` are the dispatcher strand, the application thread and the
thread pool a block goes through. Handlers of different connections run in parallel. What
a handler does under one lock of `sync_mtx` is a step; where it reads or sets the atomic
`sync_state`, or a fork head, without that lock, the step ends, and `doing` holds what
the handler has still to do. So verify_catchup tests `sync_state` in one step, sets it in
the next and the fork head in a third, and sync_recv_block acts on a stage that may be
out of date: on the lock, the fork heads and the new stage in steps of their own. Where it
is asked to request blocks, the choice of the peer is the code's round over
`connections`, as a nondeterministic choice among those that qualify.

## 3. Runs

`tlc -config X.cfg M`; states are distinct states.

| Run | Config | Checks | States |
|---|---|---|---|
| fork_database | MCForkDatabase | tree, head, file, head never worsens | 784 |
| forks | MCControllerForks | state, head and fork database agree through switches and failures; the best valid chain is adopted | 22 742 |
| restarts | MCControllerRestarts | state and head recovered over stops, crashes, replays, read modes; what is committed is what is logged; refinement of the ledger | 5 193 |
| read_modes | MCControllerReadModes | blocks that fail, an append that fails, a restart in the other mode, and a branch that contradicts the irreversible one: log, root and head stay in step | 351 227 |
| header_states | MCHeaderState | exact counts for every accepted range, supermajority, schedule versions, monotonic irreversibility | 36 001 |
| production | MCProduction | no height signed or confirmed twice; wake-up in time; handlers find their block; the loop never dies | 116 621 |
| read_windows | MCReadWindow | exclusion of write tasks, assertions of the switch, every task runs, shutdown ends | 48 318 |
| observers | MCObservers | answers to retries and finality status are true, pending snapshots are not forgotten | 834 179 |
| net_sync | MCSyncManager | requests stay in range; a syncing node is not left waiting for nothing; it catches up with the irreversible blocks of its peers, or with their heads | 1 175 386 |

Runs that TLC refutes, one disagreement between the code and what it says each:

| Run | Property | What happens |
|---|---|---|
| switch_restart | StateIsHead | after a failed switch `add` moves `fork_db.head()` to an equally preferred block; the next start takes it as head over the state of the other branch |
| snapshot_fork | FinalIsIrreversible | irreversible_block is emitted before the other branches are removed, so a snapshot of a forked-out block at the irreversible height is found in the fork database and finalised |
| s_chain | SLinked | the previous S-id is kept in memory and not taken back: after a fork switch an S-header names the S-id of a block of the other branch |

What CatchesUp and SyncCanGoOn leave out. TLC refuted simpler forms of both, and what
it showed is now named in them:

- A refused block stays in the dispatcher's blk_state and is dropped when it comes
  again (`Lost`). dispatch_manager::rejected_block (net_plugin.cpp:2655) does not
  remove it.
- `Stalled`: everything known counts as requested, not all of it has come, and the node
  has no sync_source or is not in lib_catchup. Then a notice requests nothing
  (net_plugin.cpp:2163, 2199). It gets there when the source closes without being
  recognised. 'if closing the connection we are currently syncing from then request from
  a diff peer' (line 2063) is decided by c == sync_source, but a notice that comes while
  everything known is requested resets sync_source (lines 2178-2179), although the
  connection still owes its blocks; nothing is then requested from another peer. It also
  gets there without any fault, because `sync_state` is tested and set outside
  `sync_mtx`. verify_catchup of one connection finds in_sync (line 2372), start_sync of another enters lib_catchup and requests a range, and the first sets
  head_catchup (line 2374). The next block takes the source away (line 2459) or, being
  old, makes the node tell the peer to stop (line 3077). With peers of heights 4/4 and 1/2,
  ranges of two blocks and `MaxFaults = 0`, TLC refutes `<>(head >= BestLib)` this way. In
  the model peers' heads do not move, so a stall is for ever; in a live network the next
  higher irreversible block of a peer ends it.

These are exceptions of the properties, not hazards they would catch.

What StatusIsTrue leaves out: after a block fails that extends head, its transactions
are reported as in a block until the next block (`fin.head = head` excludes that
time). What NoForgottenSnapshot leaves out: a scheduled snapshot of a block that was
forked out and pruned makes its handler throw before the entry is erased; it stays,
and what is behind it waits.

Other constants in the same configurations show more of the kind:

- `MaxStarts = 2` in production: the watermarks are lost at a stop, and a height is
  signed twice (`SignsUpwards`), as the TODO at producer_plugin.cpp:1876 concedes.
- `MaxFails = 2` and `Mine = {}` in restarts, `ReplayCompletes` checked alone: after
  failed appends a replay refuses a block of its own fork database.
- `MaxFails = 1` in restarts: in irreversible mode the head after a failed append is
  a block that was not logged (`HeadIsBestKnown`).
- `Mine = {4, 8, 9}`, `MayFail = {}`, `MaxFails = 1` in forks: a produced block is head
  before its logging fails (controller.cpp:1965, 483-484), so the state is not that of
  head (`StateIsHead`), and the next start_block finds the revision behind
  (`NoAssertFails` checked alone, controller.cpp:1719).
- `MayFail = {4, 5}`, `Mine = {}`, both modes, `MaxRestarts = 1` in restarts: leaving
  irreversible mode with a block that fails ends in `branches.second.back()` of an
  empty deque (`pc = "empty_back"`, controller.cpp:2419).
- `Schedule <- Shrinking`, `MaxTracked = 5`, `AnyRange = FALSE`, `MaxNum = 11` in
  header_states: a schedule shrinks to lagging producers, who have not built on the
  irreversible block (`LibHasSupermajority`), and the next block lowers it
  (`LibNeverBack` checked alone, block_header_state.cpp:35).
- In restarts, `InterruptReplay` (a stop while replay() is among the reversible
  blocks, controller.cpp:603) leads to states in which `Startup` is refused by
  `StateCovers`; only a replay helps.

The passing runs leave these situations out, on purpose, by their constants: forks
has no restart, restarts no failing block and no failing append, header_states no
shrinking schedule, production one start only. read_modes has failing blocks, a
failing append and a restart together, so the situation of switch_restart occurs in it:
head 4 over the state of 5, and then block 10 on top of it, which makes block 3
irreversible. Block 3 is logged and committed there while the state holds block 6, so
`StateIsHead` and `CommitAfterLog` fail in that run, and it checks neither; nor does it
check `HeadIsBestKnown`, which a failed append breaks. `CommitAfterLog` is checked in
restarts. The properties of read_modes hold in that situation too. `LibAssumption` of
`ForkDatabase` (irreversibility does not go back along a branch) is what header_states
checks and `Shrinking` refutes.

**Bounds.** The controller's tree of ten blocks has a switch of length two in
both directions, two equally preferred blocks, a short branch preferred for its
irreversible number, and blocks that make one and two others irreversible at once. In
read_modes two branches claim irreversibility that excludes the other (`MCConflict`):
the node must keep to the one it logged. Two restarts are a stop and a stop of the
start that follows. The window of header states is 3 so that it overflows within the
8 blocks looked at; schedules of two producers of which one changes make several
promotions. Production has two producers with two slots each, one of them this
node's, a clock of six slots, more than one round, and two pauses. Read windows have
two threads, so that one can be last and one wait, two tasks, and one transaction put
off; windows repeat for ever. Observers share the controller's tree; one transaction
is in both branches, one in a single branch and one in produced blocks; one append may
fail, and two snapshots may be taken besides the scheduled one; they leave block 10 out.

The syncing node fetches three blocks from two peers, of irreversible block and head 3/3
and 1/2, in ranges of one block. The second is one it also catches up with by its fork
head, so that both ways of syncing run at once. `MaxFaults` allows one broken connection,
refused block, early timeout or repeated handshake, on the connections of `Fragile`, here
the one with the blocks. When nothing is under way, timers expire and handshakes repeat
without a bound. The run also starts in a second network (`Networks`), where nothing but
heads differs (1/2 and 1/3) and nothing breaks. Larger instances gave the same result:
heights 4/4 and 1/2 with ranges of two blocks and no fault (4 142 706 states), the first network with
either connection fragile and `lag` 1 (2 190 324) or 0 (4 366 881), and the second with
one fault (2 562 969).

TLC does not check deadlock in the header state, production and observer runs,
because there the bounds, or the end of the tree, end the behaviours. In the other
runs it does.

**Fairness.** `FairSpec` of `Controller` assumes that the main thread finishes a
handler it has begun (weak fairness of `Continue`: nothing in a handler waits for
anybody), that a pending block is committed or aborted (weak fairness of `FinishBlock`:
the production timer), and that peers send a block again while it can be linked
(strong fairness of `PushBlock`). The last is an assumption about peers, not about this
code.

`WFairSpec` assumes that pool threads and the main thread run, timers expire and the
io_service is polled (weak fairness). In addition a write window, 200 ms by default,
does not every time end before the main thread got to a left-over switch handler or to
a task (strong fairness of `Fresh /\ ...`); a window that is always too short for any
task is a matter of configuration. `EveryTaskRuns` does not speak of the read_exclusive
queue: while a received block with a valid header never becomes head,
`_received_block` cuts every read window short. Condition variables do not wake up
without a notification, which makes the liveness properties stronger.

`FairSpec` of `SyncManager` assumes that the node does not halt: some thread, timer or
peer always goes on (`[]<><<TRUE>>_vars`; every state has a next one, and faults are
bounded, so they are not all that goes on), and that connection_monitor and the heartbeat timer reach each connection
(`reconnect`, `check_heartbeat`). The heartbeat needs strong fairness: it is periodic,
but a model without time lets other work interleave for ever.

**Mutants.** Operators marked (mutant) change a definition the way a bug would.
For each property of each passing run one of them makes TLC report a violation.

## 4. Proofs

Each theorem holds for every value of the constants that satisfies the assumptions of
the component's module, and the conditions it states itself.

**Fork database** (`ForkDatabaseProofs`; `TreeAssumption`, `LibAssumption`). The five
properties of the run fork_database; `FdbTypeOK` says, beyond types, that head is never a
block that was erased. The inductive invariant is `IInv`: every block of
the index has the root as an ancestor and all blocks between them in the index,
validated blocks are in the index, head is the root or validated, and no validated
block is preferred to head. `NoOrphan` alone is not inductive: `advance_root` and
`remove` need whole branches, not single links. There is one lemma per operation
(`AddInv` ... `AdvanceRootInv`), over lemmas on ancestors (a branch is a line;
irreversibility is monotonic along it) that are proved by taking a lowest
counterexample. `HeadNeverWorsens` follows from the same invariant.

**Header states** (`HeaderStateProofs`; `HeaderAssumption`: finitely many producers,
schedules without repetition). The inductive invariant is `HInv`. `Exact` says that
what is left to count of each height in the window is what it needed less the
different producers that confirmed it. That needs `Remembered`: a producer confirms no
height twice even if it leaves the schedule, loses its entry of
producer_to_last_produced and comes back, because it comes back with a schedule that
became pending after the heights it had confirmed. `Versions` does the same for
schedule versions.

| Theorem | States |
|---|---|
| HeaderInvariant, HeaderWellFormed | `HInv`, `HdrTypeOK` |
| ConfirmationsAreExact | `CountsAreExact`, whatever ranges headers confirm |
| NoWrongVersion | `VersionsFollow` |
| ProposedNeverBack | the irreversible block is below the block, and the proposed one never goes back |
| SupermajorityHolds | `LibHasSupermajority`, if `[]PendingNotSmaller` |
| IrreversibleNeverBack | `LibNeverBack`, if `[]PendingNotSmaller` |

`PendingNotSmaller` says that no schedule is replaced by a smaller one. The last two
are false without it (`Shrinking` in section 3). Under it the number of active
producers behind the irreversible block stays at a third (`FewBehind`): a producer that
joins has the irreversible block as its implied view, and the sorted views that
calc_dpos_last_irreversible reads can only rise. `LibNeverBack` and the bound of
`ProposedNeverBack` are what `LibAssumption` takes for granted of a branch.

**Read-only windows** (`ReadWindowProofs`; `ThreadsAssumption`: a finite, nonempty
pool). Two invariants. `WInv` is for `NoWriteWhileReading` (theorem WriteIsExclusive).
That property says nothing of `active`, the code's `_ro_num_active_exec_tasks`, by
which the main thread decides that it may open a write window. `WInv` relates the two:
`active` is at least the number of threads in the loop plus the tasks not yet begun, it
is 0 in a write window, and a write task runs only in one. It is an inequality because
a shutdown drops tasks that have not begun without counting them down.

`SwitchInv` is for the assertions of the switch (theorems SwitchInvariant and
SwitchAssertions, which states `SwitchAssertsHold`) and, with `TypesInv`, for `WTypeOK`
(WindowTypes). It lists which switch handlers are alive and where each waits, in a read
window (`ReadHandlers`) and in a write window (`WriteHandlers`). Few combinations
exist whatever the number of threads: the last thread to leave posts `last` once, when
`active` is 0, and at most one handler of a read window is left over when the write
window begins.

**Controller** (`ControllerFacts` and the four modules over it; the fork database's
assumptions and `ControllerAssumption`). The inductive invariant is `CInv`. It extends
the fork database's by saying, for each loop a handler can be in, how the fork
database, the block log, head and the branches of a switch lie to each other:
`SwitchFrom` for maybe_switch_forks and its reversal, `AppendOK` for log_irreversible,
`ReplayOK` for replay(), `IrrOK` for irreversible mode, `PendingOK` for a block being
produced, `DownOK` for what a stop or a crash leaves. `TypeOK` follows, with the claim in
it that the branch a switch leaves stays in the fork database, executed, until the switch
is over. What the properties say of idle
states is not inductive, since the code passes through states in which head, root and
log differ.

| Theorem | States | Condition |
|---|---|---|
| ControllerInvariant, ControllerTypes | `CInv`, `TypeOK` | |
| RootFollowsLog | `RootIsLogHead` | |
| LogIsOneChain | the log is one chain from genesis and grows by one linked block at a time | |
| LibAssertionsHold | the three assertions about irreversible blocks never fail | |
| HeadStaysAboveLog | `HeadAboveLog` | KeepsPace |
| ControllerImplementsLedger | `ImplementsLedger` | KeepsPace |
| RevisionFollowsHead | `LenInv`: the revision of the state database is on par with head | Sound |
| NoAssertWithoutProducer | `NoAssertFails` | the node does not produce |
| AssertionsHold | `NoAssertFails` | Sound, Steady or Resident |
| HeadsStayTogether | `HeadsAgree` | Sound, Steady or Resident |
| StateFollowsHead | `StateIsHead` | Sound, Steady or Resident |
| CommitFollowsLog | `CommitAfterLog` | Sound, Steady or Resident |
| HeadStaysBest | `HeadIsBestKnown` | Steady, no append fails |
| ReplayRunsThrough | `ReplayCompletes` | Steady, no append fails |

The conditions are on the constants:

- Sound: no append fails, or the node does not produce. A produced block is head before
  it is logged, so a failing append leaves head without its state.
- Steady: blocks execute. Resident: the node is not started again. A node that is
  neither can run into the switch_restart finding.
- KeepsPace: fork_db.dat is not replayed, or the node is Steady and no append fails.
  replay() pushes blocks one by one into a fork database whose head is already at the
  end of the branch. log_irreversible may then log blocks that have not been applied
  again (`Lags`). `CInv` describes that state too; it ends in a refused block and a
  stop.

Section 3 lists what TLC finds where Sound or Steady does not hold. For the state
database two more invariants carry the argument: `ResidentInv` (no block of the fork
database is preferred to head, except the target of a switch under way) or `SteadyInv`
(the fork database's head is the only best of the validated blocks, and no switch is
given up), and `ChainInv` (the revisions are the blocks of head's chain). `BestInv` and
`LoggedInv` are for the last two theorems: what the fork database's head makes
irreversible is in the block log between handlers, so that a replay has nothing to log
ahead of what it has applied.

The theorems on `NoAssertFails`, `HeadsAgree`, `StateIsHead`, `CommitAfterLog`,
`HeadIsBestKnown`, `ImplementsLedger` and `ReplayCompletes` hold for the constants of the
runs that check those properties.

**Only model-checked.**

- Liveness under fairness, which TLAPS does not reach here: `BestChainAdopted`,
  `EveryTaskRuns`, `ShutdownEnds`, `CatchesUp`.
- Every property of `Production`, `Observers` and `SyncManager`. No proofs have been
  written for these modules yet.

## 5. Not modelled

- Controller: transactions and deferred work in blocks, protocol features, the content
  of snapshots, an exception out of a signal handler, the block state log, bad_alloc,
  checkpoints and trusted producers.
- Header states: signatures, merkle roots, header extensions; a header that confirms
  more blocks than exist (the unsigned subtraction at block_header_state.cpp:53); an
  empty proposed schedule (controller.cpp:3317).
- Production: the limit on the age of the irreversible block, signing keys, protocol
  feature signalling, CPU and NET accounting; the fallback to speculation when the
  pending block has another signing authority than was computed (producer_plugin.cpp:1942,
  both come from get_scheduled_producer of the same header state); the cap of
  blocks_to_confirm at 65535 (line 1882), far above the heights of the run.
- Read windows: what a task computes, and the application's exec loop, which is not in
  this repository and is modelled from how the queue expects to be called.
- Observers: resending of transactions, memory limits and the expiry of status;
  read mode irreversible, in which snapshots are final at once; the schedule's file and
  its ids after a restart; unscheduling; requests scheduled after their end; a
  snapshot whose file exists already (snapshot_execution_exception).
- Sync: peers' chains do not grow or fork, peers have all their blocks, send no blocks
  of their own accord and answer a message when it is sent, so a request and its first
  answer are one step; latency is 0; the checks of a handshake
  (net_plugin.cpp:3261-3413), authentication, block_status_monitor, the limit of the
  unlinkable cache, and a block refused by a node that is producing.
- The parts listed in PROJECT.json as not modelled, with the reason for each.

Most of the repository's lines are contract execution, WebAssembly, serialisation, HTTP,
wallets, command line tools and tests' support code. They hold data or do I/O and
have no protocol among their states. The models therefore cover about 3% of all
lines: the main paths of those that decide about blocks.

## 6. Plan

1. `UnappliedTransactionQueue` and `ProtocolFeatures` against fork switches, with
   transactions in the controller's blocks.
2. `BlockLog` and the block state log, replacing the sequence in `Controller`.
3. Two nodes that both produce, with header states on two branches, over `SyncManager`.
4. `ResourceLimits`, `SubjectiveBilling`: accumulators with their integer widths,
   against reference definitions.
5. Proofs: `SignsUpwards` without restarts for `Production`, the range of requests in
   `SyncTypeOK` for `SyncManager`, `AnswersAreTrue` for `Observers` on top of `CInv`.
