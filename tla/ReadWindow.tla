----------------------------- MODULE ReadWindow -----------------------------
(***************************************************************************)
(* Read and write windows (plugins/producer_plugin, libraries/             *)
(* custom_appbase).  In a write window only the main thread takes tasks.   *)
(* In a read window the threads of a pool execute read-only tasks too, and *)
(* nothing from the read_write queue runs.                                 *)
(*                                                                         *)
(* Three handlers with priority high switch the windows: "to_read" (write  *)
(* timer), "timer" (read timer) and "last" (posted by the last thread to   *)
(* leave).  A handler gets its place in the order of execution when it is  *)
(* wrapped.  It then waits in the timer, in the io_service (first in first *)
(* out) and at last in the priority queue.  Other tasks are only counted.  *)
(***************************************************************************)
EXTENDS Integers, Sequences, FiniteSets, SequencesExt

CONSTANTS Threads,    \* the read-only thread pool
          MaxPosts,   \* bound: tasks posted
          MaxRetries  \* bound: transactions put off to a later window

ASSUME ThreadsAssumption ==
  /\ IsFiniteSet(Threads) /\ Threads # {}
  /\ MaxPosts \in Nat /\ MaxRetries \in Nat

VARIABLES
  window,    \* exec_window_, lock_enabled_ and the controller's window
  expired,   \* now >= _ro_window_deadline
  received,  \* _received_block >= pending_block_num
  exiting,   \* exiting_blocking_
  rw, ro, ex,\* the tasks in the queues read_write, read_only, read_exclusive
  exhausted, \* _ro_exhausted_trx_queue
  order,     \* the switch handlers that have not run, oldest first
  io,        \* those among them that are in the io_service
  armed,     \* the one that waits in _ro_timer, or "none"
  aborted,   \* those that were called with operation_aborted
  thr,       \* where a pool thread is in read_only_execution_task
  notified,  \* threads in cond_.wait that were notified
  todo,      \* tasks posted to the pool and not begun
  active,    \* _ro_num_active_exec_tasks
  futs,      \* _ro_exec_tasks_fut is not empty
  mine,      \* threads whose task has its future in _ro_exec_tasks_fut
  main,      \* what the main thread does
  failed,    \* an assertion of the code failed
  posts, retries

queues == <<rw, ro, ex, exhausted>>
timers == <<order, io, armed, aborted>>
pool   == <<thr, notified, todo, active, futs, mine>>
bounds == <<posts, retries>>
wvars  == <<window, expired, received, exiting, queues, timers, pool, main,
            failed, bounds>>

Handlers == {"to_read", "timer", "last"}
ReadOnly == {"timer", "last"}   \* wrapped for the read_only queue
Reading  == {"check", "poll", "wait", "ro", "ex", "leave"}

N == Cardinality(Threads)
Waiting == {t \in Threads : thr[t] = "wait"}
Busy    == {t \in Threads : thr[t] \in Reading}

\* The switch handlers in the priority queue, and the first of those in S.
Queued == ToSet(order) \ (ToSet(io) \cup {armed})
IsHighest(h, S) ==
  \E i \in DOMAIN order :
    /\ h = order[i] /\ h \in Queued \cap S
    /\ \A j \in 1..i - 1 : order[j] \notin Queued \cap S
HighestOf(S) == {h \in Handlers : IsHighest(h, S)}
Without(s, h) == RemoveAt(s, CHOOSE i \in DOMAIN s : s[i] = h)

\* The loop condition of read_only_execution_task, and should_exit.
MustExit == expired \/ received

WInit ==
  /\ window = "write" /\ expired = FALSE /\ received = FALSE /\ exiting = FALSE
  /\ rw = 0 /\ ro = 0 /\ ex = 0 /\ exhausted = 0
  /\ order = <<"to_read">> /\ io = <<>> /\ armed = "to_read" /\ aborted = {}
  /\ thr = [t \in Threads |-> "idle"] /\ notified = {}
  /\ todo = 0 /\ active = 0 /\ futs = FALSE /\ mine = {}
  /\ main = "loop" /\ failed = FALSE /\ posts = 0 /\ retries = 0

\* exec_pri_queue::add wakes one waiting thread.
NotifyOne(w, n) ==
  \/ w \subseteq n /\ notified' = n
  \/ \E t \in w \ n : notified' = n \cup {t}

-----------------------------------------------------------------------------
\* Tasks from API threads, the net plugin and others.

PostTask ==
  /\ posts < MaxPosts /\ main \notin {"stopping", "stopped"}
  /\ \/ /\ rw' = rw + 1 /\ UNCHANGED <<ro, ex>>
        /\ received' \in {received, TRUE}
     \/ ro' = ro + 1 /\ UNCHANGED <<rw, ex, received>>
     \/ ex' = ex + 1 /\ UNCHANGED <<rw, ro, received>>
  /\ NotifyOne(Waiting, notified)
  /\ posts' = posts + 1
  /\ UNCHANGED <<window, expired, exiting, exhausted, timers, thr, todo,
                 active, futs, mine, main, failed, retries>>

\* The effective deadline; the timer of a read window is set a little later.
DeadlinePasses ==
  /\ ~expired /\ main # "stopped"
  /\ expired' = TRUE
  /\ UNCHANGED <<window, received, exiting, queues, timers, pool, main, failed,
                 bounds>>

TimerExpires ==
  /\ armed # "none" /\ expired
  /\ io' = Append(io, armed) /\ armed' = "none"
  /\ UNCHANGED <<window, expired, received, exiting, queues, order, aborted,
                 pool, main, failed, bounds>>

\* (mutant) add does not notify.
DispatchSilently ==
  /\ io # <<>>
  /\ main = "loop" \/ \E t \in Threads : thr[t] = "poll"
  /\ io' = Tail(io)
  /\ UNCHANGED <<window, expired, received, exiting, queues, order, armed,
                 aborted, pool, main, failed, bounds>>

\* poll() and run_one() of the io_service, by the main or by a pool thread.
Dispatch ==
  /\ io # <<>>
  /\ main = "loop" \/ \E t \in Threads : thr[t] = "poll"
  /\ io' = Tail(io)
  /\ NotifyOne(Waiting, notified)
  /\ UNCHANGED <<window, expired, received, exiting, queues, order, armed,
                 aborted, thr, todo, active, futs, mine, main, failed, bounds>>

-----------------------------------------------------------------------------
\* Switching windows, on the main thread.  h is the handler that runs, f says
\* whether futures are left in the vector when it gets here.

Arm(h, rest, new) ==
  /\ order' = Append(rest, new) /\ armed' = new
  /\ io' = IF armed = "none" THEN io ELSE Append(io, armed)
  /\ aborted' = (aborted \ {h}) \cup ({armed} \ {"none"})

start_write_window(h) ==
  /\ window' = "write" /\ expired' = FALSE
  /\ Arm(h, Without(order, h), "to_read")
  /\ UNCHANGED exiting

Drop(h) ==
  /\ order' = Without(order, h) /\ aborted' = aborted \ {h}
  /\ UNCHANGED <<window, expired, exiting, io, armed>>

switch_to_write_window(h, f) ==
  IF window = "read" /\ active = 0 /\ ~f
  THEN start_write_window(h) /\ UNCHANGED failed
  ELSE Drop(h) /\ failed' = (failed \/ window = "read")

\* poll() puts everything ready into the queues; without read-only tasks the
\* write window goes on.
switch_to_read_window ==
  LET h == "to_read"
      none == ro + ex = 0 /\ ToSet(order) \cap ReadOnly = {}
  IN  IF window # "write" \/ active # 0 \/ futs
      THEN /\ Drop(h) /\ failed' = TRUE
           /\ UNCHANGED <<notified, todo, active, futs, mine>>
      ELSE IF none
      THEN /\ start_write_window(h)
           /\ UNCHANGED <<notified, todo, active, futs, mine, failed>>
      ELSE /\ window' = "read" /\ expired' = FALSE /\ exiting' = FALSE
           /\ active' = N /\ todo' = todo + N /\ futs' = TRUE /\ mine' = {}
           /\ order' = Append(Without(order, h), "timer") /\ armed' = "timer"
           /\ io' = <<>> /\ aborted' = aborted \ {h}
           /\ failed' = (failed \/ Waiting # {})
           /\ UNCHANGED notified

-----------------------------------------------------------------------------
\* The main thread: the switch handlers, which come before all other tasks.

MainToRead ==
  /\ main = "loop" /\ window = "write"
  /\ "to_read" \in HighestOf(Handlers)
  /\ switch_to_read_window
  /\ UNCHANGED <<received, queues, thr, main, bounds>>

\* The handlers that the main thread may take in the present window.
Takes == IF window = "write" THEN Handlers ELSE ReadOnly

MainTimer ==
  /\ main = "loop" /\ "timer" \in HighestOf(Takes)
  /\ \/ /\ "timer" \notin aborted
        /\ main' = "get"
        /\ UNCHANGED <<window, expired, exiting, timers, futs, mine>>
     \/ /\ "timer" \in aborted
        /\ futs' = FALSE /\ mine' = {}
        /\ Drop("timer") /\ UNCHANGED main
  /\ UNCHANGED <<received, queues, thr, notified, todo, active, failed, bounds>>

\* (mutant) The futures are cleared without waiting for them.
MainGotEarly ==
  /\ main = "get"
  /\ main' = "loop"
  /\ futs' = FALSE /\ mine' = {}
  /\ switch_to_write_window("timer", FALSE)
  /\ UNCHANGED <<received, queues, thr, notified, todo, active, bounds>>

\* The main thread has been in task.get() for every future.
MainGot ==
  /\ main = "get" /\ mine = {} /\ (futs => todo = 0)
  /\ main' = "loop"
  /\ futs' = FALSE /\ UNCHANGED mine
  /\ switch_to_write_window("timer", FALSE)
  /\ UNCHANGED <<received, queues, thr, notified, todo, active, bounds>>

MainLast ==
  /\ main = "loop" /\ "last" \in HighestOf(Takes)
  /\ futs' = FALSE /\ mine' = {}
  /\ switch_to_write_window("last", FALSE)
  /\ UNCHANGED <<received, queues, thr, notified, todo, active, main, bounds>>

\* (mutant) execute_highest does not look at the window.
MainTaskAny ==
  /\ main = "loop" /\ HighestOf(Takes) = {}
  /\ \/ rw > 0 /\ main' = "rw" /\ rw' = rw - 1 /\ UNCHANGED ro
     \/ ro > 0 /\ main' = "ro" /\ ro' = ro - 1 /\ UNCHANGED rw
  /\ UNCHANGED <<window, expired, received, exiting, ex, exhausted, timers,
                 pool, failed, bounds>>

MainTask ==
  /\ main = "loop" /\ HighestOf(Takes) = {}
  /\ \/ window = "write" /\ rw > 0 /\ main' = "rw" /\ rw' = rw - 1 /\ UNCHANGED ro
     \/ ro > 0 /\ main' = "ro" /\ ro' = ro - 1 /\ UNCHANGED rw
  /\ UNCHANGED <<window, expired, received, exiting, ex, exhausted, timers,
                 pool, failed, bounds>>

\* A write task may push the block that was received, and start_block then
\* calls repost_exhausted_transactions.
MainTaskEnds ==
  /\ \/ /\ main = "rw"
        /\ received' \in {received, FALSE}
        /\ \E k \in 0..exhausted : ex' = ex + k /\ exhausted' = exhausted - k
     \/ main = "ro" /\ UNCHANGED <<received, ex, exhausted>>
  /\ main' = "loop"
  /\ UNCHANGED <<window, expired, exiting, rw, ro, timers, pool, failed, bounds>>

\* (mutant) stop() sets the flag and notifies nobody.
shutdown_silently ==
  /\ main = "loop"
  /\ main' = "stopping"
  /\ io' = IF armed = "none" THEN io ELSE Append(io, armed)
  /\ armed' = "none" /\ aborted' = aborted \cup ({armed} \ {"none"})
  /\ exiting' = TRUE /\ todo' = 0
  /\ UNCHANGED <<window, expired, received, queues, order, thr, notified, active,
                 futs, mine, failed, bounds>>

\* plugin_shutdown: the timer is cancelled, executor().stop() wakes every
\* thread, tasks that have not begun are dropped, and the threads are joined.
plugin_shutdown ==
  /\ main = "loop"
  /\ main' = "stopping"
  /\ io' = IF armed = "none" THEN io ELSE Append(io, armed)
  /\ armed' = "none" /\ aborted' = aborted \cup ({armed} \ {"none"})
  /\ exiting' = TRUE /\ notified' = Waiting /\ todo' = 0
  /\ UNCHANGED <<window, expired, received, queues, order, thr, active, futs,
                 mine, failed, bounds>>

Joined ==
  /\ main = "stopping" /\ \A t \in Threads : thr[t] = "idle"
  /\ main' = "stopped"
  /\ UNCHANGED <<window, expired, received, exiting, queues, timers, pool,
                 failed, bounds>>

-----------------------------------------------------------------------------
\* A thread of the pool.

Goto(t, s) == thr' = [thr EXCEPT ![t] = s]

Begin(t) ==
  /\ thr[t] = "idle" /\ todo > 0
  /\ todo' = todo - 1 /\ Goto(t, "check")
  /\ mine' = IF futs THEN mine \cup {t} ELSE mine
  /\ UNCHANGED <<window, expired, received, exiting, queues, timers, notified,
                 active, futs, main, failed, bounds>>

Check(t) ==
  /\ thr[t] = "check"
  /\ Goto(t, IF MustExit THEN "leave" ELSE "poll")
  /\ UNCHANGED <<window, expired, received, exiting, queues, timers, notified,
                 todo, active, futs, mine, main, failed, bounds>>

\* execute_highest_blocking_locked from the evaluation of the wait condition
\* on, W being the threads counted in num_waiting_.  should_exit_ must not be
\* called in a write window.
WaitCondition(t, W) ==
  LET exit  == exiting \/ MustExit
      empty == ro + ex = 0 /\ Queued \cap ReadOnly = {}
      out   == exit \/ (empty /\ W = Threads)
  IN  /\ exiting' = out
      /\ failed' = (failed \/ window = "write" \/ (~out /\ Queued \cap ReadOnly # {}))
      /\ IF out
         THEN /\ Goto(t, "leave")
              /\ notified' = (IF exiting THEN notified ELSE W) \ {t}
              /\ UNCHANGED <<ro, ex>>
         ELSE IF empty
         THEN /\ Goto(t, "wait") /\ notified' = notified \ {t}
              /\ UNCHANGED <<ro, ex>>
         ELSE /\ notified' = notified \ {t}
              /\ \/ ro > 0 /\ ro' = ro - 1 /\ Goto(t, "ro") /\ UNCHANGED ex
                 \/ ex > 0 /\ ex' = ex - 1 /\ Goto(t, "ex") /\ UNCHANGED ro

execute_highest_blocking_locked(t) ==
  /\ \/ thr[t] = "poll"
     \/ thr[t] = "wait" /\ t \in notified
  /\ WaitCondition(t, Waiting \cup {t})
  /\ UNCHANGED <<window, expired, received, rw, exhausted, timers, todo, active,
                 futs, mine, main, bounds>>

\* A task ends; execute_highest_read goes on for a while before it returns to
\* the loop.  A transaction may be put off (push_read_only_transaction).
TaskEnds(t) ==
  /\ \/ thr[t] = "ro" /\ UNCHANGED <<exhausted, retries, failed>>
     \/ /\ thr[t] = "ex"
        /\ failed' = (failed \/ window = "write")
        /\ \/ UNCHANGED <<exhausted, retries>>
           \/ /\ retries < MaxRetries
              /\ retries' = retries + 1 /\ exhausted' = exhausted + 1
  /\ \/ Goto(t, "poll")
     \/ Goto(t, "check")
  /\ UNCHANGED <<window, expired, received, exiting, rw, ro, ex, timers,
                 notified, todo, active, futs, mine, main, posts>>

\* (mutant) Every thread that leaves asks for the write window.
LeaveEach(t) ==
  /\ thr[t] = "leave"
  /\ active' = active - 1
  /\ Goto(t, "post")
  /\ UNCHANGED <<window, expired, received, exiting, queues, timers, notified,
                 todo, futs, mine, main, failed, bounds>>

\* The end of read_only_execution_task.  The future is ready when it returns.
Leave(t) ==
  /\ thr[t] = "leave"
  /\ active' = active - 1
  /\ IF active = 1
     THEN Goto(t, "post") /\ UNCHANGED mine
     ELSE Goto(t, "idle") /\ mine' = mine \ {t}
  /\ UNCHANGED <<window, expired, received, exiting, queues, timers, notified,
                 todo, futs, main, failed, bounds>>

PostLast(t) ==
  /\ thr[t] = "post"
  /\ order' = Append(order, "last") /\ io' = Append(io, "last")
  /\ Goto(t, "repost")
  /\ UNCHANGED <<window, expired, received, exiting, queues, armed, aborted,
                 notified, todo, active, futs, mine, main, failed, bounds>>

Repost(t) ==
  /\ thr[t] = "repost"
  /\ ex' = ex + exhausted /\ exhausted' = 0
  /\ NotifyOne(Waiting, notified)
  /\ Goto(t, "idle") /\ mine' = mine \ {t}
  /\ UNCHANGED <<window, expired, received, exiting, rw, ro, timers, todo,
                 active, futs, main, failed, bounds>>

Thread(t) ==
  \/ Begin(t) \/ Check(t) \/ execute_highest_blocking_locked(t)
  \/ TaskEnds(t) \/ Leave(t) \/ PostLast(t) \/ Repost(t)

Main ==
  \/ MainToRead \/ MainTimer \/ MainGot \/ MainLast
  \/ MainTask \/ MainTaskEnds \/ Joined

WNext ==
  \/ PostTask \/ DeadlinePasses \/ TimerExpires \/ Dispatch
  \/ Main \/ plugin_shutdown
  \/ \E t \in Threads : Thread(t)
  \/ main = "stopped" /\ UNCHANGED wvars

WSpec == WInit /\ [][WNext]_wvars

\* Threads run, timers fire and the io_service is polled.  A write window (200
\* ms by default) does not always end before the main thread got to the switch
\* handlers left over and to a task.
Fresh == window = "write" /\ ~expired

WFairSpec ==
  /\ WSpec
  /\ WF_wvars(DeadlinePasses) /\ WF_wvars(TimerExpires) /\ WF_wvars(Dispatch)
  /\ WF_wvars(Main)
  /\ \A t \in Threads : WF_wvars(Thread(t))
  /\ SF_wvars(Fresh /\ Dispatch) /\ SF_wvars(Fresh /\ MainTimer)
  /\ SF_wvars(Fresh /\ MainLast) /\ SF_wvars(Fresh /\ MainTask)

-----------------------------------------------------------------------------
\* Every variable has its type; no switch handler is alive twice.
WTypeOK ==
  /\ window \in {"read", "write"}
  /\ expired \in BOOLEAN /\ received \in BOOLEAN /\ exiting \in BOOLEAN
  /\ rw \in Nat /\ ro \in Nat /\ ex \in Nat /\ exhausted \in Nat
  /\ order \in Seq(Handlers) /\ io \in Seq(Handlers)
  /\ IsInjective(order) /\ IsInjective(io) /\ ToSet(io) \subseteq ToSet(order)
  /\ armed \in Handlers \cup {"none"} /\ aborted \subseteq Handlers
  /\ thr \in [Threads -> Reading \cup {"idle", "post", "repost"}]
  /\ notified \subseteq Waiting /\ mine \subseteq Threads
  /\ todo \in Nat /\ active \in 0..N
  /\ futs \in BOOLEAN /\ failed \in BOOLEAN
  /\ main \in {"loop", "get", "rw", "ro", "stopping", "stopped"}

\* While a task of the read_write queue runs, no pool thread executes, takes or
\* waits for tasks: "Multi-thread safe as long as nothing is executed from the
\* read_write queue" (exec_pri_queue.hpp).
NoWriteWhileReading == main = "rw" => Busy = {} /\ todo = 0

\* The assertions of the window switch hold, should_exit_ is not called in a
\* write window, and no pool thread takes a handler that switches windows,
\* whatever handlers of earlier windows are still on their way.
SwitchAssertsHold == ~failed

\* Every task of the read_write and read_only queues is executed in the end,
\* whatever window it was posted in, unless the node stops: no wake-up is lost,
\* no window lasts for ever and the timer is always set again.
EveryTaskRuns ==
  (rw + ro > 0) ~> (rw + ro = 0 \/ main \in {"stopping", "stopped"})

\* Shutdown joins the pool whatever its threads were doing.
ShutdownEnds == main = "stopping" ~> main = "stopped"
=============================================================================
