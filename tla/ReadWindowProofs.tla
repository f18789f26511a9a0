-------------------------- MODULE ReadWindowProofs --------------------------
(***************************************************************************)
(* For every size of the read-only thread pool: no write task runs while a *)
(* pool thread is reading, and the assertions about the windows never      *)
(* fail.                                                                   *)
(***************************************************************************)
EXTENDS ReadWindow, FiniteSetTheorems, TLAPS

States == Reading \cup {"idle", "post", "repost"}

\* The inductive invariant.  _ro_num_active_exec_tasks counts at least the
\* tasks that wait for a thread and the threads that have not left the loop,
\* and it is zero in a write window.  (It counts more only in a shutdown, which
\* drops the tasks that have not begun.)
WInv ==
  /\ thr \in [Threads -> States]
  /\ todo \in Nat /\ active \in Nat
  /\ window \in {"read", "write"}
  /\ Cardinality(Busy) + todo <= active
  /\ window = "write" => active = 0
  /\ main = "rw" => window = "write"

\* The threads that read are finitely many.
LEMMA BusyFinite == IsFiniteSet(Busy) /\ Cardinality(Busy) \in Nat
BY ThreadsAssumption, FS_Subset, FS_CardinalityType DEF Busy

\* A thread that stays in the loop, or stays out of it, leaves Busy alone.
LEMMA BusySame ==
  ASSUME thr \in [Threads -> States], NEW t \in Threads, NEW s \in States,
         thr' = [thr EXCEPT ![t] = s], thr[t] \in Reading <=> s \in Reading
  PROVE  thr' \in [Threads -> States] /\ Busy' = Busy
BY DEF Busy

\* A thread that begins a task.
LEMMA BusyBegin ==
  ASSUME thr \in [Threads -> States], NEW t \in Threads,
         thr' = [thr EXCEPT ![t] = "check"], thr[t] = "idle"
  PROVE  /\ thr' \in [Threads -> States]
         /\ Cardinality(Busy') = Cardinality(Busy) + 1
<1>1. thr' \in [Threads -> States] /\ Busy' = Busy \cup {t} /\ t \notin Busy
  BY DEF Busy, States, Reading
<1> QED
  BY <1>1, BusyFinite, FS_AddElement, Zenon

\* A thread that leaves the loop.
LEMMA BusyLeave ==
  ASSUME thr \in [Threads -> States], NEW t \in Threads, NEW s \in {"post", "idle"},
         thr' = [thr EXCEPT ![t] = s], thr[t] = "leave"
  PROVE  /\ thr' \in [Threads -> States]
         /\ Cardinality(Busy') = Cardinality(Busy) - 1
<1>1. thr' \in [Threads -> States] /\ Busy' = Busy \ {t} /\ t \in Busy
  BY DEF Busy, States, Reading
<1> QED
  BY <1>1, BusyFinite, FS_RemoveElement, Zenon

\* Opening a read window: a task for each thread, and nobody is busy yet.
LEMMA ReadWindowInv ==
  ASSUME WInv, MainToRead
  PROVE  WInv'
<1>1. N \in Nat
  BY ThreadsAssumption, FS_CardinalityType DEF N
<1>2. Busy' = Busy /\ Cardinality(Busy) \in Nat
  BY BusyFinite DEF Busy, MainToRead
<1> QED
  BY <1>1, <1>2
  DEF WInv, MainToRead, switch_to_read_window, start_write_window, Drop

\* Opening a write window is refused while a task is active.
LEMMA WriteWindowInv ==
  ASSUME WInv, NEW h, NEW f, switch_to_write_window(h, f),
         UNCHANGED <<thr, todo, active>>, main # "rw", main' = "loop"
  PROVE  WInv'
<1>1. Busy' = Busy
  BY DEF Busy
<1> QED
  BY <1>1 DEF WInv, switch_to_write_window, start_write_window, Drop

\* A step of a pool thread.
LEMMA ThreadInv ==
  ASSUME WInv, NEW t \in Threads, Thread(t)
  PROVE  WInv'
<1>1. CASE Begin(t)
  <2>1. Cardinality(Busy') = Cardinality(Busy) + 1 /\ thr' \in [Threads -> States]
    BY <1>1, BusyBegin, Zenon DEF Begin, Goto, WInv
  <2> QED
    BY <1>1, <2>1, BusyFinite DEF Begin, WInv
<1>2. CASE Leave(t)
  <2>1. Cardinality(Busy') = Cardinality(Busy) - 1 /\ thr' \in [Threads -> States]
    BY <1>2, BusyLeave DEF Leave, Goto, WInv
  <2>2. t \in Busy /\ Cardinality(Busy) # 0
    BY <1>2, BusyFinite, FS_EmptySet DEF Leave, Busy, Reading
  <2> QED
    BY <1>2, <2>1, <2>2, BusyFinite DEF Leave, WInv
<1>3. CASE Check(t) \/ execute_highest_blocking_locked(t) \/ TaskEnds(t)
  <2>1. PICK s \in Reading : thr' = [thr EXCEPT ![t] = s]
    BY <1>3 DEF Check, execute_highest_blocking_locked, WaitCondition, TaskEnds,
                Goto, Reading
  <2>2. thr[t] \in Reading
    BY <1>3 DEF Check, execute_highest_blocking_locked, TaskEnds, Reading
  <2>3. Busy' = Busy /\ thr' \in [Threads -> States]
    BY <2>1, <2>2, BusySame, Zenon DEF States, WInv
  <2>4. UNCHANGED <<window, todo, active, main>>
    BY <1>3 DEF Check, execute_highest_blocking_locked, TaskEnds
  <2> QED
    BY <2>3, <2>4 DEF WInv
<1>4. CASE PostLast(t) \/ Repost(t)
  <2>1. PICK s \in {"repost", "idle"} : thr' = [thr EXCEPT ![t] = s]
    BY <1>4 DEF PostLast, Repost, Goto
  <2>2. Busy' = Busy /\ thr' \in [Threads -> States]
    BY <1>4, <2>1, BusySame, Zenon DEF PostLast, Repost, States, Reading, WInv
  <2>3. UNCHANGED <<window, todo, active, main>>
    BY <1>4 DEF PostLast, Repost
  <2> QED
    BY <2>2, <2>3 DEF WInv
<1> QED
  BY <1>1, <1>2, <1>3, <1>4 DEF Thread

\* Every step of the main thread, the pool and the timers preserves it.
LEMMA WInvNext ==
  ASSUME WInv, [WNext]_wvars
  PROVE  WInv'
<1>1. CASE UNCHANGED <<thr, todo, active, window, main>>
  BY <1>1 DEF WInv, Busy
<1>2. CASE \E t \in Threads : Thread(t)
  BY <1>2, ThreadInv
<1>3. CASE MainToRead
  BY <1>3, ReadWindowInv
<1>4. CASE MainGot
  BY <1>4, WriteWindowInv, Zenon DEF MainGot
<1>5. CASE MainLast
  BY <1>5, WriteWindowInv, Zenon DEF MainLast
<1>6. CASE MainTimer \/ MainTask \/ MainTaskEnds \/ Joined
  <2>1. Busy' = Busy
    BY <1>6, Zenon DEF MainTimer, MainTask, MainTaskEnds, Joined, pool, Busy
  <2> QED
    BY <1>6, <2>1, Zenon
    DEF WInv, MainTimer, MainTask, MainTaskEnds, Joined, pool, Drop
<1>7. CASE plugin_shutdown
  <2>1. Busy' = Busy /\ Cardinality(Busy) \in Nat
    BY <1>7, BusyFinite DEF plugin_shutdown, Busy
  <2> QED
    BY <1>7, <2>1 DEF plugin_shutdown, WInv
<1>8. CASE PostTask \/ DeadlinePasses \/ TimerExpires \/ Dispatch
  BY <1>1, <1>8, Zenon DEF PostTask, DeadlinePasses, TimerExpires, Dispatch, pool
<1>9. CASE UNCHANGED wvars
  BY <1>1, <1>9 DEF wvars, pool
<1> QED
  BY <1>2, <1>3, <1>4, <1>5, <1>6, <1>7, <1>8, <1>9 DEF WNext, Main

\* Initially nobody reads; every step preserves the invariant.
THEOREM WInvHolds == WSpec => []WInv
<1>1. WInit => WInv
  <2> SUFFICES ASSUME WInit PROVE WInv
    OBVIOUS
  <2>1. Busy = {}
    BY DEF WInit, Busy, Reading
  <2> QED
    BY <2>1, FS_EmptySet DEF WInit, WInv, States
<1>2. WInv /\ [WNext]_wvars => WInv'
  BY WInvNext
<1> QED
  BY <1>1, <1>2, PTL DEF WSpec

\* The property that the run read_windows checks for two threads: no task of
\* the read_write queue runs while a pool thread takes or executes tasks.
THEOREM WriteIsExclusive == WSpec => []NoWriteWhileReading
<1>1. WInv => NoWriteWhileReading
  BY BusyFinite, FS_EmptySet DEF WInv, NoWriteWhileReading
<1> QED
  BY <1>1, WInvHolds, PTL

-----------------------------------------------------------------------------
(***************************************************************************)
(* The switch of the windows.  The handlers that have not run, in their    *)
(* order, together with where they wait, take few forms, whatever the      *)
(* number of threads and tasks.                                            *)
(***************************************************************************)
\* The main thread has not left the loop of the executor.
Running == main \notin {"stopping", "stopped"}

\* In a read window its timer is the oldest handler, and "last" may be behind.
ReadHandlers(o, a, q) ==
  \/ o = <<"timer">> /\ a = "timer" /\ q = <<>>
  \/ o = <<"timer">> /\ a = "none" /\ q \in {<<>>, <<"timer">>}
  \/ o = <<"timer", "last">> /\ a = "timer" /\ q \in {<<>>, <<"last">>}
  \/ o = <<"timer", "last">> /\ a = "none"
     /\ q \in {<<>>, <<"timer">>, <<"last">>, <<"timer", "last">>, <<"last", "timer">>}

\* In a write window "to_read" is the newest handler, and at most one of the
\* read window before it is left over.
WriteHandlers(o, a, q) ==
  \/ o = <<"to_read">> /\ a = "to_read" /\ q = <<>>
  \/ o = <<"to_read">> /\ a = "none" /\ q \in {<<>>, <<"to_read">>}
  \/ \E x \in ReadOnly :
       \/ o = <<x, "to_read">> /\ a = "to_read" /\ q \in {<<>>, <<x>>}
       \/ o = <<x, "to_read">> /\ a = "none" /\ q \in {<<>>, <<"to_read">>, <<x, "to_read">>}

\* "timer" is the oldest handler, and in the priority queue.
TimerFirst(o, a, q) ==
  o[1] = "timer" /\ a # "timer" /\ q \in {<<>>, <<"last">>, <<"to_read">>}

\* The last thread to leave posts "last" once, when no task is active; until
\* then the main thread has the futures of every thread that reads.
ReadInv ==
  /\ ReadHandlers(order, armed, io)
  /\ order = <<"timer", "last">> => active = 0
  /\ \A t \in Threads : thr[t] = "post" => active = 0 /\ order = <<"timer">>
  /\ \A t, u \in Threads : thr[t] = "post" /\ thr[u] = "post" => t = u
  /\ Running => /\ futs /\ aborted = {} /\ active = Cardinality(Busy) + todo
                /\ ~expired => armed = "timer"
                /\ \A t \in Threads : thr[t] \in Reading \cup {"post"} => t \in mine

\* No future is left in a write window, and only a cancelled read timer's
\* handler is called with operation_aborted.
WriteInv ==
  /\ WriteHandlers(order, armed, io) /\ ~futs
  /\ \A t \in Threads : thr[t] # "post"
  /\ Running => aborted = {} \/ (aborted = {"timer"} /\ order = <<"timer", "to_read">>)

\* The two windows; "get" is the read timer's handler in task.get().
SwitchInv ==
  /\ window = "read" => ReadInv
  /\ window = "write" => WriteInv
  /\ main = "get" => TimerFirst(order, armed, io)
  /\ ~Running => exiting
  /\ ~failed

\* Sequences of one and two handlers.
LEMMA OneElement ==
  ASSUME NEW S, NEW s \in Seq(S), Len(s) = 1
  PROVE  s = <<s[1]>>
OBVIOUS

\* The same with two.
LEMMA TwoElements ==
  ASSUME NEW S, NEW s \in Seq(S), Len(s) = 2
  PROVE  s = <<s[1], s[2]>>
<1>1. DOMAIN s = 1..2 /\ s = [i \in 1..2 |-> s[i]]
  OBVIOUS
<1>2. PICK x, y : x = s[1] /\ y = s[2]
  OBVIOUS
<1>3. <<x, y>> = [i \in 1..2 |-> <<x, y>>[i]]
  OBVIOUS
<1>4. \A i \in 1..2 : s[i] = <<x, y>>[i]
  BY <1>2
<1> QED BY <1>1, <1>2, <1>3, <1>4

\* What the queues do with them: a handler is added behind, taken from the front
\* of the io_service, or leaves from any place.
LEMMA AppendFacts ==
  ASSUME NEW x, NEW y
  PROVE  /\ Append(<<>>, y) = <<y>> /\ Append(<<x>>, y) = <<x, y>>
         /\ Tail(<<x>>) = <<>> /\ Tail(<<x, y>>) = <<y>>
<1>1. PICK s : s = Append(<<x>>, y)
  BY Zenon
<1>2. s \in Seq({x, y}) /\ Len(s) = 2 /\ s[1] = x /\ s[2] = y
  BY <1>1
<1>3. Append(<<x>>, y) = <<x, y>>
  BY <1>1, <1>2, TwoElements, Zenon
<1>4. Tail(<<x, y>>) = <<y>>
  OBVIOUS
<1>5. Append(<<>>, y) = <<y>> /\ Tail(<<x>>) = <<>>
  OBVIOUS
<1> QED BY <1>3, <1>4, <1>5

\* A handler that ran, taken out of a sequence of at most two.
LEMMA WithoutFacts ==
  ASSUME NEW x, NEW y, x # y
  PROVE  /\ Without(<<x>>, x) = <<>>
         /\ Without(<<x, y>>, x) = <<y>> /\ Without(<<x, y>>, y) = <<x>>
<1>1. PICK r, s : r = SubSeq(<<x, y>>, 2, 2) /\ s = SubSeq(<<x, y>>, 1, 1)
  BY Zenon
<1>2. r \in Seq({x, y}) /\ Len(r) = 1 /\ r[1] = y
  BY <1>1
<1>3. s \in Seq({x, y}) /\ Len(s) = 1 /\ s[1] = x
  BY <1>1
<1>4. SubSeq(<<x, y>>, 2, 2) = <<y>> /\ SubSeq(<<x, y>>, 1, 1) = <<x>>
  BY <1>1, <1>2, <1>3, OneElement, Zenon
<1>5. /\ SubSeq(<<x, y>>, 3, 2) = <<>> /\ SubSeq(<<x, y>>, 1, 0) = <<>>
      /\ SubSeq(<<x>>, 2, 1) = <<>> /\ SubSeq(<<x>>, 1, 0) = <<>>
  OBVIOUS
<1>6. <<>> \o <<y>> = <<y>> /\ <<x>> \o <<>> = <<x>> /\ <<>> \o <<>> = <<>>
  OBVIOUS
<1>7. RemoveAt(<<x>>, 1) = <<>>
  <2>1. Len(<<x>>) = 1
    OBVIOUS
  <2> QED BY <2>1, <1>5, <1>6 DEF RemoveAt
<1>8. RemoveAt(<<x, y>>, 1) = <<y>> /\ RemoveAt(<<x, y>>, 2) = <<x>>
  <2>1. Len(<<x, y>>) = 2
    OBVIOUS
  <2>2. 1 - 1 = 0 /\ 1 + 1 = 2 /\ 2 - 1 = 1 /\ 2 + 1 = 3
    OBVIOUS
  <2>3. /\ RemoveAt(<<x, y>>, 1) = SubSeq(<<x, y>>, 1, 0) \o SubSeq(<<x, y>>, 2, 2)
        /\ RemoveAt(<<x, y>>, 2) = SubSeq(<<x, y>>, 1, 1) \o SubSeq(<<x, y>>, 3, 2)
    BY <2>1, <2>2, Zenon DEF RemoveAt
  <2> QED BY <1>4, <1>5, <1>6, <2>3, Zenon
<1>9. (CHOOSE i \in DOMAIN <<x>> : <<x>>[i] = x) = 1
  OBVIOUS
<1>10. (CHOOSE i \in DOMAIN <<x, y>> : <<x, y>>[i] = x) = 1
  OBVIOUS
<1>11. (CHOOSE i \in DOMAIN <<x, y>> : <<x, y>>[i] = y) = 2
  OBVIOUS
<1> QED BY <1>7, <1>8, <1>9, <1>10, <1>11 DEF Without

\* Where the handlers are.
LEMMA ToSetFacts ==
  ASSUME NEW x, NEW y
  PROVE  ToSet(<<>>) = {} /\ ToSet(<<x>>) = {x} /\ ToSet(<<x, y>>) = {x, y}
BY DEF ToSet

\* The handler that is taken is in the priority queue, and none before it is.
LEMMA HighestFacts ==
  ASSUME NEW h, NEW S, h \in HighestOf(S)
  PROVE  /\ h \in ToSet(order) /\ h \notin ToSet(io) /\ h # armed /\ h \in S
         /\ \A x : order = <<x, h>> /\ x # h => x \notin S \/ x \in ToSet(io) \/ x = armed
<1>1. IsHighest(h, S)
  BY DEF HighestOf
<1>2. PICK i \in DOMAIN order : /\ h = order[i] /\ h \in Queued \cap S
                                /\ \A j \in 1..i - 1 : order[j] \notin Queued \cap S
  BY <1>1 DEF IsHighest
<1>3. ASSUME NEW x, order = <<x, h>>, x # h, x \in S, x \notin ToSet(io), x # armed PROVE FALSE
  <2>1. i = 2 /\ order[1] = x
    BY <1>2, <1>3
  <2>2. 1 \in 1..2 - 1
    OBVIOUS
  <2>3. order[1] \notin Queued \cap S
    BY <1>2, <2>1, <2>2
  <2>4. ToSet(<<x, h>>) = {x, h}
    BY ToSetFacts, Zenon
  <2>5. x \in ToSet(order)
    BY <1>3, <2>4
  <2> QED BY <1>3, <2>1, <2>3, <2>5 DEF Queued
<1> QED BY <1>2, <1>3 DEF Queued

\* The timer expires: its handler goes into the io_service.
LEMMA ExpireMoves ==
  ASSUME NEW o, NEW a, NEW q, a # "none"
  PROVE  /\ ReadHandlers(o, a, q) => ReadHandlers(o, "none", Append(q, a))
         /\ WriteHandlers(o, a, q) => WriteHandlers(o, "none", Append(q, a))
         /\ WriteHandlers(o, a, q) /\ TimerFirst(o, a, q) => TimerFirst(o, "none", Append(q, a))
         /\ ReadHandlers(o, a, q) => ~TimerFirst(o, a, q)
<1>1. ASSUME ReadHandlers(o, a, q)
      PROVE  ReadHandlers(o, "none", Append(q, a)) /\ ~TimerFirst(o, a, q)
  <2>1. a = "timer" /\ (q = <<>> \/ (q = <<"last">> /\ o = <<"timer", "last">>))
    BY <1>1 DEF ReadHandlers
  <2>2. Append(q, a) = <<"timer">> \/ (Append(q, a) = <<"last", "timer">> /\ o = <<"timer", "last">>)
    BY <2>1, AppendFacts, Zenon
  <2>3. o = <<"timer">> \/ o = <<"timer", "last">>
    BY <1>1 DEF ReadHandlers
  <2> QED BY <2>1, <2>2, <2>3, Zenon DEF ReadHandlers, TimerFirst
<1>2. ASSUME WriteHandlers(o, a, q)
      PROVE  /\ WriteHandlers(o, "none", Append(q, a))
             /\ TimerFirst(o, a, q) => TimerFirst(o, "none", Append(q, a))
  <2>1. CASE o = <<"to_read">> /\ a = "to_read" /\ q = <<>>
    BY <2>1, AppendFacts DEF WriteHandlers, TimerFirst
  <2>2. ASSUME NEW x \in ReadOnly, o = <<x, "to_read">>, a = "to_read", q = <<>>
        PROVE  /\ WriteHandlers(o, "none", Append(q, a))
               /\ TimerFirst(o, a, q) => TimerFirst(o, "none", Append(q, a))
    BY <2>2, AppendFacts DEF WriteHandlers, TimerFirst
  <2>3. ASSUME NEW x \in ReadOnly, o = <<x, "to_read">>, a = "to_read", q = <<x>>
        PROVE  /\ WriteHandlers(o, "none", Append(q, a))
               /\ TimerFirst(o, a, q) => TimerFirst(o, "none", Append(q, a))
    <3>1. Append(q, a) = <<x, "to_read">>
      BY <2>3, AppendFacts, Zenon
    <3>2. ~TimerFirst(o, a, q)
      <4>1. o[1] = x /\ <<x>> # <<>> /\ <<x>>[1] = x
        BY <2>3
      <4>2. <<x>> = <<"last">> => x = "last"
        OBVIOUS
      <4>3. <<x>> = <<"to_read">> => x = "to_read"
        OBVIOUS
      <4> QED BY <2>3, <4>1, <4>2, <4>3 DEF TimerFirst
    <3> QED BY <2>3, <3>1, <3>2 DEF WriteHandlers
  <2> QED BY <1>2, <2>1, <2>2, <2>3 DEF WriteHandlers
<1> QED BY <1>1, <1>2

\* The io_service gives its oldest handler to the priority queue.
LEMMA DispatchMoves ==
  ASSUME NEW o, NEW a, NEW q, q # <<>>
  PROVE  /\ ReadHandlers(o, a, q) => ReadHandlers(o, a, Tail(q))
         /\ WriteHandlers(o, a, q) => WriteHandlers(o, a, Tail(q))
         /\ TimerFirst(o, a, q) => TimerFirst(o, a, Tail(q))
<1>1. ASSUME ReadHandlers(o, a, q) PROVE ReadHandlers(o, a, Tail(q))
  <2>1. CASE q \in {<<"timer">>, <<"last">>}
    BY <1>1, <2>1, AppendFacts, Zenon DEF ReadHandlers
  <2>2. CASE q = <<"timer", "last">>
    BY <1>1, <2>2, AppendFacts DEF ReadHandlers
  <2>3. CASE q = <<"last", "timer">>
    BY <1>1, <2>3, AppendFacts DEF ReadHandlers
  <2> QED BY <1>1, <2>1, <2>2, <2>3, Zenon DEF ReadHandlers
<1>2. ASSUME WriteHandlers(o, a, q) PROVE WriteHandlers(o, a, Tail(q))
  <2>1. CASE o = <<"to_read">>
    BY <1>2, <2>1, AppendFacts, Zenon DEF WriteHandlers
  <2>2. ASSUME NEW x \in ReadOnly, o = <<x, "to_read">>, a = "to_read", q = <<x>>
        PROVE  WriteHandlers(o, a, Tail(q))
    BY <2>2, AppendFacts DEF WriteHandlers
  <2>3. ASSUME NEW x \in ReadOnly, o = <<x, "to_read">>, a = "none", q \in {<<"to_read">>, <<x, "to_read">>}
        PROVE  WriteHandlers(o, a, Tail(q))
    BY <2>3, AppendFacts, Zenon DEF WriteHandlers
  <2> QED BY <1>2, <2>1, <2>2, <2>3, Zenon DEF WriteHandlers
<1>3. TimerFirst(o, a, q) => TimerFirst(o, a, Tail(q))
  BY AppendFacts, Zenon DEF TimerFirst
<1> QED BY <1>1, <1>2, <1>3

\* The last thread posts its handler.
LEMMA PostMoves ==
  ASSUME NEW a, NEW q, ReadHandlers(<<"timer">>, a, q)
  PROVE  /\ ReadHandlers(<<"timer", "last">>, a, Append(q, "last"))
         /\ TimerFirst(<<"timer">>, a, q) => TimerFirst(<<"timer", "last">>, a, Append(q, "last"))
<1>1. <<"timer">> # <<"timer", "last">>
  OBVIOUS
<1>2. (a = "timer" /\ q = <<>>) \/ (a = "none" /\ q \in {<<>>, <<"timer">>})
  BY <1>1 DEF ReadHandlers
<1>3. CASE q = <<>>
  BY <1>2, <1>3, AppendFacts DEF ReadHandlers, TimerFirst
<1>4. CASE a = "none" /\ q = <<"timer">>
  <2>1. Append(q, "last") = <<"timer", "last">> /\ q \notin {<<>>, <<"last">>, <<"to_read">>}
    BY <1>4, AppendFacts, Zenon
  <2> QED BY <1>4, <2>1, Zenon DEF ReadHandlers, TimerFirst
<1> QED BY <1>2, <1>3, <1>4, Zenon

-----------------------------------------------------------------------------
\* The types of the variables that the invariants above do not give.
Flags    == expired \in BOOLEAN /\ received \in BOOLEAN /\ exiting \in BOOLEAN
            /\ futs \in BOOLEAN /\ failed \in BOOLEAN
Counters == rw \in Nat /\ ro \in Nat /\ ex \in Nat /\ exhausted \in Nat
Members  == /\ armed \in Handlers \cup {"none"} /\ aborted \subseteq Handlers
            /\ mine \subseteq Threads /\ active <= N
            /\ main \in {"loop", "get", "rw", "ro", "stopping", "stopped"}
TypesInv == Flags /\ Counters /\ Members /\ notified \subseteq Waiting

\* Waking a thread keeps the notified threads among the waiting ones.
LEMMA NotifyFacts ==
  ASSUME notified \subseteq Waiting, NotifyOne(Waiting, notified)
  PROVE  notified' \subseteq Waiting
BY Zenon DEF NotifyOne

\* The flags of the executor and of the producer plugin stay Boolean.
LEMMA FlagsNext ==
  ASSUME Flags, [WNext]_wvars
  PROVE  Flags'
<1> USE DEF Flags
<1>1. CASE UNCHANGED <<expired, received, exiting, futs, failed>>
  BY <1>1, Zenon
<1>2. CASE PostTask
  BY <1>2, Zenon DEF PostTask
<1>3. CASE DeadlinePasses
  BY <1>3, Zenon DEF DeadlinePasses, pool
<1>4. CASE TimerExpires
  BY <1>1, <1>4, Zenon DEF TimerExpires, pool
<1>5. CASE Dispatch
  BY <1>1, <1>5, Zenon DEF Dispatch
<1>6. CASE MainToRead
  BY <1>6, Zenon DEF MainToRead, switch_to_read_window, start_write_window, Drop
<1>7. CASE MainTimer
  BY <1>7, Zenon DEF MainTimer, Drop
<1>8. CASE MainGot
  BY <1>8, Zenon DEF MainGot, switch_to_write_window, start_write_window, Drop
<1>9. CASE MainLast
  BY <1>9, Zenon DEF MainLast, switch_to_write_window, start_write_window, Drop
<1>10. CASE MainTask \/ Joined
  BY <1>1, <1>10, Zenon DEF MainTask, Joined, pool
<1>11. CASE MainTaskEnds
  BY <1>11, Zenon DEF MainTaskEnds, pool
<1>12. CASE plugin_shutdown
  BY <1>12, Zenon DEF plugin_shutdown
<1>13. ASSUME NEW t \in Threads, Thread(t) PROVE Flags'
  <2>1. CASE Begin(t) \/ Check(t) \/ Leave(t) \/ PostLast(t) \/ Repost(t)
    BY <1>1, <2>1, Zenon DEF Begin, Check, Leave, PostLast, Repost
  <2>2. CASE execute_highest_blocking_locked(t)
    BY <2>2, Zenon DEF execute_highest_blocking_locked, WaitCondition
  <2>3. CASE TaskEnds(t)
    BY <2>3, Zenon DEF TaskEnds
  <2> QED BY <1>13, <2>1, <2>2, <2>3, Zenon DEF Thread
<1>14. CASE UNCHANGED wvars
  BY <1>1, <1>14, Zenon DEF wvars, pool
<1> QED
  BY <1>2, <1>3, <1>4, <1>5, <1>6, <1>7, <1>8, <1>9, <1>10, <1>11, <1>12, <1>13,
     <1>14, Zenon DEF WNext, Main

\* The queues never lose more tasks than they hold.
LEMMA CountersNext ==
  ASSUME Counters, [WNext]_wvars
  PROVE  Counters'
<1> USE DEF Counters
<1>1. CASE UNCHANGED <<rw, ro, ex, exhausted>>
  BY <1>1
<1>2. CASE PostTask
  <2>1. /\ rw' \in {rw, rw + 1} /\ ro' \in {ro, ro + 1} /\ ex' \in {ex, ex + 1}
        /\ exhausted' = exhausted
    BY <1>2, Zenon DEF PostTask
  <2> QED BY <2>1
<1>3. CASE DeadlinePasses \/ TimerExpires \/ Dispatch \/ MainToRead \/ MainTimer \/ MainGot
           \/ MainLast \/ plugin_shutdown \/ Joined
  BY <1>1, <1>3, Zenon
  DEF DeadlinePasses, TimerExpires, Dispatch, MainToRead, MainTimer, MainGot, MainLast,
      plugin_shutdown, Joined, queues
<1>4. CASE MainTask
  BY <1>4 DEF MainTask
<1>5. CASE MainTaskEnds
  <2>1. /\ UNCHANGED <<rw, ro>>
        /\ \/ UNCHANGED <<ex, exhausted>>
           \/ \E k \in 0..exhausted : ex' = ex + k /\ exhausted' = exhausted - k
    BY <1>5, Zenon DEF MainTaskEnds
  <2> QED BY <2>1
<1>6. ASSUME NEW t \in Threads, Thread(t) PROVE Counters'
  <2>1. CASE Begin(t) \/ Check(t) \/ Leave(t) \/ PostLast(t)
    BY <1>1, <2>1, Zenon DEF Begin, Check, Leave, PostLast, queues
  <2>2. CASE execute_highest_blocking_locked(t)
    BY <2>2 DEF execute_highest_blocking_locked, WaitCondition
  <2>3. CASE TaskEnds(t)
    BY <2>3 DEF TaskEnds
  <2>4. CASE Repost(t)
    BY <2>4 DEF Repost
  <2> QED BY <1>6, <2>1, <2>2, <2>3, <2>4, Zenon DEF Thread
<1>7. CASE UNCHANGED wvars
  BY <1>1, <1>7, Zenon DEF wvars, queues
<1> QED
  BY <1>2, <1>3, <1>4, <1>5, <1>6, <1>7, Zenon DEF WNext, Main

\* The timer, the threads that are counted, and what the main thread does.
LEMMA MembersNext ==
  ASSUME WInv, Members, [WNext]_wvars
  PROVE  Members'
<1> USE DEF Members
<1>n. N \in Nat /\ N' = N /\ active \in Nat
  BY ThreadsAssumption, FS_CardinalityType DEF N, WInv
<1>h. "timer" \in Handlers /\ "to_read" \in Handlers
  BY DEF Handlers
<1>1. CASE UNCHANGED <<armed, aborted, mine, active, main>>
  BY <1>1, <1>n
<1>2. CASE PostTask \/ DeadlinePasses \/ Dispatch
  BY <1>1, <1>2, Zenon DEF PostTask, DeadlinePasses, Dispatch, timers, pool
<1>3. CASE TimerExpires
  BY <1>3, <1>n DEF TimerExpires, pool
<1>4. CASE MainToRead
  BY <1>4, <1>n, <1>h DEF MainToRead, switch_to_read_window, start_write_window, Drop, Arm
<1>5. CASE MainTimer
  BY <1>5, <1>n DEF MainTimer, Drop, timers
<1>6. CASE MainGot
  BY <1>6, <1>n, <1>h DEF MainGot, switch_to_write_window, start_write_window, Drop, Arm
<1>7. CASE MainLast
  BY <1>7, <1>n, <1>h DEF MainLast, switch_to_write_window, start_write_window, Drop, Arm
<1>8. CASE MainTask \/ MainTaskEnds \/ Joined
  BY <1>8, <1>n, Zenon DEF MainTask, MainTaskEnds, Joined, timers, pool
<1>9. CASE plugin_shutdown
  BY <1>9, <1>n DEF plugin_shutdown
<1>10. ASSUME NEW t \in Threads, Thread(t) PROVE Members'
  <2>1. CASE Check(t) \/ execute_highest_blocking_locked(t) \/ TaskEnds(t) \/ PostLast(t)
    BY <1>1, <2>1, Zenon DEF Check, execute_highest_blocking_locked, TaskEnds, PostLast, timers
  <2>2. CASE Begin(t) \/ Leave(t) \/ Repost(t)
    <3>1. UNCHANGED <<armed, aborted, main>> /\ mine' \subseteq Threads
      BY <2>2 DEF Begin, Leave, Repost, timers
    <3>2. active' = active \/ active' = active - 1
      BY <2>2, Zenon DEF Begin, Leave, Repost
    <3> QED BY <3>1, <3>2, <1>n
  <2> QED BY <1>10, <2>1, <2>2, Zenon DEF Thread
<1>11. CASE UNCHANGED wvars
  BY <1>1, <1>11, Zenon DEF wvars, timers, pool
<1> QED
  BY <1>2, <1>3, <1>4, <1>5, <1>6, <1>7, <1>8, <1>9, <1>10, <1>11, Zenon DEF WNext, Main

\* Only threads in cond_.wait are notified.
LEMMA NotifiedNext ==
  ASSUME WInv, notified \subseteq Waiting, [WNext]_wvars
  PROVE  notified' \subseteq Waiting'
<1>1. CASE UNCHANGED <<thr, notified>>
  BY <1>1, Zenon DEF Waiting
<1>2. CASE thr' = thr /\ NotifyOne(Waiting, notified)
  <2>1. Waiting' = Waiting
    BY <1>2, Zenon DEF Waiting
  <2> QED BY <1>2, <2>1, NotifyFacts, Zenon
<1>3. CASE plugin_shutdown
  BY <1>3 DEF plugin_shutdown, Waiting
<1>4. CASE PostTask \/ Dispatch
  BY <1>2, <1>4, Zenon DEF PostTask, Dispatch
<1>5. CASE DeadlinePasses \/ TimerExpires \/ MainTask \/ MainTaskEnds \/ Joined
  BY <1>1, <1>5, Zenon
  DEF DeadlinePasses, TimerExpires, MainTask, MainTaskEnds, Joined, pool
<1>6. CASE MainToRead \/ MainTimer \/ MainGot \/ MainLast
  BY <1>1, <1>6, Zenon DEF MainToRead, MainTimer, MainGot, MainLast, switch_to_read_window
<1>7. ASSUME NEW t \in Threads, Thread(t) PROVE notified' \subseteq Waiting'
  <2>t. thr \in [Threads -> States]
    BY DEF WInv
  <2>1. ASSUME NEW s, thr' = [thr EXCEPT ![t] = s]
        PROVE  Waiting \ {t} \subseteq Waiting' /\ (s = "wait" => t \in Waiting')
    BY <2>1, <2>t DEF Waiting
  <2>2. CASE execute_highest_blocking_locked(t)
    <3>1. PICK s : thr' = [thr EXCEPT ![t] = s]
      BY <2>2 DEF execute_highest_blocking_locked, WaitCondition, Goto
    <3>2. notified' \subseteq (Waiting \cup {t}) \ {t}
      BY <2>2 DEF execute_highest_blocking_locked, WaitCondition
    <3> QED BY <2>1, <3>1, <3>2, Zenon
  <2>3. CASE Begin(t) \/ Check(t) \/ TaskEnds(t) \/ Leave(t) \/ PostLast(t)
    <3>1. PICK s : thr' = [thr EXCEPT ![t] = s]
      BY <2>3 DEF Begin, Check, TaskEnds, Leave, PostLast, Goto
    <3>2. notified' = notified /\ t \notin Waiting
      BY <2>3 DEF Begin, Check, TaskEnds, Leave, PostLast, Waiting
    <3> QED BY <2>1, <3>1, <3>2, Zenon
  <2>4. CASE Repost(t)
    <3>1. thr' = [thr EXCEPT ![t] = "idle"] /\ NotifyOne(Waiting, notified) /\ t \notin Waiting
      BY <2>4 DEF Repost, Goto, Waiting
    <3> QED BY <2>1, <3>1, NotifyFacts, Zenon
  <2> QED BY <1>7, <2>2, <2>3, <2>4, Zenon DEF Thread
<1>8. CASE UNCHANGED wvars
  BY <1>1, <1>8, Zenon DEF wvars, pool
<1> QED
  BY <1>3, <1>4, <1>5, <1>6, <1>7, <1>8, Zenon DEF WNext, Main

\* Together: every step keeps the types.
LEMMA TypesNext ==
  ASSUME WInv, TypesInv, [WNext]_wvars
  PROVE  TypesInv'
BY FlagsNext, CountersNext, MembersNext, NotifiedNext, Zenon DEF TypesInv

-----------------------------------------------------------------------------

\* "to_read" is taken in a write window only when it is the one handler left.
LEMMA ToReadTurn ==
  ASSUME WriteHandlers(order, armed, io), "to_read" \in HighestOf(Handlers)
  PROVE  order = <<"to_read">> /\ armed = "none" /\ io = <<>>
<1>1. "to_read" \notin ToSet(io) /\ "to_read" # armed
  BY HighestFacts, Zenon
<1>2. "to_read" \in ToSet(<<"to_read">>)
  <2>1. ToSet(<<"to_read">>) = {"to_read"}
    BY ToSetFacts, Zenon
  <2> QED BY <2>1
<1>3. ASSUME NEW x \in ReadOnly, order = <<x, "to_read">>, armed = "none",
             io \in {<<>>, <<"to_read">>, <<x, "to_read">>}
      PROVE  FALSE
  <2>1. "to_read" \in ToSet(<<x, "to_read">>) /\ x \notin ToSet(<<>>)
    <3>1. ToSet(<<x, "to_read">>) = {x, "to_read"} /\ ToSet(<<>>) = {}
      BY ToSetFacts, Zenon
    <3> QED BY <3>1
  <2>2. io = <<>> /\ x # "none" /\ x # "to_read" /\ x \in Handlers
    BY <1>1, <1>2, <1>3, <2>1 DEF ReadOnly, Handlers
  <2> QED BY <1>3, <2>1, <2>2, HighestFacts, Zenon
<1> QED BY <1>1, <1>2, <1>3, Zenon DEF WriteHandlers

\* "timer" is taken when it is the oldest handler; in a write window only
\* "to_read" is then behind it.
LEMMA TimerTurn ==
  ASSUME ReadHandlers(order, armed, io) \/ WriteHandlers(order, armed, io),
         NEW S, "timer" \in HighestOf(S)
  PROVE  /\ TimerFirst(order, armed, io)
         /\ WriteHandlers(order, armed, io) => order = <<"timer", "to_read">>
<1>1. "timer" \in ToSet(order) /\ "timer" \notin ToSet(io) /\ "timer" # armed
  BY HighestFacts, Zenon
<1>2. /\ "timer" \in ToSet(<<"timer">>) /\ "timer" \in ToSet(<<"timer", "last">>)
      /\ "timer" \in ToSet(<<"last", "timer">>) /\ "timer" \in ToSet(<<"timer", "to_read">>)
      /\ "timer" \notin ToSet(<<"to_read">>) /\ "timer" \notin ToSet(<<"last", "to_read">>)
  <2>1. /\ ToSet(<<"timer">>) = {"timer"} /\ ToSet(<<"timer", "last">>) = {"timer", "last"}
        /\ ToSet(<<"last", "timer">>) = {"last", "timer"} /\ ToSet(<<"to_read">>) = {"to_read"}
        /\ ToSet(<<"timer", "to_read">>) = {"timer", "to_read"}
        /\ ToSet(<<"last", "to_read">>) = {"last", "to_read"}
    BY ToSetFacts, Zenon
  <2> QED BY <2>1
<1>3. /\ <<"timer">>[1] = "timer" /\ <<"timer", "last">>[1] = "timer"
      /\ <<"timer", "to_read">>[1] = "timer"
  OBVIOUS
<1>4. CASE ReadHandlers(order, armed, io)
  <2>1. (order = <<"timer">> \/ order = <<"timer", "last">>) /\ io \in {<<>>, <<"last">>}
    BY <1>1, <1>2, <1>4, Zenon DEF ReadHandlers
  <2>2. ~WriteHandlers(order, armed, io)
    <3>1. /\ <<"timer">> # <<"to_read">> /\ <<"timer", "last">> # <<"to_read">>
          /\ \A x : <<"timer">> # <<x, "to_read">> /\ <<"timer", "last">> # <<x, "to_read">>
      OBVIOUS
    <3> QED BY <2>1, <3>1, Zenon DEF WriteHandlers
  <2> QED BY <1>1, <1>3, <2>1, <2>2, Zenon DEF TimerFirst
<1>5. CASE WriteHandlers(order, armed, io)
  <2>1. order = <<"timer", "to_read">> /\ io \in {<<>>, <<"to_read">>}
    BY <1>1, <1>2, <1>5, Zenon DEF WriteHandlers, ReadOnly
  <2> QED BY <1>1, <1>3, <2>1, Zenon DEF TimerFirst
<1> QED BY <1>4, <1>5

\* "last" is taken in a read window before "timer" is in the priority queue;
\* in a write window it is the oldest handler.
LEMMA LastTurn ==
  ASSUME NEW S, "timer" \in S, "last" \in HighestOf(S)
  PROVE  /\ ReadHandlers(order, armed, io) =>
              /\ order = <<"timer", "last">>
              /\ (armed = "timer" /\ io = <<>>) \/ (armed = "none" /\ io = <<"timer">>)
         /\ WriteHandlers(order, armed, io) =>
              /\ order = <<"last", "to_read">>
              /\ WriteHandlers(<<"to_read">>, armed, io)
<1>1. "last" \in ToSet(order) /\ "last" \notin ToSet(io) /\ "last" # armed
  BY HighestFacts, Zenon
<1>2. /\ "last" \notin ToSet(<<"timer">>) /\ "last" \in ToSet(<<"last">>)
      /\ "last" \in ToSet(<<"timer", "last">>) /\ "last" \in ToSet(<<"last", "timer">>)
      /\ "last" \in ToSet(<<"last", "to_read">>)
      /\ "last" \notin ToSet(<<"to_read">>) /\ "last" \notin ToSet(<<"timer", "to_read">>)
      /\ "timer" \notin ToSet(<<>>) /\ "timer" # "none" /\ "timer" # "last"
  <2>1. /\ ToSet(<<"timer">>) = {"timer"} /\ ToSet(<<"timer", "last">>) = {"timer", "last"}
        /\ ToSet(<<"last", "timer">>) = {"last", "timer"} /\ ToSet(<<"to_read">>) = {"to_read"}
        /\ ToSet(<<"timer", "to_read">>) = {"timer", "to_read"} /\ ToSet(<<"last">>) = {"last"}
        /\ ToSet(<<"last", "to_read">>) = {"last", "to_read"} /\ ToSet(<<>>) = {}
    BY ToSetFacts, Zenon
  <2> QED BY <2>1
<1>3. ASSUME ReadHandlers(order, armed, io)
      PROVE  /\ order = <<"timer", "last">>
             /\ (armed = "timer" /\ io = <<>>) \/ (armed = "none" /\ io = <<"timer">>)
  <2>1. order = <<"timer", "last">> /\ io \in {<<>>, <<"timer">>}
    BY <1>1, <1>2, <1>3, Zenon DEF ReadHandlers
  <2>2. "timer" \in ToSet(io) \/ "timer" = armed
    BY <1>2, <2>1, HighestFacts, Zenon
  <2>3. (armed = "timer" /\ io # <<"timer">>) \/ armed = "none"
    <3>1. <<"timer">> # <<>> /\ <<"timer">> # <<"last">>
      OBVIOUS
    <3> QED BY <1>3, <3>1, Zenon DEF ReadHandlers
  <2> QED BY <1>2, <2>1, <2>2, <2>3, Zenon
<1>4. ASSUME WriteHandlers(order, armed, io)
      PROVE  order = <<"last", "to_read">> /\ WriteHandlers(<<"to_read">>, armed, io)
  <2>1. /\ order = <<"last", "to_read">>
        /\ (armed = "to_read" /\ io = <<>>) \/ (armed = "none" /\ io \in {<<>>, <<"to_read">>})
    BY <1>1, <1>2, <1>4, Zenon DEF WriteHandlers, ReadOnly
  <2> QED BY <2>1, Zenon DEF WriteHandlers
<1> QED BY <1>3, <1>4

\* The oldest handler "timer" opens the write window, or leaves a write window
\* as it is.
LEMMA TimerLeaves ==
  ASSUME NEW o, NEW a, NEW q, TimerFirst(o, a, q)
  PROVE  /\ ReadHandlers(o, a, q) =>
              a = "none" /\ WriteHandlers(Append(Without(o, "timer"), "to_read"), "to_read", q)
         /\ WriteHandlers(o, a, q) => WriteHandlers(Without(o, "timer"), a, q)
<1>0. /\ <<"timer">> \notin {<<>>, <<"last">>, <<"to_read">>}
      /\ <<"timer", "last">> \notin {<<>>, <<"last">>, <<"to_read">>}
      /\ <<"last", "timer">> \notin {<<>>, <<"last">>, <<"to_read">>}
      /\ <<"timer", "to_read">> \notin {<<>>, <<"last">>, <<"to_read">>}
      /\ <<"to_read">>[1] # "timer" /\ <<"last", "to_read">>[1] # "timer"
      /\ <<"to_read">> # <<"timer">> /\ <<"to_read">> # <<"last">>
  OBVIOUS
<1>1. ASSUME ReadHandlers(o, a, q)
      PROVE  a = "none" /\ WriteHandlers(Append(Without(o, "timer"), "to_read"), "to_read", q)
  <2>1. a = "none" /\ (q = <<>> \/ (q = <<"last">> /\ o = <<"timer", "last">>))
    BY <1>0, <1>1, Zenon DEF ReadHandlers, TimerFirst
  <2>2. \/ Append(Without(o, "timer"), "to_read") = <<"to_read">> /\ q = <<>>
        \/ Append(Without(o, "timer"), "to_read") = <<"last", "to_read">>
    <3>1. CASE o = <<"timer">>
      <4>1. Without(<<"timer">>, "timer") = <<>>
        <5>1. "timer" # "last"
          OBVIOUS
        <5> QED BY <5>1, WithoutFacts, Zenon
      <4>2. q = <<>>
        <5>1. <<"timer">> # <<"timer", "last">>
          OBVIOUS
        <5> QED BY <2>1, <3>1, <5>1, Zenon
      <4> QED BY <3>1, <4>1, <4>2, AppendFacts, Zenon
    <3>2. CASE o = <<"timer", "last">>
      <4>1. Without(o, "timer") = <<"last">>
        BY <3>2, WithoutFacts, Zenon
      <4> QED BY <4>1, AppendFacts, Zenon
    <3> QED BY <1>1, <3>1, <3>2, Zenon DEF ReadHandlers
  <2> QED BY <2>1, <2>2, Zenon DEF WriteHandlers, ReadOnly
<1>2. ASSUME WriteHandlers(o, a, q) PROVE WriteHandlers(Without(o, "timer"), a, q)
  <2>1. o = <<"timer", "to_read">>
    BY <1>0, <1>2, Zenon DEF WriteHandlers, TimerFirst, ReadOnly
  <2>2. Without(o, "timer") = <<"to_read">>
    BY <2>1, WithoutFacts, Zenon
  <2>3. \A x : <<x, "to_read">> # <<"to_read">>
    OBVIOUS
  <2>4. \/ a = "to_read" /\ q \in {<<>>, <<"timer">>}
        \/ a = "none" /\ q \in {<<>>, <<"to_read">>, <<"timer", "to_read">>}
    <3>1. <<"timer", "to_read">> # <<"to_read">> /\ <<"timer", "to_read">> # <<"last", "to_read">>
      OBVIOUS
    <3> QED BY <1>2, <2>1, <3>1, Zenon DEF WriteHandlers, ReadOnly
  <2>5. (a = "to_read" /\ q = <<>>) \/ (a = "none" /\ q \in {<<>>, <<"to_read">>})
    BY <1>0, <2>4, Zenon DEF TimerFirst
  <2> QED BY <2>2, <2>5, Zenon DEF WriteHandlers
<1> QED BY <1>1, <1>2

\* A thread that takes or executes tasks is counted, so a read window is open.
LEMMA ReaderCounts ==
  ASSUME WInv, NEW t \in Threads, thr[t] \in Reading
  PROVE  window = "read" /\ active # 0
<1>1. t \in Busy /\ Cardinality(Busy) # 0 /\ Cardinality(Busy) \in Nat
  BY BusyFinite, FS_EmptySet DEF Busy
<1> QED BY <1>1 DEF WInv

\* Nobody is counted: no thread reads, and no task waits for one.
LEMMA NobodyCounts ==
  ASSUME WInv, active = 0
  PROVE  Busy = {} /\ Cardinality(Busy) = 0 /\ todo = 0 /\ Waiting = {}
<1>1. Cardinality(Busy) = 0 /\ todo = 0
  BY BusyFinite DEF WInv
<1>2. Busy = {}
  BY <1>1, BusyFinite, FS_EmptySet
<1>3. Waiting \subseteq Busy
  BY DEF Waiting, Busy, Reading
<1> QED BY <1>1, <1>2, <1>3

\* A step that leaves the handlers, the pool and the window alone.
LEMMA SwitchSame ==
  ASSUME SwitchInv,
         UNCHANGED <<window, order, io, armed, aborted, thr, todo, active, futs, mine, exiting,
                     failed>>,
         expired => expired', main' = "get" => main = "get", Running' = Running
  PROVE  SwitchInv'
<1>1. Busy' = Busy
  BY Zenon DEF Busy
<1>2. ReadInv => ReadInv'
  BY <1>1, Zenon DEF ReadInv
<1>3. WriteInv => WriteInv'
  BY Zenon DEF WriteInv
<1> QED BY <1>2, <1>3, Zenon DEF SwitchInv

\* The timer expires.
LEMMA SwitchExpires ==
  ASSUME WInv, SwitchInv, TimerExpires
  PROVE  SwitchInv'
<1>1. /\ armed # "none" /\ expired /\ io' = Append(io, armed) /\ armed' = "none"
      /\ UNCHANGED <<window, expired, exiting, order, aborted, thr, todo, active, futs, mine,
                     main, failed>>
  BY Zenon DEF TimerExpires, pool
<1>2. Busy' = Busy /\ Running' = Running
  BY <1>1, Zenon DEF Busy, Running
<1>3. ReadInv => ReadInv'
  BY <1>1, <1>2, ExpireMoves, Zenon DEF ReadInv
<1>4. WriteInv => WriteInv'
  BY <1>1, <1>2, ExpireMoves, Zenon DEF WriteInv
<1>5. main' = "get" => TimerFirst(order', armed', io')
  <2>1. window = "read" \/ window = "write"
    BY DEF WInv
  <2>2. ReadHandlers(order, armed, io) \/ WriteHandlers(order, armed, io)
    BY <2>1, Zenon DEF SwitchInv, ReadInv, WriteInv
  <2> QED BY <1>1, <2>2, ExpireMoves, Zenon DEF SwitchInv
<1> QED BY <1>1, <1>2, <1>3, <1>4, <1>5, Zenon DEF SwitchInv

\* The io_service is polled.
LEMMA SwitchDispatches ==
  ASSUME SwitchInv, Dispatch
  PROVE  SwitchInv'
<1>1. /\ io # <<>> /\ io' = Tail(io)
      /\ UNCHANGED <<window, expired, exiting, order, armed, aborted, thr, todo, active, futs,
                     mine, main, failed>>
  BY Zenon DEF Dispatch
<1>2. Busy' = Busy /\ Running' = Running
  BY <1>1, Zenon DEF Busy, Running
<1>3. ReadInv => ReadInv'
  BY <1>1, <1>2, DispatchMoves, Zenon DEF ReadInv
<1>4. WriteInv => WriteInv'
  BY <1>1, <1>2, DispatchMoves, Zenon DEF WriteInv
<1>5. TimerFirst(order, armed, io) => TimerFirst(order', armed', io')
  BY <1>1, DispatchMoves, Zenon
<1> QED BY <1>1, <1>2, <1>3, <1>4, <1>5, Zenon DEF SwitchInv

\* plugin_shutdown cancels the timer, whose handler goes into the io_service.
LEMMA SwitchStops ==
  ASSUME SwitchInv, plugin_shutdown
  PROVE  SwitchInv'
<1>1. /\ io' = (IF armed = "none" THEN io ELSE Append(io, armed)) /\ armed' = "none"
      /\ main' = "stopping" /\ exiting' = TRUE
      /\ UNCHANGED <<window, order, thr, active, futs, failed>>
  BY Zenon DEF plugin_shutdown
<1>2. ~Running' /\ main' # "get"
  BY <1>1 DEF Running
<1>3. ReadInv => ReadInv'
  BY <1>1, <1>2, ExpireMoves, Zenon DEF ReadInv
<1>4. WriteInv => WriteInv'
  BY <1>1, <1>2, ExpireMoves, Zenon DEF WriteInv
<1> QED BY <1>1, <1>2, <1>3, <1>4, Zenon DEF SwitchInv

\* switch_to_read_window finds no task active and no thread waiting: it opens
\* the read window, or starts another write window.
LEMMA SwitchReads ==
  ASSUME WInv, SwitchInv, MainToRead
  PROVE  SwitchInv'
<1>1. /\ main = "loop" /\ window = "write" /\ main' = main /\ thr' = thr
      /\ "to_read" \in HighestOf(Handlers) /\ switch_to_read_window
  BY Zenon DEF MainToRead
<1>2. WriteInv /\ ~failed
  BY <1>1, Zenon DEF SwitchInv
<1>3. order = <<"to_read">> /\ armed = "none" /\ io = <<>>
  BY <1>1, <1>2, ToReadTurn, Zenon DEF WriteInv
<1>4. Running /\ Running' /\ main' # "get"
  BY <1>1 DEF Running
<1>5. aborted = {}
  <2>1. <<"to_read">> # <<"timer", "to_read">>
    OBVIOUS
  <2> QED BY <1>2, <1>3, <1>4, <2>1, Zenon DEF WriteInv
<1>6. active = 0 /\ ~futs /\ \A t \in Threads : thr[t] # "post"
  BY <1>1, <1>2, Zenon DEF WInv, WriteInv
<1>7. Busy = {} /\ Cardinality(Busy) = 0 /\ todo = 0 /\ Waiting = {} /\ Busy' = Busy
  BY <1>1, <1>6, NobodyCounts, Zenon DEF Busy
<1>8. Without(order, "to_read") = <<>>
  <2>1. "to_read" # "timer"
    OBVIOUS
  <2> QED BY <1>3, <2>1, WithoutFacts, Zenon
<1>9. CASE start_write_window("to_read") /\ UNCHANGED <<futs, failed>>
  <2>1. /\ window' = "write" /\ order' = <<"to_read">> /\ armed' = "to_read" /\ io' = <<>>
        /\ aborted' = {}
    <3>1. (aborted \ {"to_read"}) \cup ({armed} \ {"none"}) = {}
      BY <1>3, <1>5
    <3> QED BY <1>3, <1>8, <1>9, <3>1, AppendFacts, Zenon DEF start_write_window, Arm
  <2>2. WriteInv'
    BY <1>1, <1>6, <1>9, <2>1, Zenon DEF WriteInv, WriteHandlers
  <2>3. window' # "read"
    BY <2>1
  <2> QED BY <1>2, <1>4, <1>9, <2>2, <2>3, Zenon DEF SwitchInv
<1>10. CASE /\ window' = "read" /\ expired' = FALSE /\ active' = N /\ todo' = todo + N /\ futs' = TRUE
            /\ order' = Append(Without(order, "to_read"), "timer") /\ armed' = "timer"
            /\ io' = <<>> /\ aborted' = aborted \ {"to_read"} /\ failed' = (failed \/ Waiting # {})
  <2>1. order' = <<"timer">> /\ aborted' = {} /\ ~failed'
    <3>1. aborted \ {"to_read"} = {}
      BY <1>5
    <3> QED BY <1>2, <1>7, <1>8, <1>10, <3>1, AppendFacts, Zenon
  <2>2. ReadHandlers(order', armed', io')
    BY <1>10, <2>1, Zenon DEF ReadHandlers
  <2>3. order' # <<"timer", "last">>
    BY <2>1
  <2>4. active' = Cardinality(Busy') + todo'
    <3>1. N \in Nat
      BY ThreadsAssumption, FS_CardinalityType DEF N
    <3> QED BY <1>7, <1>10, <3>1
  <2>5. \A t \in Threads : thr'[t] \notin Reading \cup {"post"}
    BY <1>1, <1>6, <1>7 DEF Busy
  <2>6. ReadInv'
    BY <1>1, <1>6, <1>10, <2>1, <2>2, <2>3, <2>4, <2>5, Zenon DEF ReadInv
  <2>7. window' # "write"
    BY <1>10
  <2> QED BY <1>4, <2>1, <2>6, <2>7, Zenon DEF SwitchInv
<1> QED BY <1>1, <1>6, <1>9, <1>10, Zenon DEF switch_to_read_window

\* The read timer's handler: it waits for the futures, or it was cancelled and
\* leaves a write window as it is.
LEMMA SwitchTimer ==
  ASSUME WInv, SwitchInv, MainTimer
  PROVE  SwitchInv'
<1>1. /\ main = "loop" /\ "timer" \in HighestOf(Takes)
      /\ UNCHANGED <<thr, todo, active, failed, window, expired, exiting>>
  BY Zenon DEF MainTimer, Drop
<1>2. (window = "read" /\ ReadInv) \/ (window = "write" /\ WriteInv)
  BY DEF WInv, SwitchInv
<1>3. /\ TimerFirst(order, armed, io)
      /\ WriteHandlers(order, armed, io) => order = <<"timer", "to_read">>
  <2>1. ReadHandlers(order, armed, io) \/ WriteHandlers(order, armed, io)
    BY <1>2, Zenon DEF ReadInv, WriteInv
  <2> QED BY <1>1, <2>1, TimerTurn, Zenon
<1>4. Busy' = Busy /\ Running /\ window \in {"read", "write"}
  BY <1>1 DEF Busy, Running, WInv
<1>5. CASE "timer" \notin aborted
  <2>1. main' = "get" /\ UNCHANGED <<order, io, armed, aborted, futs, mine>>
    BY <1>5, Zenon DEF MainTimer, timers
  <2>2. Running'
    BY <2>1 DEF Running
  <2>3. ReadInv => ReadInv'
    BY <1>1, <1>4, <2>1, <2>2, Zenon DEF ReadInv
  <2>4. WriteInv => WriteInv'
    BY <1>1, <1>4, <2>1, <2>2, Zenon DEF WriteInv
  <2> QED BY <1>1, <1>3, <2>1, <2>2, <2>3, <2>4, Zenon DEF SwitchInv
<1>6. CASE "timer" \in aborted
  <2>1. window = "write" /\ WriteInv /\ aborted = {"timer"} /\ main' = main /\ ~futs'
        /\ order' = Without(order, "timer") /\ aborted' = aborted \ {"timer"}
        /\ UNCHANGED <<io, armed>>
    BY <1>2, <1>4, <1>6, Zenon DEF ReadInv, WriteInv, MainTimer, Drop
  <2>2. WriteHandlers(order', armed', io')
    BY <1>3, <2>1, TimerLeaves, Zenon DEF WriteInv
  <2>3. aborted' = {} /\ window' # "read" /\ main' # "get" /\ Running'
    BY <1>1, <2>1 DEF Running
  <2>4. WriteInv'
    BY <1>1, <2>1, <2>2, <2>3, Zenon DEF WriteInv
  <2> QED BY <1>1, <2>3, <2>4, Zenon DEF SwitchInv
<1> QED BY <1>5, <1>6

\* The main thread has waited for every future: no task is active.
LEMMA SwitchGot ==
  ASSUME WInv, SwitchInv, MainGot
  PROVE  SwitchInv'
<1>1. /\ main = "get" /\ mine = {} /\ (futs => todo = 0) /\ main' = "loop" /\ ~futs'
      /\ UNCHANGED <<thr, todo, active>> /\ switch_to_write_window("timer", FALSE)
  BY Zenon DEF MainGot
<1>2. TimerFirst(order, armed, io) /\ ~failed
  BY <1>1, Zenon DEF SwitchInv
<1>3. Running /\ Running' /\ main' # "get"
  BY <1>1 DEF Running
<1>4. CASE window = "read"
  <2>1. ReadInv
    BY <1>4, Zenon DEF SwitchInv
  <2>2. Busy = {} /\ \A t \in Threads : thr[t] # "post"
    BY <1>1, <1>3, <2>1 DEF ReadInv, Busy
  <2>3. active = 0
    <3>1. active = Cardinality(Busy) + todo /\ todo = 0
      BY <1>1, <1>3, <2>1, Zenon DEF ReadInv
    <3>2. Cardinality(Busy) = 0
      BY <2>2, FS_EmptySet
    <3> QED BY <3>1, <3>2
  <2>4. start_write_window("timer") /\ failed' = failed
    BY <1>1, <1>4, <2>3, Zenon DEF switch_to_write_window
  <2>5. armed = "none" /\ WriteHandlers(Append(Without(order, "timer"), "to_read"), "to_read", io)
    BY <1>2, <2>1, TimerLeaves, Zenon DEF ReadInv
  <2>6. aborted' = {} /\ io' = io
    <3>1. aborted = {}
      BY <1>3, <2>1, Zenon DEF ReadInv
    <3> QED BY <2>4, <2>5, <3>1 DEF start_write_window, Arm
  <2>7. WriteInv' /\ window' = "write"
    BY <1>1, <2>2, <2>4, <2>5, <2>6, Zenon DEF WriteInv, start_write_window, Arm
  <2>8. window' # "read"
    BY <2>7
  <2> QED BY <1>2, <1>3, <2>4, <2>7, <2>8, Zenon DEF SwitchInv
<1>5. CASE window = "write"
  <2>1. WriteInv
    BY <1>5, Zenon DEF SwitchInv
  <2>2. Drop("timer") /\ ~failed'
    BY <1>1, <1>2, <1>5, Zenon DEF switch_to_write_window
  <2>3. WriteHandlers(order', armed', io')
    BY <1>2, <2>1, <2>2, TimerLeaves, Zenon DEF WriteInv, Drop
  <2>4. aborted' = {}
    BY <1>3, <2>1, <2>2 DEF WriteInv, Drop
  <2>5. WriteInv' /\ window' = window
    BY <1>1, <2>1, <2>2, <2>3, <2>4, Zenon DEF WriteInv, Drop
  <2>6. window' # "read"
    BY <1>5, <2>5
  <2> QED BY <1>3, <2>2, <2>5, <2>6, Zenon DEF SwitchInv
<1> QED BY <1>4, <1>5 DEF WInv

\* The handler of the last thread: nobody is active in its read window, whose
\* timer is cancelled; left over in a write window it changes nothing.
LEMMA SwitchLast ==
  ASSUME WInv, SwitchInv, MainLast
  PROVE  SwitchInv'
<1>1. /\ main = "loop" /\ "last" \in HighestOf(Takes) /\ ~futs' /\ main' = main
      /\ UNCHANGED <<thr, todo, active>> /\ switch_to_write_window("last", FALSE)
  BY Zenon DEF MainLast
<1>2. "timer" \in Takes /\ "timer" # "none" /\ ~failed
  BY DEF Takes, Handlers, ReadOnly, SwitchInv
<1>3. Running /\ Running' /\ main' # "get"
  BY <1>1 DEF Running
<1>4. CASE window = "read"
  <2>1. ReadInv
    BY <1>4, Zenon DEF SwitchInv
  <2>2. /\ order = <<"timer", "last">> /\ active = 0 /\ aborted = {}
        /\ (armed = "timer" /\ io = <<>>) \/ (armed = "none" /\ io = <<"timer">>)
    BY <1>1, <1>2, <1>3, <2>1, LastTurn, Zenon DEF ReadInv
  <2>3. \A t \in Threads : thr[t] # "post"
    <3>1. <<"timer", "last">> # <<"timer">>
      OBVIOUS
    <3> QED BY <2>1, <2>2, <3>1, Zenon DEF ReadInv
  <2>4. start_write_window("last") /\ failed' = failed
    BY <1>1, <1>4, <2>2, Zenon DEF switch_to_write_window
  <2>5. order' = <<"timer", "to_read">>
    <3>1. "timer" # "last"
      OBVIOUS
    <3>2. Without(order, "last") = <<"timer">>
      BY <2>2, <3>1, WithoutFacts, Zenon
    <3> QED BY <2>4, <3>2, AppendFacts, Zenon DEF start_write_window, Arm
  <2>6. io' = <<"timer">> /\ armed' = "to_read" /\ window' = "write"
    BY <1>2, <2>2, <2>4, AppendFacts, Zenon DEF start_write_window, Arm
  <2>7. aborted' = {} \/ aborted' = {"timer"}
    BY <2>2, <2>4 DEF start_write_window, Arm
  <2>8. WriteInv' /\ window' # "read"
    BY <1>1, <2>3, <2>5, <2>6, <2>7, Zenon DEF WriteInv, WriteHandlers, ReadOnly
  <2> QED BY <1>2, <1>3, <2>4, <2>8, Zenon DEF SwitchInv
<1>5. CASE window = "write"
  <2>1. WriteInv
    BY <1>5, Zenon DEF SwitchInv
  <2>2. Drop("last") /\ ~failed'
    BY <1>1, <1>2, <1>5, Zenon DEF switch_to_write_window
  <2>3. order = <<"last", "to_read">> /\ WriteHandlers(<<"to_read">>, armed, io)
    BY <1>1, <1>2, <2>1, LastTurn, Zenon DEF WriteInv
  <2>4. order' = <<"to_read">>
    <3>1. "last" # "to_read"
      OBVIOUS
    <3> QED BY <2>2, <2>3, <3>1, WithoutFacts, Zenon DEF Drop
  <2>5. aborted' = {}
    <3>1. <<"last", "to_read">> # <<"timer", "to_read">>
      OBVIOUS
    <3>2. aborted = {}
      BY <1>3, <2>1, <2>3, <3>1, Zenon DEF WriteInv
    <3> QED BY <2>2, <3>2 DEF Drop
  <2>6. WriteInv' /\ window' = window
    BY <1>1, <2>1, <2>2, <2>3, <2>4, <2>5, Zenon DEF WriteInv, Drop
  <2>7. window' # "read"
    BY <1>5, <2>6
  <2> QED BY <1>2, <1>3, <2>2, <2>6, <2>7, Zenon DEF SwitchInv
<1> QED BY <1>4, <1>5 DEF WInv

\* A pool thread begins a task: its future is among those the main thread has.
LEMMA SwitchBegin ==
  ASSUME WInv, SwitchInv, NEW t \in Threads, Begin(t)
  PROVE  SwitchInv'
<1>1. /\ thr[t] = "idle" /\ thr' = [thr EXCEPT ![t] = "check"] /\ todo > 0 /\ todo' = todo - 1
      /\ mine' = (IF futs THEN mine \cup {t} ELSE mine)
      /\ UNCHANGED <<window, expired, exiting, order, io, armed, aborted, active, futs, main, failed>>
  BY Zenon DEF Begin, Goto, timers
<1>2. /\ thr \in [Threads -> States] /\ todo \in Nat /\ Cardinality(Busy) \in Nat
      /\ Cardinality(Busy') = Cardinality(Busy) + 1
  BY <1>1, BusyFinite, BusyBegin, Zenon DEF WInv
<1>3. thr'[t] = "check" /\ (\A u \in Threads : u # t => thr'[u] = thr[u]) /\ "check" # "post"
  BY <1>1, <1>2
<1>4. Cardinality(Busy) + todo = Cardinality(Busy') + todo' /\ Running' = Running
  BY <1>1, <1>2 DEF Running
<1>5. ReadInv => ReadInv'
  <2> SUFFICES ASSUME ReadInv PROVE ReadInv'
    OBVIOUS
  <2>1. \A u \in Threads : thr'[u] = "post" => thr[u] = "post" /\ u # t
    BY <1>3, Zenon
  <2>2. Running => \A u \in Threads : thr'[u] \in Reading \cup {"post"} => u \in mine'
    BY <1>1, <1>3 DEF ReadInv
  <2> QED BY <1>1, <1>4, <2>1, <2>2, Zenon DEF ReadInv
<1>6. WriteInv => WriteInv'
  BY <1>1, <1>3, <1>4, Zenon DEF WriteInv
<1> QED BY <1>1, <1>4, <1>5, <1>6, Zenon DEF SwitchInv

\* A thread that goes on in the loop of read_only_execution_task.
LEMMA SwitchGoesOn ==
  ASSUME WInv, SwitchInv, NEW t \in Threads, NEW s \in Reading, thr[t] \in Reading,
         thr' = [thr EXCEPT ![t] = s], exiting => exiting', ~failed',
         UNCHANGED <<window, expired, order, io, armed, aborted, todo, active, futs, mine, main>>
  PROVE  SwitchInv'
<1>1. thr \in [Threads -> States] /\ Busy' = Busy
  BY BusySame, Zenon DEF WInv, States
<1>2. \A u \in Threads : thr'[u] \in Reading \cup {"post"} => thr[u] \in Reading \cup {"post"}
  BY <1>1
<1>3. \A u \in Threads : thr'[u] = "post" => thr[u] = "post"
  BY <1>1 DEF Reading
<1>4. Running' = Running
  BY DEF Running
<1>5. ReadInv => ReadInv'
  BY <1>1, <1>2, <1>3, <1>4, Zenon DEF ReadInv
<1>6. WriteInv => WriteInv'
  BY <1>3, <1>4, Zenon DEF WriteInv
<1> QED BY <1>4, <1>5, <1>6, Zenon DEF SwitchInv

\* The wait condition is evaluated in a read window only, and a thread that
\* takes a task finds no switch handler in the priority queue.
LEMMA SwitchWaits ==
  ASSUME WInv, SwitchInv, NEW t \in Threads, execute_highest_blocking_locked(t)
  PROVE  SwitchInv'
<1>1. thr[t] \in Reading /\ WaitCondition(t, Waiting \cup {t})
  BY DEF execute_highest_blocking_locked, Reading
<1>2. window = "read" /\ active # 0 /\ ReadInv /\ window # "write"
  BY <1>1, ReaderCounts DEF SwitchInv
<1>3. PICK s \in Reading : thr' = [thr EXCEPT ![t] = s]
  BY <1>1 DEF WaitCondition, Goto, Reading
<1>4. ASSUME ~exiting, ~expired PROVE Queued \cap ReadOnly = {}
  <2>1. Running
    BY <1>4, Zenon DEF SwitchInv
  <2>2. armed = "timer" /\ order # <<"timer", "last">>
    BY <1>2, <1>4, <2>1, Zenon DEF ReadInv
  <2>3. order = <<"timer">>
    BY <1>2, <2>2, Zenon DEF ReadInv, ReadHandlers
  <2>4. ToSet(order) = {"timer"}
    BY <2>3, ToSetFacts, Zenon
  <2> QED BY <2>2, <2>4 DEF Queued
<1>5. ~failed' /\ (exiting => exiting')
  BY <1>1, <1>2, <1>4, Zenon DEF WaitCondition, MustExit, SwitchInv
<1> QED
  BY <1>1, <1>3, <1>5, SwitchGoesOn, Zenon DEF execute_highest_blocking_locked, timers

\* A thread leaves; the last one goes on to post its handler.
LEMMA SwitchLeave ==
  ASSUME WInv, SwitchInv, NEW t \in Threads, Leave(t)
  PROVE  SwitchInv'
<1>1. /\ thr[t] = "leave" /\ active' = active - 1
      /\ UNCHANGED <<window, expired, exiting, order, io, armed, aborted, todo, futs, main, failed>>
  BY Zenon DEF Leave, timers
<1>2. thr[t] \in Reading
  BY <1>1 DEF Reading
<1>3. window = "read" /\ active # 0 /\ ReadInv /\ active \in Nat /\ thr \in [Threads -> States]
  BY <1>2, ReaderCounts DEF SwitchInv, WInv
<1>4. PICK s \in {"post", "idle"} :
        /\ thr' = [thr EXCEPT ![t] = s]
        /\ active = 1 => s = "post" /\ mine' = mine
        /\ active # 1 => s = "idle" /\ mine' = mine \ {t}
  BY DEF Leave, Goto
<1>5. /\ Cardinality(Busy') = Cardinality(Busy) - 1 /\ Cardinality(Busy) \in Nat /\ todo \in Nat
  BY <1>1, <1>3, <1>4, BusyLeave, BusyFinite, Zenon DEF WInv
<1>6. order # <<"timer", "last">> /\ \A u \in Threads : thr[u] # "post"
  BY <1>3, Zenon DEF ReadInv
<1>7. order = <<"timer">>
  BY <1>3, <1>6, Zenon DEF ReadInv, ReadHandlers
<1>8. thr'[t] = s /\ \A u \in Threads : u # t => thr'[u] = thr[u]
  BY <1>3, <1>4
<1>9. \A u \in Threads : thr'[u] = "post" => u = t /\ active' = 0
  <2>1. active = 1 => active' = 0
    BY <1>1
  <2> QED BY <1>4, <1>6, <1>8, <2>1
<1>10. Running' = Running
  BY <1>1 DEF Running
<1>11. Running => active' = Cardinality(Busy') + todo'
  <2>1. Running => active = Cardinality(Busy) + todo
    BY <1>3, Zenon DEF ReadInv
  <2> QED BY <1>1, <1>5, <2>1
<1>12. Running => \A u \in Threads : thr'[u] \in Reading \cup {"post"} => u \in mine'
  <2>1. Running => \A u \in Threads : thr[u] \in Reading \cup {"post"} => u \in mine
    BY <1>3, Zenon DEF ReadInv
  <2>2. "idle" \notin Reading \cup {"post"}
    BY DEF Reading
  <2> QED BY <1>2, <1>4, <1>8, <2>1, <2>2
<1>13. ReadInv'
  BY <1>1, <1>3, <1>6, <1>7, <1>9, <1>10, <1>11, <1>12, Zenon DEF ReadInv
<1>14. window' # "write"
  BY <1>1, <1>3
<1> QED BY <1>1, <1>10, <1>13, <1>14, Zenon DEF SwitchInv

\* The last thread posts its handler, behind the read timer's.
LEMMA SwitchPosts ==
  ASSUME WInv, SwitchInv, NEW t \in Threads, PostLast(t)
  PROVE  SwitchInv'
<1>1. /\ thr[t] = "post" /\ thr' = [thr EXCEPT ![t] = "repost"]
      /\ order' = Append(order, "last") /\ io' = Append(io, "last")
      /\ UNCHANGED <<window, expired, exiting, armed, aborted, todo, active, futs, mine, main, failed>>
  BY Zenon DEF PostLast, Goto
<1>2. window = "read" /\ ReadInv /\ thr \in [Threads -> States]
  <2>1. window = "read" \/ window = "write"
    BY DEF WInv
  <2> QED BY <1>1, <2>1, Zenon DEF SwitchInv, WriteInv, WInv
<1>3. order = <<"timer">> /\ active = 0
  BY <1>1, <1>2, Zenon DEF ReadInv
<1>4. order' = <<"timer", "last">>
  BY <1>1, <1>3, AppendFacts, Zenon
<1>5. /\ ReadHandlers(order', armed', io')
      /\ TimerFirst(order, armed, io) => TimerFirst(order', armed', io')
  <2>1. ReadHandlers(<<"timer">>, armed, io)
    BY <1>2, <1>3, Zenon DEF ReadInv
  <2> QED BY <1>1, <1>3, <1>4, <2>1, PostMoves, Zenon
<1>6. \A u \in Threads : thr'[u] # "post"
  <2>1. \A u \in Threads : thr[u] = "post" => u = t
    BY <1>1, <1>2, Zenon DEF ReadInv
  <2> QED BY <1>1, <1>2, <2>1
<1>7. \A u \in Threads : thr'[u] \in Reading \cup {"post"} => thr[u] \in Reading \cup {"post"}
  BY <1>1, <1>2 DEF Reading
<1>8. Busy' = Busy /\ Running' = Running
  <2>1. "post" \notin Reading /\ "repost" \notin Reading /\ "repost" \in States
    BY DEF Reading, States
  <2>2. Busy' = Busy
    BY <1>1, <1>2, <2>1, BusySame, Zenon
  <2> QED BY <1>1, <2>2, Zenon DEF Running
<1>9. ReadInv'
  BY <1>1, <1>2, <1>3, <1>5, <1>6, <1>7, <1>8, Zenon DEF ReadInv
<1>10. window' # "write"
  BY <1>1, <1>2
<1> QED BY <1>1, <1>5, <1>8, <1>9, <1>10, Zenon DEF SwitchInv

\* It then gives back the exhausted transactions, and its future is ready.
LEMMA SwitchReposts ==
  ASSUME WInv, SwitchInv, NEW t \in Threads, Repost(t)
  PROVE  SwitchInv'
<1>1. /\ thr[t] = "repost" /\ thr' = [thr EXCEPT ![t] = "idle"] /\ mine' = mine \ {t}
      /\ UNCHANGED <<window, expired, exiting, order, io, armed, aborted, todo, active, futs, main,
                     failed>>
  BY Zenon DEF Repost, Goto, timers
<1>2. thr \in [Threads -> States]
  BY DEF WInv
<1>3. \A u \in Threads : thr'[u] \in Reading \cup {"post"}
                           => u # t /\ thr[u] \in Reading \cup {"post"}
  BY <1>1, <1>2 DEF Reading
<1>4. \A u \in Threads : thr'[u] = "post" => thr[u] = "post"
  BY <1>1, <1>2
<1>5. Busy' = Busy /\ Running' = Running
  <2>1. "idle" \notin Reading /\ "repost" \notin Reading /\ "idle" \in States
    BY DEF Reading, States
  <2>2. Busy' = Busy
    BY <1>1, <1>2, <2>1, BusySame, Zenon
  <2> QED BY <1>1, <2>2, Zenon DEF Running
<1>6. ReadInv => ReadInv'
  <2> SUFFICES ASSUME ReadInv PROVE ReadInv'
    OBVIOUS
  <2>1. Running => \A u \in Threads : thr'[u] \in Reading \cup {"post"} => u \in mine'
    BY <1>1, <1>3 DEF ReadInv
  <2> QED BY <1>1, <1>4, <1>5, <2>1, Zenon DEF ReadInv
<1>7. WriteInv => WriteInv'
  BY <1>1, <1>4, <1>5, Zenon DEF WriteInv
<1> QED BY <1>1, <1>5, <1>6, <1>7, Zenon DEF SwitchInv

\* Every step of the main thread, the pool and the timers.
LEMMA SwitchNext ==
  ASSUME WInv, SwitchInv, [WNext]_wvars
  PROVE  SwitchInv'
<1>1. CASE PostTask
  BY <1>1, SwitchSame, Zenon DEF PostTask, timers, Running
<1>2. CASE DeadlinePasses
  BY <1>2, SwitchSame, Zenon DEF DeadlinePasses, timers, pool, Running
<1>3. CASE MainTask
  <2>1. Running' = Running /\ main' # "get"
    BY <1>3 DEF MainTask, Running
  <2> QED BY <1>3, <2>1, SwitchSame, Zenon DEF MainTask, timers, pool
<1>4. CASE MainTaskEnds
  <2>1. Running' = Running /\ main' # "get"
    BY <1>4, Zenon DEF MainTaskEnds, Running
  <2> QED BY <1>4, <2>1, SwitchSame, Zenon DEF MainTaskEnds, timers, pool
<1>5. CASE Joined
  <2>1. Running' = Running /\ main' # "get"
    BY <1>5 DEF Joined, Running
  <2> QED BY <1>5, <2>1, SwitchSame, Zenon DEF Joined, timers, pool
<1>6. CASE UNCHANGED wvars
  BY <1>6, SwitchSame, Zenon DEF wvars, timers, pool, Running
<1>7. CASE TimerExpires \/ Dispatch \/ plugin_shutdown
  BY <1>7, SwitchExpires, SwitchDispatches, SwitchStops, Zenon
<1>8. CASE MainToRead \/ MainTimer \/ MainGot \/ MainLast
  BY <1>8, SwitchReads, SwitchTimer, SwitchGot, SwitchLast, Zenon
<1>9. ASSUME NEW t \in Threads, Thread(t) PROVE SwitchInv'
  <2>1. CASE Check(t)
    <3>1. PICK s \in Reading : thr' = [thr EXCEPT ![t] = s]
      BY <2>1, Zenon DEF Check, Goto, Reading
    <3>2. thr[t] \in Reading
      BY <2>1 DEF Check, Reading
    <3>3. ~failed'
      BY <2>1, Zenon DEF Check, SwitchInv
    <3> QED BY <2>1, <3>1, <3>2, <3>3, SwitchGoesOn, Zenon DEF Check, timers
  <2>2. CASE TaskEnds(t)
    <3>1. PICK s \in Reading : thr' = [thr EXCEPT ![t] = s]
      BY <2>2 DEF TaskEnds, Goto, Reading
    <3>2. thr[t] \in Reading
      BY <2>2 DEF TaskEnds, Reading
    <3>3. window # "write" /\ ~failed
      BY <3>2, ReaderCounts DEF SwitchInv
    <3>4. ~failed'
      BY <2>2, <3>3, Zenon DEF TaskEnds
    <3> QED BY <2>2, <3>1, <3>2, <3>4, SwitchGoesOn, Zenon DEF TaskEnds, timers
  <2> QED
    BY <1>9, <2>1, <2>2, SwitchBegin, SwitchWaits, SwitchLeave, SwitchPosts, SwitchReposts, Zenon
    DEF Thread
<1> QED
  BY <1>1, <1>2, <1>3, <1>4, <1>5, <1>6, <1>7, <1>8, <1>9, Zenon DEF WNext, Main

\* The three facts together are inductive.
THEOREM SwitchInvariant == WSpec => [](TypesInv /\ SwitchInv)
<1>1. WInit => TypesInv /\ SwitchInv
  <2> SUFFICES ASSUME WInit PROVE TypesInv /\ SwitchInv
    OBVIOUS
  <2>1. Flags
    BY Zenon DEF WInit, Flags
  <2>2. Counters
    BY DEF WInit, Counters
  <2>3. Members /\ notified \subseteq Waiting
    <3>1. N \in Nat
      BY ThreadsAssumption, FS_CardinalityType DEF N
    <3> QED BY <3>1 DEF WInit, Members, Handlers
  <2>4. /\ WriteHandlers(order, armed, io) /\ ~futs /\ aborted = {} /\ Running /\ main # "get"
        /\ window # "read" /\ ~failed
    BY DEF WInit, WriteHandlers, Running
  <2>5. \A t \in Threads : thr[t] # "post"
    BY DEF WInit
  <2> QED BY <2>1, <2>2, <2>3, <2>4, <2>5, Zenon DEF TypesInv, SwitchInv, WriteInv
<1>2. WInv /\ TypesInv /\ SwitchInv /\ [WNext]_wvars => TypesInv' /\ SwitchInv'
  BY TypesNext, SwitchNext
<1> QED
  BY <1>1, <1>2, WInvHolds, PTL DEF WSpec

\* The assertions about the windows in switch_to_read_window,
\* switch_to_write_window, the wait condition and push_read_only_transaction
\* never fail, for every number of threads, tasks and put-off transactions.
THEOREM SwitchAssertions == WSpec => []SwitchAssertsHold
<1>1. SwitchInv => SwitchAssertsHold
  BY DEF SwitchInv, SwitchAssertsHold
<1> QED
  BY <1>1, SwitchInvariant, PTL

\* The sequences of handlers that occur have no handler twice.
LEMMA HandlerSequences ==
  ASSUME NEW x \in Handlers, NEW y \in Handlers, x # y
  PROVE  /\ <<>> \in Seq(Handlers) /\ IsInjective(<<>>)
         /\ <<x>> \in Seq(Handlers) /\ IsInjective(<<x>>)
         /\ <<x, y>> \in Seq(Handlers) /\ IsInjective(<<x, y>>)
<1>1. <<>> \in Seq(Handlers) /\ <<x>> \in Seq(Handlers) /\ <<x, y>> \in Seq(Handlers)
  OBVIOUS
<1>2. IsInjective(<<>>) /\ IsInjective(<<x>>)
  BY DEF IsInjective
<1>3. IsInjective(<<x, y>>)
  BY DEF IsInjective
<1> QED BY <1>1, <1>2, <1>3

\* In both tables the handlers of the io_service are among those that have not
\* run, and none is alive twice.
LEMMA HandlerTypes ==
  ASSUME ReadHandlers(order, armed, io) \/ WriteHandlers(order, armed, io)
  PROVE  /\ order \in Seq(Handlers) /\ io \in Seq(Handlers)
         /\ IsInjective(order) /\ IsInjective(io) /\ ToSet(io) \subseteq ToSet(order)
<1>1. "timer" \in Handlers /\ "last" \in Handlers /\ "to_read" \in Handlers
      /\ "timer" # "last" /\ "timer" # "to_read" /\ "last" # "to_read"
  BY DEF Handlers
<1>2. CASE ReadHandlers(order, armed, io)
  <2>1. order = <<"timer">> \/ order = <<"timer", "last">>
    BY <1>2, Zenon DEF ReadHandlers
  <2>2. io \in {<<>>, <<"timer">>} \/ (order = <<"timer", "last">>
          /\ io \in {<<"last">>, <<"timer", "last">>, <<"last", "timer">>})
    BY <1>2, Zenon DEF ReadHandlers
  <2>3. order \in Seq(Handlers) /\ IsInjective(order)
    BY <1>1, <2>1, HandlerSequences, Zenon
  <2>4. io \in Seq(Handlers) /\ IsInjective(io)
    BY <1>1, <2>2, HandlerSequences, Zenon
  <2>5. /\ ToSet(<<>>) = {} /\ ToSet(<<"timer">>) = {"timer"} /\ ToSet(<<"last">>) = {"last"}
        /\ ToSet(<<"timer", "last">>) = {"timer", "last"}
        /\ ToSet(<<"last", "timer">>) = {"last", "timer"}
    BY ToSetFacts, Zenon
  <2>6. ToSet(io) \subseteq ToSet(order)
    BY <2>1, <2>2, <2>5
  <2> QED BY <2>3, <2>4, <2>6
<1>3. ASSUME NEW x \in ReadOnly, order = <<x, "to_read">>,
             io \in {<<>>, <<x>>, <<"to_read">>, <<x, "to_read">>}
      PROVE  /\ order \in Seq(Handlers) /\ io \in Seq(Handlers)
             /\ IsInjective(order) /\ IsInjective(io) /\ ToSet(io) \subseteq ToSet(order)
  <2>1. x \in Handlers /\ x # "to_read"
    BY <1>3 DEF ReadOnly, Handlers
  <2>2. order \in Seq(Handlers) /\ IsInjective(order)
    BY <1>1, <1>3, <2>1, HandlerSequences, Zenon
  <2>3. io \in Seq(Handlers) /\ IsInjective(io)
    BY <1>1, <1>3, <2>1, HandlerSequences, Zenon
  <2>4. /\ ToSet(<<>>) = {} /\ ToSet(<<x>>) = {x} /\ ToSet(<<"to_read">>) = {"to_read"}
        /\ ToSet(<<x, "to_read">>) = {x, "to_read"}
    BY ToSetFacts, Zenon
  <2>5. ToSet(io) \subseteq ToSet(order)
    BY <1>3, <2>4
  <2> QED BY <2>2, <2>3, <2>5
<1>4. CASE order = <<"to_read">> /\ io \in {<<>>, <<"to_read">>}
  <2>1. order \in Seq(Handlers) /\ IsInjective(order) /\ io \in Seq(Handlers) /\ IsInjective(io)
    BY <1>1, <1>4, HandlerSequences, Zenon
  <2>2. ToSet(<<>>) = {} /\ ToSet(<<"to_read">>) = {"to_read"}
    BY ToSetFacts, Zenon
  <2> QED BY <1>4, <2>1, <2>2
<1> QED BY <1>2, <1>3, <1>4, Zenon DEF WriteHandlers

\* Every variable has its type, and no switch handler is alive twice, for every
\* number of threads and tasks.
THEOREM WindowTypes == WSpec => []WTypeOK
<1>1. ASSUME WInv, TypesInv, SwitchInv PROVE WTypeOK
  <2>1. window = "read" \/ window = "write"
    BY <1>1 DEF WInv
  <2>2. ReadHandlers(order, armed, io) \/ WriteHandlers(order, armed, io)
    BY <1>1, <2>1, Zenon DEF SwitchInv, ReadInv, WriteInv
  <2>3. active \in 0..N
    <3>1. N \in Nat
      BY ThreadsAssumption, FS_CardinalityType DEF N
    <3> QED BY <1>1, <3>1 DEF WInv, TypesInv, Members
  <2>4. window \in {"read", "write"}
    BY <2>1
  <2> QED
    BY <1>1, <2>2, <2>3, <2>4, HandlerTypes, Zenon
    DEF WTypeOK, WInv, TypesInv, Flags, Counters, Members, States
<1> QED
  BY <1>1, WInvHolds, SwitchInvariant, PTL

=============================================================================
