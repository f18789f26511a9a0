---------------------------- MODULE SyncManager -----------------------------
(***************************************************************************)
(* How a node that is behind fetches blocks from its peers: sync_manager,  *)
(* the parts of connection and dispatch_manager it works with, and the     *)
(* path of a block from the socket to the chain (plugins/net_plugin).      *)
(*                                                                         *)
(* Handlers of one connection run one at a time, on its strand, in the     *)
(* order they were posted; messages come in between.  Connections run in   *)
(* parallel, as do the dispatcher strand and the application thread.       *)
(*                                                                         *)
(* What a handler does to the sync manager under one lock of sync_mtx is a *)
(* step, with one look at the chain.  Between two locks, and between the   *)
(* places where it tests or sets the atomic sync_state or the fork heads   *)
(* without that lock, the others go on: doing keeps the part of a handler  *)
(* that is still to come.  (set_state is one step: the value it leaves is  *)
(* the same as if its test and its assignment were two.)                   *)
(*                                                                         *)
(* There is one chain of blocks, a block is its number, and the peers      *)
(* have all of it up to their own heads.                                   *)
(***************************************************************************)
EXTENDS Integers, Sequences, FiniteSets

CONSTANTS Peer,         \* peers; a connection is named by its peer
          Networks,     \* [lib, head, lag, faults]: what each peer has; how far the irreversible
                        \* block of this node is behind; and a bound: connections that break,
                        \* blocks that are refused, and response timers that expire and
                        \* handshakes that are repeated while others are under way
          Span,         \* sync_req_span
          MinDistance,  \* min_blocks_distance
          Fragile       \* bound: the connections that may break or be late

ASSUME SyncAssumption ==
  /\ \A n \in Networks : /\ \A p \in Peer : n.lib[p] \in Nat \ {0} /\ n.head[p] >= n.lib[p]
                         /\ n.lag \in Nat /\ n.faults \in Nat
  /\ Span \in Nat \ {0} /\ MinDistance \in Nat
  /\ Fragile \subseteq Peer

VARIABLES net,      \* one of Networks, which stays as it is
          head,     \* the chain's head
          sync,     \* sync_manager: [stage, known, last, next, source]
          conn,     \* per connection, see Closed
          strand,   \* handlers posted to the strand of a connection
          doing,    \* per connection, the rest of the handler that runs, or Nothing
          wire,     \* per connection, its peer's end: see Cut
          have,     \* blocks in blk_state of the dispatcher
          unlinked, \* unlinkable_block_cache
          disp, app, \* blocks posted to the dispatcher and to the application
          pool,     \* accepted blocks whose successors the thread pool will look for
          faults
vars == <<net, head, sync, conn, strand, doing, wire, have, unlinked, disp, app, pool, faults>>
chain == <<net, head, have, unlinked, disp, app, pool>>

PeerLib == net.lib
PeerHead == net.head
Lag == net.lag
MaxFaults == net.faults

NoPeer  == "none"
Nothing == <<>>
\* Messages on their way to the node; the range the peer still has to send
\* (peer_requested); whether it has sent its handshake.
Cut == [msgs |-> <<>>, last |-> 0, end |-> 0, met |-> FALSE]
Closed  == [state |-> "closed", lib |-> 0, head |-> 0, syncing |-> FALSE, timer |-> FALSE,
            requested |-> 0, sent |-> 0, fork |-> 0, retry |-> TRUE]

Max2(a, b) == IF a >= b THEN a ELSE b
Min2(a, b) == IF a <= b THEN a ELSE b
lib == Max2(1, head - Lag)

Current(k) == k.state = "connected" /\ ~k.syncing
IsOpen(c)  == conn[c].state \in {"connecting", "connected"}
\* Peers keep all blocks, so their start block is never in the way.
should_sync_from(k, s) == Current(k) /\ k.retry /\ k.head >= s.known

Post(st, c, task) == [st EXCEPT ![c] = Append(@, task)]
PostHandshake(st, c) == IF IsOpen(c) THEN Post(st, c, <<"handshake">>) ELSE st
Handshakes(K, st) == [c \in Peer |-> IF Current(K[c]) THEN Append(st[c], <<"handshake">>) ELSE st[c]]

-----------------------------------------------------------------------------
\* (mutant) The range is not cut off at the known irreversible block.
uncut_end(s) == s.next + Span - 1

\* (mutant) The range ends one block before the known irreversible block.
short_end(s) == Min2(s.next + Span - 1, s.known - 1)

\* The last block of the range to request.
RangeEnd(s) == Min2(s.next + Span - 1, s.known)

(***************************************************************************)
(* request_next_chunk, from the state s of the sync manager, the           *)
(* connections K and what is posted so far, as the set of its outcomes;    *)
(* with no connection given, any that can be synced from (the code goes    *)
(* round them by latency).                                                 *)
(***************************************************************************)
request_next_chunk(s, K, st, c) ==
  LET sources == IF c # NoPeer /\ Current(K[c]) THEN {c}
                 ELSE {d \in Peer : should_sync_from(K[d], s)}
      end == RangeEnd(s)
  IN  IF head + Span < s.last /\ s.source # NoPeer /\ Current(K[s.source])
      THEN {[s |-> s, st |-> st]}
      ELSE IF sources = {}
      THEN {[s  |-> [s EXCEPT !.source = NoPeer, !.known = lib, !.last = 0, !.stage = "in_sync"],
             st |-> st]}
      ELSE IF s.last # s.known /\ end >= s.next
      THEN {[s  |-> [s EXCEPT !.last = end, !.source = d],
             st |-> Post(st, d, <<"request", s.next, end>>)] : d \in sources}
      ELSE {[s |-> [s EXCEPT !.source = NoPeer], st |-> Handshakes(K, st)]}

\* The step ends with one of the outcomes.
Ends(outcomes) == \E o \in outcomes : sync' = o.s /\ strand' = o.st

KnownLib(s, n) ==
  [s EXCEPT !.known = Max2(@, n), !.source = IF s.stage = "in_sync" THEN NoPeer ELSE @]

start_sync(s, K, st, c, target) ==
  LET k == [s EXCEPT !.known = Max2(@, target)]
  IN  IF ~(k.last < k.known \/ k.next < k.last) \/ target <= lib
      THEN {[s |-> k, st |-> st]}
      ELSE request_next_chunk([k EXCEPT !.stage = "lib_catchup", !.next = Max2(lib + 1, @)], K, st, c)

-----------------------------------------------------------------------------
(***************************************************************************)
(* The peers run the same code; they have all blocks, and their heads do   *)
(* not move.  A peer handles a message when it is sent; what takes time is *)
(* the way back.  It sends the blocks asked for one at a time.             *)
(***************************************************************************)
\* A notice is sent at once; the peer's first handshake is posted, and follows.
Answer(p, h) ==
  CASE PeerHead[p] = h -> <<>>
    [] PeerLib[p] > h + MinDistance -> << <<"last_irr", PeerHead[p], PeerLib[p]>> >>
    [] PeerHead[p] > h -> << <<"catch_up", PeerHead[p]>> >>
    [] OTHER -> <<>>

PeerHandshake(p, w) ==
  [w EXCEPT !.msgs = @ \o Answer(p, head)
                       \o (IF w.met THEN <<>> ELSE << <<"handshake", PeerHead[p], PeerLib[p]>> >>),
            !.met = TRUE]

\* Of a sync_request_message {0, 0}: nothing more is sent.
Stopped(w) == [w EXCEPT !.last = 0, !.end = 0]

\* A request for what comes after block h, which the peer may not know.
blk_send_branch(p, w, h) ==
  LET end == Max2(w.end, PeerHead[p])
  IN  CASE h > PeerHead[p] -> [w EXCEPT !.msgs = Append(@, <<"go_away">>)]
        [] h < end /\ h <= PeerHead[p] -> [w EXCEPT !.last = h, !.end = end]
        [] OTHER -> Stopped(w)

\* A range that is being sent goes on from where it is.
PeerSyncRequest(w, start, end) ==
  IF w.end # 0 THEN [w EXCEPT !.end = Max2(@, end)]
  ELSE [w EXCEPT !.last = start - 1, !.end = end]

enqueue_sync_block(p) ==
  /\ wire[p].end # 0
  /\ LET n == wire[p].last + 1
         done == n > PeerHead[p] \/ n = wire[p].end
     IN  wire' = [wire EXCEPT
           ![p].msgs = Append(@, IF n <= PeerHead[p] THEN <<"block", n>> ELSE <<"go_away">>),
           ![p].last = IF done THEN 0 ELSE n,
           ![p].end  = IF done THEN 0 ELSE @]
  /\ UNCHANGED <<chain, sync, conn, strand, doing, faults>>

-----------------------------------------------------------------------------
(***************************************************************************)
(* Messages from a peer.  A connection that is about to close still        *)
(* handles what it has read, but does not become connected by it.          *)
(***************************************************************************)
\* The wire without the message being handled; a connection that closes sends
\* no more.
After(c) == [wire[c] EXCEPT !.msgs = Tail(@)]
Connected(k) == [k EXCEPT !.state = IF @ = "connecting" THEN "connected" ELSE @]

\* The handler that runs on the strand of c has still to do rest.
Leaves(c, rest) == doing' = [doing EXCEPT ![c] = rest]

\* The first part of verify_catchup: whether the fork head of some connection is
\* as good as n.  (Who changes fork heads does not look at what the handler did
\* before, so both are one step.)
is_fork_head_greater(c, n) ==
  CASE \A d \in Peer : conn[d].fork < n -> <<"ask", n>>
    [] conn[c].fork # 0 -> <<"no_fork">>
    [] OTHER -> Nothing

\* recv_handshake, up to verify_catchup.  The peer's head is m[2], its
\* irreversible block m[3].
RecvHandshake(c, m) ==
  /\ conn' = [conn EXCEPT ![c] = [Connected(@) EXCEPT !.lib = m[3], !.head = m[2],
                 !.syncing = head > m[2] /\ lib > m[2] + MinDistance]]
  /\ sync' = KnownLib(sync, m[3])
  /\ strand' = IF head < m[3] THEN PostHandshake(strand, c) ELSE strand
  /\ Leaves(c, IF head < m[2] /\ head >= m[3] THEN is_fork_head_greater(c, m[2]) ELSE Nothing)

\* sync_recv_notice.
RecvCatchUp(c, m) ==
  /\ conn' = [conn EXCEPT ![c] = [Connected(@) EXCEPT !.head = m[2]]]
  /\ strand' = IF m[2] \in have THEN PostHandshake(strand, c) ELSE strand
  /\ Leaves(c, IF m[2] \in have THEN Nothing ELSE is_fork_head_greater(c, m[2]))
  /\ sync' = sync

RecvLastIrr(c, m) ==
  /\ conn' = [conn EXCEPT ![c] = [Connected(@) EXCEPT !.head = m[2], !.lib = m[3]]]
  /\ sync' = KnownLib(sync, m[3])
  /\ Leaves(c, <<"start", m[3]>>)
  /\ strand' = strand

RecvGoAway(c) ==
  /\ conn' = [conn EXCEPT ![c].retry = FALSE, ![c].state = "closing"]
  /\ strand' = Post(strand, c, <<"close">>)
  /\ UNCHANGED <<sync, doing>>

(***************************************************************************)
(* A block is handed to sync_recv_block from process_next_block_message,   *)
(* as one that is "known" or "new", or as BlockDone says.  After it, the   *)
(* first stops the timer for a known block, and goes on with a new one.    *)
(***************************************************************************)
Return(n, from) == IF from = "new" THEN <<"take", n>> ELSE Nothing
TimerAfter(c, from) == conn[c].timer /\ from # "known"

\* sync_recv_block reads sync_state, and acts on that value.
Entered(n, from) ==
  IF sync.stage = "in_sync" THEN Return(n, from) ELSE <<sync.stage, n, from>>

\* process_next_block_message, up to sync_recv_block, which gets every block that
\* is known or is a response in lib_catchup.
RecvBlock(c, n) ==
  LET old == n <= lib
      known == n \in have
      drop == ~known /\ sync.stage # "lib_catchup" /\ old
  IN  /\ Leaves(c, CASE known -> Entered(n, "known")
                     [] sync.stage = "lib_catchup" -> <<"recv", n, "new">>
                     [] OTHER -> Nothing)
      /\ conn' = [conn EXCEPT ![c].timer = @ /\ ~drop /\ ~(known /\ sync.stage = "in_sync")]
      /\ strand' = IF drop THEN PostHandshake(strand, c) ELSE strand
      /\ disp' = IF known \/ sync.stage = "lib_catchup" \/ old THEN disp ELSE Append(disp, <<n, c>>)
      /\ wire' = [wire EXCEPT ![c] = IF drop /\ IsOpen(c) THEN Stopped(After(c)) ELSE After(c)]
      /\ sync' = sync

Receive(c) ==
  /\ wire[c].msgs # <<>> /\ conn[c].state # "closed" /\ doing[c] = Nothing
  /\ LET m == Head(wire[c].msgs)
     IN  \/ m[1] = "block" /\ RecvBlock(c, m[2])
         \/ /\ \/ m[1] = "handshake" /\ RecvHandshake(c, m)
               \/ m[1] = "catch_up"  /\ RecvCatchUp(c, m)
               \/ m[1] = "last_irr"  /\ RecvLastIrr(c, m)
               \/ m[1] = "go_away"   /\ RecvGoAway(c)
            /\ wire' = [wire EXCEPT ![c] = After(c)]
            /\ disp' = disp
  /\ UNCHANGED <<net, head, have, unlinked, app, pool, faults>>

-----------------------------------------------------------------------------
(***************************************************************************)
(* verify_catchup(c, n) goes on: it looks at the chain and sync_state,     *)
(* sets sync_state, sets the fork head of c and asks for the blocks after  *)
(* the head h it saw, all in steps of their own.                           *)
(***************************************************************************)
verify_catchup(c, n) ==
  /\ Leaves(c, IF sync.stage = "lib_catchup" \/ n < lib THEN Nothing ELSE <<"catch", n, head>>)
  /\ UNCHANGED <<sync, conn, strand, wire, disp>>

\* Whatever sync_state is by now.
set_head_catchup(c, n, h) ==
  /\ sync' = [sync EXCEPT !.stage = "head_catchup"]
  /\ Leaves(c, <<"fork", n, h>>)
  /\ UNCHANGED <<conn, strand, wire, disp>>

\* With no request, n is 0.
set_fork_head(c, n, h) ==
  /\ conn' = [conn EXCEPT ![c].fork = n]
  /\ wire' = IF n # 0 /\ conn[c].state = "connected"
             THEN [wire EXCEPT ![c] = blk_send_branch(c, @, h)] ELSE wire
  /\ Leaves(c, Nothing)
  /\ UNCHANGED <<sync, strand, disp>>

\* blk_applied.
Applied(from) == from \in {"had", "accepted"}

sync_recv_block(c, n, from) ==
  /\ Leaves(c, Entered(n, from))
  /\ conn' = [conn EXCEPT ![c].timer = IF sync.stage = "in_sync" THEN TimerAfter(c, from) ELSE @]
  /\ UNCHANGED <<sync, strand, wire, disp>>

\* It read lib_catchup: the rest is under the lock, whatever sync_state is by now.
\* The timer of c runs on until the last block requested.
InLibCatchup(c, n, from) ==
  LET r == IF Applied(from) THEN sync ELSE [sync EXCEPT !.next = n + 1]
  IN  /\ Ends(CASE Applied(from) /\ n >= sync.known ->
                   {[s |-> [sync EXCEPT !.stage = "in_sync"], st |-> Handshakes(conn, strand)]}
              [] head + Span > r.last /\ r.next > r.last /\ r.last < r.known ->
                   request_next_chunk(r, conn, strand, NoPeer)
              [] OTHER -> {[s |-> r, st |-> strand]})
      /\ conn' = [conn EXCEPT ![c].timer = IF Applied(from) THEN @
                                            ELSE from # "known" /\ n < conn[c].requested]
      /\ Leaves(c, Return(n, from))
      /\ UNCHANGED <<wire, disp>>

\* It read head_catchup: sync_source under the lock, then the fork heads, then
\* sync_state.
ResetSource(c, n, from) ==
  /\ sync' = [sync EXCEPT !.source = NoPeer]
  /\ Leaves(c, <<"fork_heads", n, from>>)
  /\ UNCHANGED <<conn, strand, wire, disp>>

\* Whether some connection's fork head is still to come.  The fork head of c is
\* cleared when any connection's has come, so it counts only if its turn in the
\* loop is before that.
CheckForkHeads(c, n, from) ==
  LET left == {d \in Peer : conn[d].fork > n}
      come == \E d \in Peer : conn[d].fork \in 1..n
  IN  /\ conn' = [conn EXCEPT ![c].fork = IF come THEN 0 ELSE @]
      /\ \E more \in IF left = {c} /\ come THEN BOOLEAN ELSE {left # {}} :
           Leaves(c, <<IF more THEN "more" ELSE "no_more", n, from>>)
      /\ UNCHANGED <<sync, strand, wire, disp>>

\* Handshakes are sent for in_sync, and for a state that was not head_catchup
\* any more.
SetStage(c, n, from, stage) ==
  /\ sync' = [sync EXCEPT !.stage = stage]
  /\ strand' = IF stage = "in_sync" \/ sync.stage # stage THEN Handshakes(conn, strand) ELSE strand
  /\ conn' = [conn EXCEPT ![c].timer = TimerAfter(c, from)]
  /\ Leaves(c, Return(n, from))
  /\ UNCHANGED <<wire, disp>>

\* The end of process_next_block_message; what is not dropped goes to the
\* dispatcher.
TakeBlock(c, n) ==
  /\ conn' = [conn EXCEPT ![c].timer = @ /\ n > lib]
  /\ disp' = IF n > lib THEN Append(disp, <<n, c>>) ELSE disp
  /\ Leaves(c, Nothing)
  /\ UNCHANGED <<sync, strand, wire>>

\* The handler that runs on the strand of c goes on.
Resume(c) ==
  /\ doing[c] # Nothing
  /\ LET t == doing[c]
     IN  \/ /\ t[1] = "start"
            /\ Ends(start_sync(sync, conn, strand, c, t[2]))
            /\ Leaves(c, Nothing)
            /\ UNCHANGED <<conn, wire, disp>>
         \/ t[1] = "ask"          /\ verify_catchup(c, t[2])
         \/ t[1] = "catch"        /\ set_head_catchup(c, t[2], t[3])
         \/ t[1] = "fork"         /\ set_fork_head(c, t[2], t[3])
         \/ t[1] = "no_fork"      /\ set_fork_head(c, 0, 0)
         \/ t[1] = "recv"         /\ sync_recv_block(c, t[2], t[3])
         \/ t[1] = "lib_catchup"  /\ InLibCatchup(c, t[2], t[3])
         \/ t[1] = "head_catchup" /\ ResetSource(c, t[2], t[3])
         \/ t[1] = "fork_heads"   /\ CheckForkHeads(c, t[2], t[3])
         \/ t[1] = "more"         /\ SetStage(c, t[2], t[3], "head_catchup")
         \/ t[1] = "no_more"      /\ SetStage(c, t[2], t[3], "in_sync")
         \/ t[1] = "take"         /\ TakeBlock(c, t[2])
  /\ UNCHANGED <<net, head, have, unlinked, app, pool, faults>>

-----------------------------------------------------------------------------
\* What runs on the strand of a connection.

\* One with the head of the last is not sent within 50 ms of it.
send_handshake(c) ==
  LET again == conn[c].sent = head
  IN  \/ /\ IsOpen(c) /\ (again => faults < MaxFaults)
         /\ conn' = [conn EXCEPT ![c].sent = head]
         /\ wire' = [wire EXCEPT ![c] = PeerHandshake(c, @)]
         /\ faults' = IF again THEN faults + 1 ELSE faults
      \/ /\ ~IsOpen(c) \/ again
         /\ UNCHANGED <<conn, wire, faults>>

\* On a closed connection the message is lost, but the timer is set.
request_sync_blocks(c, start, end) ==
  /\ conn' = [conn EXCEPT ![c].requested = end, ![c].timer = TRUE]
  /\ wire' = IF IsOpen(c) THEN [wire EXCEPT ![c] = PeerSyncRequest(@, start, end)] ELSE wire

\* The rest of the strand, after its first handler.
Rest(c) == [strand EXCEPT ![c] = Tail(@)]

\* An unlinkable block is kept for later.
rejected_block(c, n, unlinkable) ==
  /\ sync' = [sync EXCEPT !.last = 0, !.next = IF n < @ THEN lib ELSE @]
  /\ strand' = PostHandshake(Rest(c), c)
  /\ unlinked' = IF unlinkable THEN unlinked \union {n} ELSE unlinked

\* (mutant) Closing does not look for another source.
close_only(c) ==
  /\ conn' = [conn EXCEPT ![c] = [Closed EXCEPT !.head = conn[c].head, !.fork = conn[c].fork,
                                                !.retry = conn[c].retry]]
  /\ sync' = sync /\ strand' = Rest(c)
  /\ wire' = [wire EXCEPT ![c] = Cut]

_close(c) ==
  LET s == [sync EXCEPT !.source = IF sync.stage = "in_sync" THEN NoPeer ELSE @,
                        !.known = CHOOSE n \in {0} \union {conn[d].lib : d \in Peer} :
                                    /\ n = 0 \/ \E d \in Peer : Current(conn[d]) /\ conn[d].lib = n
                                    /\ \A d \in Peer : Current(conn[d]) => conn[d].lib <= n]
  IN  /\ conn' = [conn EXCEPT ![c] = [Closed EXCEPT !.head = conn[c].head, !.fork = conn[c].fork,
                                                    !.retry = conn[c].retry]]
      /\ IF s.source = c
         THEN Ends(request_next_chunk([s EXCEPT !.last = 0, !.next = Max2(lib + 1, @)],
                                      conn, Rest(c), NoPeer))
         ELSE sync' = s /\ strand' = Rest(c)
      /\ wire' = [wire EXCEPT ![c] = Cut]

\* sync_recv_block, posted by the dispatcher ("got") or the application
\* ("had", "accepted"; recv_block of the dispatcher stops the timer).
BlockDone(c, t) ==
  /\ have' = IF t[1] = "had" THEN have \union {t[2]} ELSE have
  /\ conn' = [conn EXCEPT ![c].timer = @ /\ t[1] # "accepted"]
  /\ Leaves(c, Entered(t[2], t[1]))
  /\ strand' = Rest(c)
  /\ sync' = sync

\* sync_reassign_fetch, which may choose the same connection again, then close.
sync_timeout(c) ==
  LET mine == sync.source = c
      K == [conn EXCEPT ![c].timer = @ /\ ~mine, ![c].requested = IF mine THEN 0 ELSE @]
      outcomes == IF mine THEN request_next_chunk([sync EXCEPT !.last = 0], K, Rest(c), NoPeer)
                  ELSE {[s |-> sync, st |-> Rest(c)]}
  IN  /\ Ends({[o EXCEPT !.st = Post(@, c, <<"close">>)] : o \in outcomes})
      /\ conn' = [K EXCEPT ![c].state = "closing"]
      /\ wire' = IF mine /\ IsOpen(c) THEN [wire EXCEPT ![c] = Stopped(@)] ELSE wire

RunStrand(c) ==
  /\ strand[c] # <<>> /\ doing[c] = Nothing
  /\ LET t == Head(strand[c])
     IN  \/ /\ t[1] = "handshake"
            /\ send_handshake(c)
            /\ strand' = Rest(c)
            /\ UNCHANGED <<sync, doing, have, unlinked>>
         \/ /\ t[1] = "request"
            /\ request_sync_blocks(c, t[2], t[3])
            /\ strand' = Rest(c)
            /\ UNCHANGED <<sync, doing, have, unlinked, faults>>
         \/ /\ t[1] \in {"unlinkable", "refused"}
            /\ rejected_block(c, t[2], t[1] = "unlinkable")
            /\ UNCHANGED <<conn, doing, wire, have, faults>>
         \/ /\ t[1] = "timeout"
            /\ sync_timeout(c)
            /\ UNCHANGED <<doing, have, unlinked, faults>>
         \/ /\ t[1] = "close"
            /\ _close(c)
            /\ UNCHANGED <<doing, have, unlinked, faults>>
         \/ /\ t[1] \in {"got", "had", "accepted"}
            /\ BlockDone(c, t)
            /\ UNCHANGED <<wire, unlinked, faults>>
  /\ UNCHANGED <<net, head, disp, app, pool>>

\* A block that came some other way in the meantime is done with; the others go
\* to the application, and are known if their header could be checked.
Dispatch ==
  /\ disp # <<>>
  /\ disp' = Tail(disp)
  /\ LET n == disp[1][1]
         c == disp[1][2]
         held == n \in have \/ n \in lib + 1..head
     IN  /\ have' = IF held \/ n - 1 \in lib..head THEN have \union {n} ELSE have
         /\ strand' = IF held THEN Post(strand, c, <<"got", n>>) ELSE strand
         /\ app' = IF held THEN app ELSE Append(app, disp[1])
  /\ UNCHANGED <<net, head, sync, conn, doing, unlinked, pool, wire, faults>>

\* On the application thread; a block executes if it is the next.  One whose time
\* is too far ahead of this node's clock is refused.
process_signed_block ==
  /\ app # <<>>
  /\ \E refused \in BOOLEAN :
       LET n == app[1][1]
           c == app[1][2]
           next == n = head + 1 /\ ~refused
       IN  /\ refused => n > head /\ faults < MaxFaults
           /\ head' = IF next THEN n ELSE head
           /\ pool' = IF next THEN pool \union {app[1]} ELSE pool
           /\ strand' = Post(strand, c, <<CASE n <= head -> "had" [] refused -> "refused"
                                            [] next -> "accepted" [] OTHER -> "unlinkable", n>>)
           /\ faults' = IF refused THEN faults + 1 ELSE faults
  /\ app' = Tail(app)
  /\ UNCHANGED <<net, sync, conn, doing, have, unlinked, disp, wire>>

\* A block that was waiting for an accepted one comes before the others.
RetryUnlinkable ==
  \E b \in pool :
    /\ pool' = pool \ {b}
    /\ have' = have \union {b[1]}
    /\ unlinked' = unlinked \ {b[1] + 1}
    /\ app' = IF b[1] + 1 \in unlinked THEN << <<b[1] + 1, b[2]>> >> \o app ELSE app
    /\ UNCHANGED <<net, head, sync, conn, strand, doing, disp, wire, faults>>

expire_blocks ==
  /\ have # have \ (1..lib)
  /\ have' = have \ (1..lib)
  /\ unlinked' = unlinked \ (1..lib)
  /\ UNCHANGED <<net, head, sync, conn, strand, doing, disp, app, pool, wire, faults>>

\* Nothing is under way; then time passes, more than the 50 ms of handshakes.
Quiet ==
  /\ \A c \in Peer : strand[c] = <<>> /\ doing[c] = Nothing /\ wire[c].msgs = <<>> /\ wire[c].end = 0
  /\ disp = <<>> /\ app = <<>> /\ pool = {}
Later == [c \in Peer |-> [conn[c] EXCEPT !.sent = 0]]

\* The response timer expires: its handler is queued, and runs even if the
\* answer comes before its turn.
TimerExpires(c) ==
  /\ conn[c].timer
  /\ Quiet \/ (c \in Fragile /\ faults < MaxFaults)
  /\ faults' = IF Quiet THEN faults ELSE faults + 1
  /\ conn' = [(IF Quiet THEN Later ELSE conn) EXCEPT ![c].timer = FALSE]
  /\ strand' = Post(strand, c, <<"timeout">>)
  /\ UNCHANGED <<chain, sync, doing, wire>>

\* The connection breaks, or is closed by hand.
Drop(c) ==
  /\ IsOpen(c) /\ c \in Fragile /\ faults < MaxFaults
  /\ faults' = faults + 1
  /\ conn' = [conn EXCEPT ![c].state = "closing"]
  /\ strand' = Post(strand, c, <<"close">>)
  /\ UNCHANGED <<chain, sync, doing, wire>>

\* connection_monitor finds it closed, 100 ms after that or later.
reconnect(c) ==
  /\ conn[c].state = "closed" /\ strand[c] = <<>>
  /\ conn' = [conn EXCEPT ![c].state = "connecting"]
  /\ strand' = Post(strand, c, <<"handshake">>)
  /\ UNCHANGED <<chain, sync, doing, wire, faults>>

\* No block for half a heartbeat, which is longer than anything under way takes.
\* Both ends send a handshake then, but this node does not while it is syncing.
check_heartbeat(c) ==
  /\ conn[c].state = "connected" /\ Quiet
  /\ conn' = Later
  /\ \/ /\ sync.stage # "lib_catchup"
        /\ strand' = Post(strand, c, <<"handshake">>)
        /\ wire' = wire
     \/ /\ wire' = [wire EXCEPT ![c].msgs = << <<"handshake", PeerHead[c], PeerLib[c]>> >>]
        /\ strand' = strand
  /\ UNCHANGED <<chain, sync, doing, faults>>

-----------------------------------------------------------------------------
Init ==
  /\ net \in Networks
  /\ head = 1
  /\ sync = [stage |-> "in_sync", known |-> 0, last |-> 0, next |-> 1, source |-> NoPeer]
  /\ conn = [c \in Peer |-> Closed]
  /\ strand = [c \in Peer |-> <<>>] /\ doing = [c \in Peer |-> Nothing]
  /\ wire = [c \in Peer |-> Cut]
  /\ have = {} /\ unlinked = {} /\ disp = <<>> /\ app = <<>> /\ pool = {}
  /\ faults = 0

Next ==
  \/ \E c \in Peer : \/ Receive(c) \/ Resume(c) \/ RunStrand(c) \/ TimerExpires(c) \/ Drop(c) \/ reconnect(c)
                     \/ check_heartbeat(c) \/ enqueue_sync_block(c)
  \/ Dispatch \/ process_signed_block \/ RetryUnlinkable \/ expire_blocks

Spec == Init /\ [][Next]_vars

\* The node does not halt: some thread, timer or peer always goes on, for there is
\* always something to do, if only the next heartbeat.  (The faults are bounded and
\* expire_blocks only empties caches: they cannot be all that goes on.)  And no
\* connection is left out by connection_monitor or by the heartbeats.
FairSpec ==
  /\ Spec /\ []<><<TRUE>>_vars
  /\ \A c \in Peer : WF_vars(reconnect(c)) /\ SF_vars(check_heartbeat(c))

-----------------------------------------------------------------------------
Best == CHOOSE n \in {PeerHead[p] : p \in Peer} : \A p \in Peer : PeerHead[p] <= n
Block == 1..Best

\* The fields of the sync manager and the caches hold blocks there are: no range
\* that is requested, and no block that comes out of turn, leads past them.
SyncTypeOK ==
  /\ head \in Block
  /\ sync \in [stage : {"in_sync", "lib_catchup", "head_catchup"}, known : 0..Best, last : 0..Best,
               next : 1..Best + 1, source : Peer \union {NoPeer}]
  /\ have \subseteq Block /\ unlinked \subseteq Block

BestLib == CHOOSE n \in {PeerLib[p] : p \in Peer} : \A p \in Peer : PeerLib[p] <= n

\* Blocks that are known, so that they are dropped when they come again, but are
\* not applied, nor about to be, nor kept for later: blocks that were refused.
Lost == {n \in have : /\ n > head /\ n \notin unlinked
                      /\ \A i \in 1..Len(app) : app[i][1] # n
                      /\ \A c \in Peer : \A i \in 1..Len(strand[c]) : strand[c][i] # <<"unlinkable", n>>}

\* A node that is syncing from a connection, sync_source, and has not caught up
\* is not stuck: a request, a block or a handler is under way, or a response timer
\* runs whose sync_timeout will reassign the range, or there is more to request
\* than was requested, so that the next notice makes start_sync request it.  (A
\* refused block resets the range and, being known, is not received again: there
\* the property claims nothing.)
SyncCanGoOn ==
  sync.stage = "lib_catchup" /\ sync.source # NoPeer /\ head < sync.known /\ Lost = {} =>
    ~Quiet \/ (\E c \in Peer : conn[c].timer) \/ sync.last # sync.known

\* By sync_last_requested_num everything known is requested, and not all has been
\* applied, but there is no connection it would come from, or the node is not in
\* lib_catchup.
Stalled ==
  /\ sync.last = sync.known /\ head < sync.known
  /\ sync.source = NoPeer \/ sync.stage # "lib_catchup"

\* What a node has to get that begins with one block: the highest irreversible
\* block of its peers, or their highest head when all that is irreversible is its own.
Goal == IF BestLib = 1 THEN Best ELSE BestLib

\* The node gets to the highest irreversible block of its peers, whatever the
\* order of handshakes, notices and blocks on its connections, and although some
\* break and some answers are late; from peers that are ahead by blocks that are
\* not irreversible it gets all, whichever fork heads verify_catchup and
\* sync_recv_block set, compare and clear on the two connections meanwhile.  The
\* only ways not to are that a block was refused, and that the sync manager stays
\* Stalled: sync_source was reset by a notice (request_next_chunk) or by another
\* connection's block (sync_recv_block), or verify_catchup took the node out of
\* lib_catchup, and then what was requested does not come.
CatchesUp == <>(head >= Goal \/ Lost # {}) \/ <>[]Stalled
====
