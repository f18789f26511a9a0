----------------------- MODULE ControllerStateProofs ------------------------
(***************************************************************************)
(* What is stopped and started again, and the chain the state database     *)
(* holds.  Stopping, dying and starting again keep CInv: startup() from the*)
(* state and fork_db.dat an orderly stop left, and the replay of the block *)
(* log from genesis.  Every step of a node whose heads agree keeps         *)
(* ChainInv: the revisions are the blocks of head's chain.                 *)
(***************************************************************************)
EXTENDS ControllerFacts

-----------------------------------------------------------------------------
(***************************************************************************)
(* Stopping.                                                               *)
(***************************************************************************)
\* The first block of the block log is genesis.
LEMMA FirstIsGenesis ==
  ASSUME LogChain
  PROVE  blog[1] = Genesis /\ 1 \in 1..Len(blog)
<1>1. Len(blog) \in Nat \ {0} /\ blog \in Seq(Block)
  BY LogFacts DEF LogChain
<1>2. 1 \in 1..Len(blog)
  BY <1>1
<1>3. blog[1] \in Block /\ Num[blog[1]] = 1
  BY <1>1, <1>2, SeqElement DEF LogChain
<1>4. ASSUME NEW b \in Block, b # Genesis PROVE Num[b] # 1
  <2>1. Prev[b] \in Block /\ Num[b] = Num[Prev[b]] + 1
    BY <1>4, AncStep
  <2>2. Num[Prev[b]] \in Nat /\ Lib[Prev[b]] \in Nat /\ Lib[Prev[b]] < Num[Prev[b]]
    BY <2>1, BlockFacts
  <2> QED BY <2>1, <2>2
<1> QED BY <1>2, <1>3, <1>4

\* An orderly stop, between handlers or while replay() is among the reversible
\* blocks.
LEMMA StopStep ==
  ASSUME CInv, Shutdown \/ InterruptReplay
  PROVE  CInv'
<1>1. /\ pc \in {"idle", "replay"} /\ pc' = "down"
      /\ restarts < MaxRestarts /\ restarts' = restarts + 1
      /\ saved' = TRUE /\ pending' = {} /\ Up /\ ~Appending
      /\ applied' \in {applied, Undo(applied)} /\ todo' \in {todo, {}}
      /\ pc = "replay" => applied' = applied
      /\ UNCHANGED <<fdb, head, committed, blog, mode, ret, newBranch, oldBranch, toLog, fails>>
  <2>1. pc = "replay" => pending = {}
    BY DEF CInv, Logging, Appending
  <2>2. CASE Shutdown
    BY <2>2 DEF Shutdown, Up, Appending, branch
  <2>3. CASE InterruptReplay
    BY <2>1, <2>3 DEF InterruptReplay, Up, Appending, branch, db
  <2> QED BY <2>2, <2>3, Zenon
<1>2. /\ Typed /\ FdbInv(fdb) /\ Closed(fdb) /\ LogChain /\ (~Replays => todo = {}) /\ UpOK
  BY <1>1 DEF CInv
<1>3. fdb.root = LogHead /\ (committed = Num[LogHead] \/ Lags)
  BY <1>1, <1>2 DEF UpOK
<1>4. applied' \in Seq(Block) /\ committed \in 0..Len(applied') /\ restarts' \in 0..MaxRestarts
  BY <1>1, <1>2, UndoFacts, ControllerAssumption DEF Typed
<1>5. LogHead' = LogHead /\ LogChain'
  BY <1>1, <1>2 DEF LogHead, LogChain
<1>6. Typed'
  BY <1>1, <1>2, <1>4 DEF Typed, Loops
<1>7. committed' = Num[LogHead'] \/ Len(applied') < Num[LogHead']
  BY <1>1, <1>3, <1>5, Zenon DEF Lags, Appending
<1> QED BY <1>1, <1>2, <1>3, <1>5, <1>6, <1>7, Leaves

\* The process dies: only the block log is left.
LEMMA DieStep ==
  ASSUME CInv, Die
  PROVE  CInv'
<1>1. Typed /\ LogChain
  BY DEF CInv
<1>2. /\ fdb' = reset(Genesis) /\ head' = Genesis /\ applied' = <<>> /\ committed' = 0
      /\ pending' = {} /\ ret' = "idle" /\ newBranch' = {} /\ oldBranch' = {} /\ todo' = {}
      /\ toLog' = {} /\ pc' = "down" /\ saved' = FALSE /\ blog' = blog /\ mode' = mode
      /\ fails' = fails
  BY DEF Die
<1>3. restarts' \in 0..MaxRestarts
  BY <1>1, ControllerAssumption DEF Die, Typed
<1>4. /\ Genesis \in Block /\ Num[Genesis] = 1 /\ FdbInv(fdb') /\ Closed(fdb')
      /\ fdb'.root = Genesis
  BY <1>2, AncGenesis, ControllerAssumption, ResetFacts, Zenon
<1>5. blog[1] = Genesis /\ 1 \in 1..Len(blog)
  BY <1>1, FirstIsGenesis
<1>6. applied' \in Seq(Block) /\ Len(applied') = 0 /\ committed' \in 0..Len(applied')
  BY <1>2
<1>7. Typed'
  BY <1>1, <1>2, <1>3, <1>4, <1>6, Zenon DEF Typed, Loops
<1>8. DownOK'
  BY <1>2, <1>4, <1>5, <1>6 DEF DownOK
<1>9. LogChain'
  BY <1>1, <1>2 DEF LogChain
<1> QED BY <1>2, <1>4, <1>7, <1>8, <1>9, Zenon DEF CInv, Up

-----------------------------------------------------------------------------
(***************************************************************************)
(* Starting again.                                                         *)
(***************************************************************************)
\* What startup makes of a fork database by read mode: in irreversible mode
\* nothing above the root counts as validated.
LEMMA OpenedFacts ==
  ASSUME NEW f, FdbInv(f), Closed(f), NEW m, NEW g, g = Opened(f, m)
  PROVE  /\ FdbInv(g) /\ Closed(g) /\ g.root = f.root
         /\ m = "irreversible" => g.head = g.root /\ g.validated = {}
         /\ f.head = f.root => g = f
<1>1. CASE m = "irreversible" /\ f.head # f.root
  <2>1. g = rollback_head_to_root(f)
    BY <1>1 DEF Opened
  <2>2. g.root = f.root /\ g.head = f.root /\ g.validated = {}
    BY <2>1 DEF rollback_head_to_root, FdbInv, ForkDb
  <2>3. FdbInv(g)
    BY <2>1, RollbackInv
  <2>4. Closed(g)
    BY <2>2 DEF Closed
  <2> QED BY <1>1, <2>2, <2>3, <2>4
<1>2. CASE ~(m = "irreversible" /\ f.head # f.root)
  <2>1. g = f
    BY <1>2 DEF Opened
  <2>2. ASSUME f.head = f.root, NEW v \in f.validated PROVE FALSE
    <3>1. v \in Block /\ f.root \in Anc[v] /\ v # f.root
      BY FdbFacts, Zenon DEF Valid
    <3>2. first_preferred(v, f.head)
      BY <2>2, <3>1, AncWorse
    <3> QED BY <2>2, <3>2 DEF FdbInv
  <2> QED BY <1>2, <2>1, <2>2
<1> QED BY <1>1, <1>2

\* The fork database has been reset to a block of the block log.
LEMMA InitReset ==
  ASSUME CInv, pc = "down", NEW m \in Modes, NEW n \in 1..Len(blog),
         fdb' = reset(blog[n]), head' = blog[n], applied' \in Seq(Block), Len(applied') = n,
         committed' = n, newBranch' = {}, oldBranch' = {}, todo' = {}, mode' = m,
         UNCHANGED <<blog, pending, toLog, fails>>, restarts' \in 0..MaxRestarts,
         n < Len(blog) => pc' = "down" /\ saved' = TRUE /\ ret' = ret,
         n = Len(blog) => pc' = "replay" /\ saved' = FALSE /\ ret' = "replay"
  PROVE  CInv'
<1>1. Typed /\ LogChain /\ pending = {} /\ blog \in Seq(Block) /\ Len(blog) \in Nat
  BY LogFacts DEF CInv, Logging, Appending, LogChain
<1>2. blog[n] \in Block /\ Num[blog[n]] = n /\ blog[n] \in Anc[blog[n]]
  BY <1>1, SeqElement, AncStep DEF LogChain
<1>3. /\ fdb'.index = {} /\ fdb'.validated = {} /\ fdb'.root = blog[n] /\ fdb'.head = blog[n]
      /\ FdbInv(fdb') /\ Closed(fdb')
  BY <1>2, ResetFacts
<1>4. LogHead' = LogHead /\ LogChain'
  BY <1>1 DEF LogHead, LogChain
<1>5. pc' \in {"down", "replay"} /\ saved' \in BOOLEAN /\ ret' \in {"idle", "replay", "init"}
  <2>1. n < Len(blog) \/ n = Len(blog)
    BY <1>1
  <2>2. ret \in {"idle", "replay", "init"}
    BY <1>1 DEF Typed
  <2> QED BY <2>1, <2>2, Zenon
<1>6. Typed'
  BY <1>1, <1>2, <1>5 DEF Typed, Loops
<1>7. CASE n < Len(blog)
  <2>1. DownOK'
    BY <1>2, <1>3 DEF DownOK
  <2> QED BY <1>1, <1>3, <1>4, <1>6, <1>7, <2>1, Zenon DEF CInv, Up
<1>8. CASE n = Len(blog)
  <2>1. blog[n] = LogHead
    BY <1>8 DEF LogHead, LastOf
  <2>2. OnTree' /\ ReplayOK'
    BY <1>2, <1>3, <1>4, <2>1, Zenon DEF OnTree, ReplayOK, Valid
  <2>3. IrrOK'
    BY <1>2, <1>3, <1>8 DEF IrrOK
  <2>4. UpOK'
    BY <1>2, <1>3, <1>4, <1>8, <2>1, <2>2, <2>3, Zenon DEF UpOK, Appending, Logging, Switching
  <2> QED BY <1>1, <1>3, <1>4, <1>6, <1>8, <2>4 DEF CInv, Up
<1> QED BY <1>1, <1>7, <1>8

\* The fork database is the one that was found, rooted at the block log head.
LEMMA InitKept ==
  ASSUME CInv, pc = "down", NEW m \in Modes, NEW f, fdb' = f, FdbInv(f), Closed(f),
         f.root = LogHead, Valid(f, head'), head' \in Anc[f.head],
         m = "irreversible" => f.head = f.root /\ f.validated = {} /\ head' = f.root,
         todo' = Anc[f.head] \ Anc[head'], ~Replays => todo' = {},
         applied' \in Seq(Block), Len(applied') = Num[head'], committed' = Num[LogHead],
         newBranch' = {}, oldBranch' = {}, mode' = m, UNCHANGED <<blog, pending, toLog, fails, restarts>>,
         pc' = "replay", saved' = FALSE, ret' = "replay"
  PROVE  CInv'
<1>1. Typed /\ LogChain /\ pending = {}
  BY DEF CInv, Logging, Appending
<1>2. LogHead' = LogHead /\ LogChain'
  BY <1>1, Zenon DEF LogHead, LogChain
<1>3. /\ f.head \in Block /\ head' \in Block /\ LogHead \in Anc[head'] /\ Anc[f.head] \subseteq Block
      /\ Num[LogHead] <= Num[head'] /\ Num[LogHead] \in Nat /\ Num[head'] \in Nat
  <2>1. f.head \in Block /\ head' \in Block /\ LogHead \in Anc[head'] /\ LogHead \in Block
    BY FdbFacts, Zenon
  <2>2. Anc[f.head] \subseteq Block /\ Num[LogHead] \in Nat /\ Num[head'] \in Nat
    BY <2>1, AncStep, BlockFacts, Zenon
  <2>3. Num[LogHead] <= Num[head']
    BY <2>1, AncMonotone, Zenon
  <2> QED BY <2>1, <2>2, <2>3, Zenon
<1>4. Typed'
  <2>1. committed' \in 0..Len(applied')
    BY <1>3
  <2>2. todo' \subseteq Block
    BY <1>3, Zenon
  <2>3. newBranch' \subseteq Block /\ oldBranch' \subseteq Block
    OBVIOUS
  <2> QED BY <1>1, <1>3, <2>1, <2>2, <2>3, Zenon DEF Typed, Loops
<1>5. OnTree' /\ ReplayOK'
  BY <1>2, <1>3 DEF OnTree, ReplayOK
<1>6. m = "irreversible" => IrrOK'
  <2>1. LogHead \in Block /\ LogHead \in Anc[LogHead]
    BY <1>1, LogFacts, AncStep, Zenon
  <2> QED BY <2>1, Zenon DEF IrrOK
<1>7. UpOK'
  BY <1>2, <1>5, <1>6, Zenon DEF UpOK, Appending, Logging, Switching
<1> QED BY <1>1, <1>2, <1>4, <1>7, Zenon DEF CInv, Up

\* The state database after the block log has been applied from k + 1 to n.
LEMMA InitApplied ==
  ASSUME LogChain, NEW k \in Nat, NEW n \in Nat, k <= n, n = k \/ n <= Len(blog),
         NEW s \in Seq(Block), Len(s) = k
  PROVE  /\ s \o SubSeq(blog, k + 1, n) \in Seq(Block)
         /\ Len(s \o SubSeq(blog, k + 1, n)) = n
         /\ \A i \in 1..k : (s \o SubSeq(blog, k + 1, n))[i] = s[i]
         /\ \A i \in k + 1..n : (s \o SubSeq(blog, k + 1, n))[i] = blog[i]
<1>1. blog \in Seq(Block) /\ Len(blog) \in Nat
  BY LogFacts DEF LogChain
<1>2. \A i \in k + 1..n : i \in 1..Len(blog)
  BY <1>1
<1>3. \A i \in k + 1..n : blog[i] \in Block
  BY <1>1, <1>2, SeqElement
<1>4. PICK j : j = k + 1
  OBVIOUS
<1>5. j \in Int /\ n \in Int /\ \A i \in j..n : blog[i] \in Block
  BY <1>3, <1>4
<1>6. PICK t : t = SubSeq(blog, j, n)
  BY Zenon
<1>7. /\ t \in Seq(Block) /\ Len(t) = IF j <= n THEN n - j + 1 ELSE 0
      /\ \A i \in 1..n - j + 1 : t[i] = blog[j + i - 1]
  BY <1>5, <1>6, SeqPart
<1>8. Len(t) = n - k
  BY <1>4, <1>7
<1>9. /\ s \o t \in Seq(Block) /\ Len(s \o t) = Len(s) + Len(t)
      /\ \A i \in 1..Len(s) + Len(t) : (s \o t)[i] = IF i <= Len(s) THEN s[i] ELSE t[i - Len(s)]
  BY <1>7, SeqJoin, Zenon
<1>10. ASSUME NEW i \in 1..k PROVE (s \o t)[i] = s[i]
  BY <1>8, <1>9
<1>11. ASSUME NEW i \in k + 1..n PROVE (s \o t)[i] = blog[i]
  <2>1. i \in 1..Len(s) + Len(t) /\ ~(i <= Len(s)) /\ i - k \in 1..n - j + 1 /\ j + (i - k) - 1 = i
    BY <1>4, <1>8
  <2>2. (s \o t)[i] = t[i - k]
    BY <1>9, <2>1
  <2>3. t[i - k] = blog[j + (i - k) - 1]
    BY <1>7, <2>1
  <2> QED BY <2>1, <2>2, <2>3
<1>12. /\ s \o t \in Seq(Block) /\ Len(s \o t) = n
       /\ \A i \in 1..k : (s \o t)[i] = s[i]
       /\ \A i \in k + 1..n : (s \o t)[i] = blog[i]
  <2>1. Len(s \o t) = n
    BY <1>8, <1>9
  <2> QED BY <1>9, <1>10, <1>11, <2>1, Zenon
<1>13. t = SubSeq(blog, k + 1, n)
  BY <1>4, <1>6
<1> QED BY <1>12, <1>13, Zenon

\* init stops short of the block log head, or goes on to replay().
LEMMA InitEnds ==
  ASSUME Typed, LogChain, NEW f, NEW h, NEW s, NEW c, NEW n \in 1..Len(blog), InitFrom(f, h, s, c, n),
         n < Len(blog) => restarts < MaxRestarts, fdb'.index = {}
  PROVE  /\ todo' = {} /\ restarts' \in 0..MaxRestarts
         /\ n < Len(blog) => pc' = "down" /\ saved' = TRUE /\ ret' = ret
         /\ n = Len(blog) => pc' = "replay" /\ saved' = FALSE /\ ret' = "replay"
<1>1. restarts \in 0..MaxRestarts /\ MaxRestarts \in Nat /\ Len(blog) \in Nat /\ n \in Nat
  BY LogFacts, ControllerAssumption DEF Typed
<1>2. CASE n < Len(blog)
  <2>1. pc' = "down" /\ saved' = TRUE /\ restarts' = restarts + 1 /\ todo' = {} /\ ret' = ret
    BY <1>2 DEF InitFrom
  <2>2. restarts' \in 0..MaxRestarts
    BY <1>1, <1>2, <2>1
  <2>3. n # Len(blog)
    BY <1>1, <1>2
  <2> QED BY <1>2, <2>1, <2>2, <2>3
<1>3. CASE ~(n < Len(blog))
  <2>1. /\ pc' = "replay" /\ ret' = "replay" /\ saved' = FALSE /\ restarts' = restarts
        /\ todo' = {b \in Anc[fdb'.head] \cap fdb'.index : Num[b] > Num[head']}
    BY <1>3, Zenon DEF InitFrom
  <2>2. todo' = {}
    BY <2>1, Zenon
  <2>3. pc' = "replay" /\ ret' = "replay" /\ saved' = FALSE /\ restarts' = restarts
    BY <2>1
  <2> QED BY <1>1, <1>3, <2>2, <2>3
<1> QED BY <1>2, <1>3, Zenon

\* startup(): the state database is there, and covers the fork database's head.
LEMMA StartupStep ==
  ASSUME CInv, NEW m \in Modes, NEW n, Startup(m, n)
  PROVE  /\ CInv' /\ Len(applied') = Num[head']
         /\ \/ StartupKeeps(m)
            \/ \E k, j \in 1..Len(blog) : fdb = reset(blog[k]) /\ StartupAppends(k, j)
<1>1. pc = "down" /\ DownOK /\ Typed /\ LogChain /\ FdbInv(fdb) /\ Closed(fdb)
  BY DEF Startup, CInv, Up
<1>2. PICK f : f = Opened(fdb, m)
  OBVIOUS
<1>3. /\ FdbInv(f) /\ Closed(f) /\ f.root = fdb.root
      /\ m = "irreversible" => f.head = f.root /\ f.validated = {}
      /\ fdb.head = fdb.root => f = fdb
  BY <1>1, <1>2, OpenedFacts
<1>4. /\ Len(applied) >= Num[f.head]
      /\ InitFrom(f, f.head, SubSeq(applied, 1, Num[f.head]), committed, n)
      /\ mode' = m /\ UNCHANGED <<blog, pending, toLog, fails>>
  BY <1>2, Zenon DEF Startup, StateCovers, Revision
<1>5. PICK h : h = f.head
  OBVIOUS
<1>6. PICK s : s = SubSeq(applied, 1, Num[h])
  BY Zenon
<1>7. /\ h \in Block /\ f.root \in Anc[h] /\ Valid(f, h) /\ f.root \in Block
      /\ Num[h] \in Nat /\ Num[f.root] \in Nat /\ Num[f.root] <= Num[h]
  <2>1. h \in Block /\ f.root \in Anc[h] /\ Valid(f, h) /\ f.root \in Block
    BY <1>3, <1>5, FdbFacts, Zenon
  <2> QED BY <2>1, AncMonotone, BlockFacts, Zenon
<1>8. /\ Len(applied) \in Nat /\ applied \in Seq(Block) /\ Len(applied) >= Num[h]
      /\ Len(blog) \in Nat /\ Num[LogHead] = Len(blog) /\ LogHead \in Block
  BY <1>1, <1>4, <1>5, SeqLength, LogFacts DEF Typed
<1>9. committed = Num[f.root]
  BY <1>1, <1>3, <1>7, <1>8 DEF DownOK
<1>10. s \in Seq(Block) /\ Len(s) = Num[h] /\ \A i \in 1..Num[h] : s[i] = applied[i]
  <2>1. PICK k : k = Num[h]
    OBVIOUS
  <2>2. k \in Nat /\ 1 \in Int /\ k \in Int /\ \A i \in 1..k : i \in 1..Len(applied)
    BY <1>7, <1>8, <2>1
  <2>3. \A i \in 1..k : applied[i] \in Block
    BY <1>8, <2>2, SeqElement
  <2>4. s = SubSeq(applied, 1, k)
    BY <1>6, <2>1
  <2>5. /\ s \in Seq(Block) /\ Len(s) = IF 1 <= k THEN k - 1 + 1 ELSE 0
        /\ \A i \in 1..k - 1 + 1 : s[i] = applied[1 + i - 1]
    BY <2>2, <2>3, <2>4, SeqPart
  <2>6. Len(s) = k /\ \A i \in 1..k : s[i] = applied[i]
    BY <2>2, <2>5
  <2> QED BY <2>1, <2>5, <2>6
<1>11. InitFrom(f, h, s, committed, n)
  BY <1>4, <1>5, <1>6, Zenon
<1>12. newBranch' = {} /\ oldBranch' = {}
  BY <1>11, Zenon DEF InitFrom
<1>13. CASE f.root = LogHead
  <2>1. n = Num[h] /\ ~(n < Len(blog))
    <3>1. Len(blog) <= Num[h]
      BY <1>7, <1>8, <1>13, Zenon
    <3>2. n \in {Num[h]}
      BY <1>11, <3>1, Zenon DEF InitFrom
    <3> QED BY <1>7, <1>8, <3>1, <3>2
  <2>2. /\ fdb' = f /\ head' = h /\ applied' = s \o SubSeq(blog, Num[h] + 1, n)
        /\ committed' = committed /\ pc' = "replay" /\ ret' = "replay" /\ saved' = FALSE
        /\ restarts' = restarts
        /\ todo' = {b \in Anc[f.head] \cap f.index : Num[b] > Num[h]}
    BY <1>11, <2>1 DEF InitFrom
  <2>3. /\ applied' \in Seq(Block) /\ Len(applied') = Num[h]
        /\ \A i \in 1..Num[h] : applied'[i] = s[i]
    BY <1>1, <1>7, <1>10, <2>1, <2>2, InitApplied
  <2>4. todo' = {} /\ Anc[f.head] \ Anc[h] = {}
    <3>1. ASSUME NEW b \in Anc[h] PROVE ~(Num[b] > Num[h])
      <4>1. b \in Block /\ Num[b] <= Num[h]
        BY <1>7, AncMonotone
      <4> QED BY <1>7, <4>1, BlockFacts
    <3> QED BY <1>5, <2>2, <3>1
  <2>5. h \in Anc[f.head]
    BY <1>5, <1>7, AncStep
  <2>6. m = "irreversible" => f.head = f.root /\ f.validated = {} /\ head' = f.root
    BY <1>3, <1>5, <2>2
  <2>7. committed' = Num[LogHead] /\ todo' = Anc[f.head] \ Anc[head'] /\ Valid(f, head')
        /\ head' \in Anc[f.head] /\ Len(applied') = Num[head']
    BY <1>7, <1>9, <1>13, <2>2, <2>3, <2>4, <2>5, Zenon
  <2>8. CInv'
    BY <1>1, <1>3, <1>4, <1>12, <1>13, <2>2, <2>3, <2>4, <2>6, <2>7, InitKept, Zenon
  <2>9. StartupKeeps(m)
    BY <1>2, <1>3, <1>5, <1>8, <1>10, <1>13, <2>2, <2>3, Zenon DEF StartupKeeps
  <2> QED BY <2>7, <2>8, <2>9
<1>14. CASE f.root # LogHead
  <2>1. PICK k \in 1..Len(blog) : fdb = reset(blog[k])
    BY <1>1, <1>3, <1>14, Zenon DEF DownOK
  <2>2. blog[k] \in Block /\ Num[blog[k]] = k /\ k \in Nat /\ blog \in Seq(Block)
    BY <1>1, <1>8, SeqElement DEF LogChain
  <2>3. f = reset(blog[k]) /\ h = blog[k] /\ f.root = blog[k] /\ pending_head(f) = blog[k]
    BY <1>3, <1>5, <2>1, <2>2, ResetFacts, Zenon
  <2>4. k < Len(blog)
    BY <1>8, <1>14, <2>2, <2>3 DEF LogHead, LastOf
  <2>5. /\ n \in k + 1..Len(blog) /\ (n < Len(blog) => restarts < MaxRestarts)
    <3>1. /\ Num[h] = k
          /\ n \in IF Len(blog) <= Num[h] THEN {Num[h]}
                  ELSE IF restarts < MaxRestarts THEN Num[h] + 1 .. Len(blog) ELSE {Len(blog)}
      BY <1>11, <2>2, <2>3, Zenon DEF InitFrom
    <3>2. k \in Nat /\ Len(blog) \in Nat
      BY <1>8, <2>2, Zenon
    <3> QED BY <2>4, <3>1, <3>2
  <2>6. n \in 1..Len(blog) /\ n \in Nat /\ k < n /\ n # k
    BY <1>8, <2>2, <2>5
  <2>7. blog[n] \in Block /\ Num[blog[n]] = n
    BY <1>1, <2>2, <2>6, SeqElement DEF LogChain
  <2>8. fdb' = reset(blog[n])
    <3>1. fdb' = ReplayLog(f, blog[n])
      BY <1>11, <2>2, <2>3, <2>6, Zenon DEF InitFrom
    <3> QED BY <2>2, <2>3, <2>6, <2>7, <3>1 DEF ReplayLog
  <2>9. head' = blog[n] /\ committed' = n /\ applied' = s \o SubSeq(blog, k + 1, n)
    BY <1>11, <2>2, <2>3, <2>6, Zenon DEF InitFrom
  <2>10. /\ applied' \in Seq(Block) /\ Len(applied') = n
         /\ \A i \in 1..k : applied'[i] = s[i]
         /\ \A i \in k + 1..n : applied'[i] = blog[i]
    <3>1. Len(s) = k /\ k <= n /\ n <= Len(blog)
      BY <1>8, <1>10, <2>2, <2>3, <2>6
    <3>2. s \in Seq(Block) /\ k \in Nat /\ n \in Nat
      BY <1>10, <2>2, <2>6
    <3>3. /\ s \o SubSeq(blog, k + 1, n) \in Seq(Block)
          /\ Len(s \o SubSeq(blog, k + 1, n)) = n
          /\ \A i \in 1..k : (s \o SubSeq(blog, k + 1, n))[i] = s[i]
          /\ \A i \in k + 1..n : (s \o SubSeq(blog, k + 1, n))[i] = blog[i]
      BY <1>1, <3>1, <3>2, InitApplied, Zenon
    <3> QED BY <2>9, <3>3, Zenon
  <2>11. fdb'.index = {}
    BY <2>7, <2>8, ResetFacts, Zenon
  <2>12. /\ todo' = {} /\ restarts' \in 0..MaxRestarts
         /\ n < Len(blog) => pc' = "down" /\ saved' = TRUE /\ ret' = ret
         /\ n = Len(blog) => pc' = "replay" /\ saved' = FALSE /\ ret' = "replay"
    BY <1>1, <1>11, <2>5, <2>6, <2>11, InitEnds, Zenon
  <2>13. CInv'
    BY <1>1, <1>4, <1>12, <2>6, <2>8, <2>9, <2>10, <2>12, InitReset, Zenon
  <2>14. \A i \in 1..k : s[i] = applied[i]
    BY <1>10, <2>2, <2>3, Zenon
  <2>15. StartupAppends(k, n)
    BY <1>8, <1>10, <2>2, <2>3, <2>6, <2>8, <2>9, <2>10, <2>14, Zenon DEF StartupAppends
  <2>16. \E i, j \in 1..Len(blog) : fdb = reset(blog[i]) /\ StartupAppends(i, j)
    BY <2>1, <2>6, <2>15
  <2> QED BY <2>7, <2>9, <2>10, <2>13, <2>16, Zenon
<1> QED BY <1>13, <1>14

\* startup(genesis): the block log is applied from its second block on, on a
\* fork database that is kept only when its root is the block log head.
LEMMA ReplayBlockchainStep ==
  ASSUME CInv, NEW m \in Modes, NEW n, ReplayBlockchain(m, n)
  PROVE  /\ CInv' /\ Len(applied') = Num[head']
         /\ \E j \in 1..Len(blog) :
              /\ head' = blog[j] /\ \A i \in 1..j : applied'[i] = blog[i]
              /\ \/ fdb' = reset(blog[j])
                 \/ saved /\ fdb' = Opened(fdb, m) /\ fdb.root = LogHead /\ pc' = "replay"
                    /\ head' = LogHead
<1>1. pc = "down" /\ DownOK /\ Typed /\ LogChain /\ FdbInv(fdb) /\ Closed(fdb)
  BY DEF ReplayBlockchain, CInv, Up
<1>2. PICK f : f = IF saved THEN Opened(fdb, m) ELSE reset(Genesis)
  OBVIOUS
<1>3. /\ InitFrom(f, Genesis, <<Genesis>>, 1, n)
      /\ mode' = m /\ UNCHANGED <<blog, pending, toLog, fails>> /\ (saved => Replays)
      /\ newBranch' = {} /\ oldBranch' = {}
  BY <1>2, Zenon DEF ReplayBlockchain, InitFrom
<1>4. /\ Genesis \in Block /\ Num[Genesis] = 1 /\ Anc[Genesis] = {Genesis}
      /\ blog[1] = Genesis /\ Len(blog) \in Nat \ {0} /\ blog \in Seq(Block)
      /\ Num[LogHead] = Len(blog) /\ LogHead \in Block /\ 1 \in 1..Len(blog)
  BY <1>1, AncGenesis, ControllerAssumption, FirstIsGenesis, LogFacts, Zenon DEF LogChain
<1>5. /\ n \in 1..Len(blog) /\ (n < Len(blog) => restarts < MaxRestarts)
      /\ n = 1 => Len(blog) = 1
  <2>1. n \in IF Len(blog) <= Num[Genesis] THEN {Num[Genesis]}
               ELSE IF restarts < MaxRestarts THEN Num[Genesis] + 1 .. Len(blog) ELSE {Len(blog)}
    BY <1>3, Zenon DEF InitFrom
  <2>2. PICK l : l = Len(blog) /\ l \in Nat \ {0}
    BY <1>4, Zenon
  <2>3. n \in IF l <= 1 THEN {1} ELSE IF restarts < MaxRestarts THEN 1 + 1 .. l ELSE {l}
    BY <1>4, <2>1, <2>2, Zenon
  <2>4. n \in 1..l /\ (n < l => restarts < MaxRestarts) /\ (n = 1 => l = 1)
    BY <2>2, <2>3
  <2> QED BY <2>2, <2>4, Zenon
<1>6. n \in Nat /\ blog[n] \in Block /\ Num[blog[n]] = n
  BY <1>1, <1>4, <1>5, SeqElement DEF LogChain
<1>7. /\ FdbInv(f) /\ Closed(f)
      /\ (saved /\ f.root = LogHead) \/ \E k \in 1..Len(blog) : f = reset(blog[k])
      /\ m = "irreversible" => f.head = f.root /\ f.validated = {}
  <2>1. CASE saved
    <3>1. f = Opened(fdb, m)
      BY <1>2, <2>1
    <3>2. /\ FdbInv(f) /\ Closed(f) /\ f.root = fdb.root
          /\ m = "irreversible" => f.head = f.root /\ f.validated = {}
          /\ fdb.head = fdb.root => f = fdb
      BY <1>1, <3>1, OpenedFacts
    <3>3. ASSUME NEW k \in 1..Len(blog), fdb = reset(blog[k]) PROVE f = reset(blog[k])
      <4>1. blog[k] \in Block
        BY <1>4, SeqElement
      <4> QED BY <3>2, <3>3, <4>1, ResetFacts, Zenon
    <3> QED BY <1>1, <2>1, <3>2, <3>3 DEF DownOK
  <2>2. CASE ~saved
    <3>1. f = reset(Genesis)
      BY <1>2, <2>2
    <3> QED BY <1>4, <3>1, ResetFacts, Zenon
  <2> QED BY <2>1, <2>2, Zenon
<1>8. /\ applied' = <<Genesis>> \o SubSeq(blog, 1 + 1, n) /\ head' = blog[n] /\ committed' = n
      /\ fdb' = IF n = 1 THEN f ELSE ReplayLog(f, blog[n])
  <2>1. /\ applied' = <<Genesis>> \o SubSeq(blog, Num[Genesis] + 1, n)
        /\ head' = IF n = Num[Genesis] THEN Genesis ELSE blog[n]
        /\ committed' = IF n = Num[Genesis] THEN 1 ELSE n
        /\ fdb' = IF n = Num[Genesis] THEN f ELSE ReplayLog(f, blog[n])
    BY <1>3, Zenon DEF InitFrom
  <2> QED BY <1>4, <2>1
<1>9. applied' \in Seq(Block) /\ Len(applied') = n /\ \A i \in 1..n : applied'[i] = blog[i]
  <2>1. PICK s : s = <<Genesis>>
    BY Zenon
  <2>2. s \in Seq(Block) /\ Len(s) = 1
    BY <1>4, <2>1
  <2>3. 1 \in Nat /\ 1 <= n /\ n <= Len(blog)
    BY <1>4, <1>5
  <2>4. applied' = s \o SubSeq(blog, 1 + 1, n)
    BY <1>8, <2>1
  <2>5. /\ applied' \in Seq(Block) /\ Len(applied') = n
        /\ \A i \in 1..1 : applied'[i] = s[i]
        /\ \A i \in 1 + 1..n : applied'[i] = blog[i]
    BY <1>1, <1>6, <2>2, <2>3, <2>4, InitApplied, ZenonT(40)
  <2>6. applied'[1] = blog[1]
    BY <1>4, <2>1, <2>5
  <2>7. \A i \in 1..n : i = 1 \/ i \in 1 + 1..n
    BY <1>6
  <2> QED BY <2>5, <2>6, <2>7
<1>10. CASE fdb' = reset(blog[n])
  <2>1. fdb'.index = {}
    BY <1>6, <1>10, ResetFacts, Zenon
  <2>2. /\ todo' = {} /\ restarts' \in 0..MaxRestarts
        /\ n < Len(blog) => pc' = "down" /\ saved' = TRUE /\ ret' = ret
        /\ n = Len(blog) => pc' = "replay" /\ saved' = FALSE /\ ret' = "replay"
    BY <1>1, <1>3, <1>5, <2>1, InitEnds, Zenon
  <2>3. CInv'
    BY <1>1, <1>3, <1>5, <1>8, <1>9, <1>10, <2>2, InitReset, Zenon
  <2> QED BY <1>5, <1>6, <1>8, <1>9, <1>10, <2>3, Zenon
<1>11. ASSUME fdb' # reset(blog[n])
       PROVE  saved /\ f.root = LogHead /\ fdb' = f /\ n = Len(blog)
  <2>1. CASE \E k \in 1..Len(blog) : f = reset(blog[k])
    <3>1. PICK k \in 1..Len(blog) : f = reset(blog[k])
      BY <2>1
    <3>2. blog[k] \in Block /\ Num[blog[k]] = k /\ k \in Nat
      BY <1>1, <1>4, SeqElement DEF LogChain
    <3>3. f.root = blog[k] /\ pending_head(f) = blog[k]
      BY <3>1, <3>2, ResetFacts
    <3>4. n = 1 => k = n
      <4>1. 1 <= k /\ k <= Len(blog) /\ Len(blog) \in Nat /\ k \in Nat
        BY <1>4, <3>2
      <4>2. Len(blog) = 1 => k = 1
        BY <4>1
      <4>3. n = 1 => Len(blog) = 1
        BY <1>5
      <4> QED BY <4>2, <4>3
    <3>5. fdb' = reset(blog[n])
      BY <1>6, <1>8, <3>1, <3>2, <3>3, <3>4 DEF ReplayLog
    <3> QED BY <1>11, <3>5
  <2>2. CASE saved /\ f.root = LogHead
    <3>1. n = 1 => n = Len(blog)
      BY <1>5
    <3>2. get_block_header(f, pending_head(f))
      BY <1>7, PendingHeadFacts, Zenon
    <3>3. pending_head(f) \in Block /\ LogHead \in Anc[pending_head(f)]
      BY <1>7, <2>2, <3>2, FdbFacts, Zenon
    <3>4. Num[pending_head(f)] \in Nat /\ Len(blog) <= Num[pending_head(f)]
      BY <1>4, <3>3, AncMonotone, BlockFacts
    <3>5. n # 1 => /\ n < Len(blog) => fdb' = reset(blog[n])
                   /\ n = Len(blog) => fdb' = f
      BY <1>4, <1>6, <1>8, <2>2, <3>4 DEF ReplayLog
    <3> QED BY <1>4, <1>5, <1>8, <1>11, <2>2, <3>1, <3>5
  <2> QED BY <1>7, <2>1, <2>2, Zenon
<1>12. CASE fdb' # reset(blog[n])
  <2>1. saved /\ f.root = LogHead /\ fdb' = f /\ n = Len(blog) /\ blog[n] = LogHead
    BY <1>11, <1>12 DEF LogHead, LastOf
  <2>2. /\ pc' = "replay" /\ ret' = "replay" /\ saved' = FALSE /\ restarts' = restarts
        /\ todo' = {b \in Anc[f.head] \cap f.index : Num[b] > Num[head']}
    <3>1. ~(n < Len(blog))
      BY <1>6, <2>1
    <3> QED BY <1>3, <2>1, <3>1, Zenon DEF InitFrom
  <2>3. /\ head' = LogHead /\ LogHead \in Anc[f.head] /\ Valid(f, LogHead) /\ f.head \in Block
        /\ Anc[f.head] \ Anc[LogHead] \subseteq f.index
        /\ \A b \in f.index : b \notin Anc[LogHead]
    BY <1>7, <1>8, <2>1, FdbFacts DEF Valid
  <2>4. todo' = Anc[f.head] \ Anc[LogHead]
    <3>1. ASSUME NEW b \in Anc[f.head] \ Anc[LogHead] PROVE Num[b] > Num[LogHead]
      <4>1. b \in Block /\ Num[b] \in Nat /\ Num[LogHead] \in Nat
        BY <1>4, <2>3, <3>1, AncMonotone, BlockFacts, Zenon
      <4>2. Num[b] <= Num[LogHead] => b \in Anc[LogHead]
        BY <2>3, <3>1, AncLower
      <4> QED BY <3>1, <4>1, <4>2
    <3> QED BY <2>2, <2>3, <3>1, Zenon
  <2>5. m = "irreversible" => f.head = f.root /\ f.validated = {} /\ head' = f.root
    BY <1>7, <2>1, <2>3, Zenon
  <2>6. Replays /\ committed' = Num[LogHead] /\ Len(applied') = Num[head']
    BY <1>3, <1>4, <1>8, <1>9, <2>1, <2>3, Zenon
  <2>7. CInv'
    BY <1>1, <1>3, <1>7, <1>9, <2>1, <2>2, <2>3, <2>4, <2>5, <2>6, InitKept, Zenon
  <2>8. fdb' = Opened(fdb, m) /\ fdb.root = LogHead
    <3>1. f = Opened(fdb, m)
      BY <1>2, <2>1, Zenon
    <3>2. f.root = fdb.root
      BY <1>1, <3>1, OpenedFacts, Zenon
    <3> QED BY <2>1, <3>1, <3>2, Zenon
  <2> QED BY <1>5, <1>8, <1>9, <2>1, <2>2, <2>3, <2>6, <2>7, <2>8, Zenon
<1> QED BY <1>10, <1>12, Zenon

\* replay() pushes the next reversible block: it is held, and built on head.  If
\* the block log is ahead of head (Lags), the block is refused and init ends.
LEMMA ReplayPushBlockStep ==
  ASSUME CInv, ReplayPushBlock
  PROVE  CInv'
<1>1. pc = "replay" /\ todo # {} /\ Up /\ ~Appending
  BY Zenon DEF ReplayPushBlock, Up, Appending
<1>2. /\ Typed /\ FdbInv(fdb) /\ Closed(fdb) /\ LogChain /\ (~Replays => todo = {}) /\ UpOK
      /\ pending = {} /\ LogHead \in Block
  BY <1>1, LogFacts DEF CInv, Logging
<1>3. fdb.root = LogHead /\ ret = "replay" /\ (ReplayOK \/ Lags) /\ head \in Block
  BY <1>1, <1>2 DEF UpOK, Typed
<1>4. PICK b : b = Lowest(todo)
  OBVIOUS
<1>5. /\ IF Prev[b] = head /\ get_block_header(fdb, Prev[b])
         THEN /\ fdb' = IF b \in fdb.index THEN fdb ELSE add(fdb, b)
              /\ todo' = todo \ {b} /\ MaybeSwitchForks(b, "replay") /\ UNCHANGED saved
         ELSE Throw /\ UNCHANGED <<fdb, todo, ret, newBranch, oldBranch>>
      /\ UNCHANGED <<head, applied, committed, blog, pending, mode, toLog, fails, restarts>>
  BY <1>4, Zenon DEF ReplayPushBlock, branch, db
<1>6. LogHead' = LogHead /\ LogChain'
  BY <1>2, <1>5, Zenon DEF LogHead, LogChain
<1>7. CASE Lags
  <2>1. ~(Prev[b] = head /\ get_block_header(fdb, Prev[b]))
    <3>1. get_block_header(fdb, head) => LogHead \in Anc[head]
      BY <1>2, <1>3, FdbFacts, Zenon
    <3> QED BY <1>7, <3>1 DEF Lags
  <2>2. Throw /\ UNCHANGED <<fdb, todo, ret, newBranch, oldBranch>>
    BY <1>5, <2>1
  <2>3. pc' = "down" /\ saved' = TRUE
    BY <1>3, <2>2 DEF Throw
  <2>4. Typed'
    BY <1>2, <1>5, <2>2, <2>3, Zenon DEF Typed, Loops
  <2>5. Len(applied') < Num[LogHead']
    BY <1>5, <1>6, <1>7, Zenon DEF Lags
  <2>6. FdbInv(fdb') /\ Closed(fdb') /\ fdb'.root = LogHead' /\ pending' = {}
        /\ (~Replays => todo' = {})
    BY <1>2, <1>3, <1>5, <1>6, <2>2, Zenon
  <2> QED BY <1>6, <2>3, <2>4, <2>5, <2>6, Leaves
<1>8. CASE ~Lags
  <2>1. /\ OnTree /\ committed = Num[LogHead] /\ head \in Anc[fdb.head]
        /\ todo = Anc[fdb.head] \ Anc[head]
    BY <1>2, <1>3, <1>8, Zenon DEF UpOK, ReplayOK
  <2>2. fdb.head \in Block /\ Valid(fdb, head) /\ get_block_header(fdb, head)
        /\ Valid(fdb, fdb.head) /\ get_block_header(fdb, fdb.head)
    BY <1>2, <2>1, FdbFacts, Zenon DEF OnTree
  <2>3. mode = "head"
    <3>1. mode = "irreversible" => fdb.head = head
      BY <1>2, Zenon DEF UpOK, IrrOK
    <3> QED BY <1>1, <1>2, <2>1, <3>1, ControllerAssumption, Zenon DEF Typed
  <2>4. /\ b \in Anc[fdb.head] \ Anc[head] /\ b \in Block /\ b # Genesis /\ Prev[b] = head
        /\ todo \ {b} = Anc[fdb.head] \ Anc[b]
    <3>1. PICK x, y : x = head /\ y = fdb.head
      OBVIOUS
    <3>2. y \in Block /\ x \in Anc[y] /\ Anc[y] \ Anc[x] # {} /\ b = Lowest(Anc[y] \ Anc[x])
      BY <1>1, <1>4, <2>1, <2>2, <3>1, Zenon
    <3>3. /\ b \in Anc[y] \ Anc[x] /\ b \in Block /\ b # Genesis /\ Prev[b] = x
          /\ (Anc[y] \ Anc[x]) \ {b} = Anc[y] \ Anc[b]
      BY <3>2, BranchLowest
    <3> QED BY <2>1, <3>1, <3>3, Zenon
  <2>5. b \in fdb.index
    <3>1. Anc[fdb.root] \subseteq Anc[head]
      BY <1>2, <1>3, <2>1, AncMonotone, Zenon DEF OnTree
    <3> QED BY <1>2, <2>2, <2>4, <3>1, FdbFacts, Zenon
  <2>6. /\ fdb' = fdb /\ todo' = Anc[fdb.head] \ Anc[b] /\ MaybeSwitchForks(b, "replay")
        /\ saved' = saved
    BY <1>5, <2>2, <2>4, <2>5, Zenon
  <2>7. /\ FdbInv(fdb') /\ Closed(fdb') /\ Valid(fdb', head) /\ get_block_header(fdb', b)
        /\ fdb'.root = LogHead /\ b \in Anc[fdb'.head] /\ todo' = Anc[fdb'.head] \ Anc[b]
    BY <1>2, <1>3, <2>2, <2>4, <2>5, <2>6, Zenon DEF get_block_header
  <2>8. /\ UpOK' /\ pc' \in Loops \ {"down"} /\ ret' = "replay"
        /\ newBranch' \subseteq Block /\ oldBranch' \subseteq Block
    BY <1>2, <1>5, <2>1, <2>3, <2>4, <2>6, <2>7, SwitchBegins, Zenon
  <2>9. Typed' /\ (~Replays => todo' = {})
    BY <1>2, <1>5, <2>1, <2>4, <2>6, <2>8, Zenon DEF Typed
  <2> QED BY <1>2, <1>5, <1>6, <2>7, <2>8, <2>9, Zenon DEF CInv, Up
<1> QED BY <1>7, <1>8

\* The end of init.
LEMMA InitBestBranchStep ==
  ASSUME CInv, InitBestBranch
  PROVE  CInv'
<1>1. pc \in {"replay", "init"} /\ todo = {} /\ Up /\ ~Appending /\ ~Lags
  BY DEF InitBestBranch, Up, Appending, Lags
<1>2. /\ Typed /\ FdbInv(fdb) /\ Closed(fdb) /\ LogChain /\ UpOK /\ pending = {}
  BY <1>1 DEF CInv, Logging
<1>3. fdb.root = LogHead /\ OnTree /\ committed = Num[LogHead] /\ (mode = "irreversible" => IrrOK)
  BY <1>1, <1>2 DEF UpOK
<1>4. UNCHANGED <<fdb, saved, head, applied, committed, blog, pending, mode, todo, toLog, fails,
                  restarts>>
  BY DEF InitBestBranch, db
<1>5. LogHead' = LogHead /\ LogChain'
  BY <1>2, <1>4 DEF LogHead, LogChain
<1>6. CASE pc' = "idle" /\ ret' = "idle" /\ UNCHANGED <<newBranch, oldBranch>>
  <2>1. Typed' /\ OnTree'
    BY <1>2, <1>3, <1>4, <1>5, <1>6, Zenon DEF Typed, Loops, OnTree
  <2>2. mode' = "irreversible" => IrrOK'
    BY <1>3, <1>4, <1>6, Zenon DEF IrrOK
  <2>3. FdbInv(fdb') /\ Closed(fdb') /\ fdb'.root = LogHead' /\ pending' = {} /\ todo' = {}
        /\ committed' = Num[LogHead']
    BY <1>1, <1>2, <1>3, <1>4, <1>5
  <2> QED BY <1>5, <1>6, <2>1, <2>2, <2>3, Leaves
<1>7. CASE mode # "irreversible" /\ MaybeSwitchForks(pending_head(fdb), "init")
  <2>1. PICK nh : nh = pending_head(fdb)
    OBVIOUS
  <2>2. /\ get_block_header(fdb, nh) /\ nh \in Block
        /\ nh = fdb.head \/ first_preferred(nh, fdb.head)
    BY <1>2, <2>1, PendingHeadFacts, FdbFacts, Zenon
  <2>3. mode = "head"
    BY <1>2, <1>7, ControllerAssumption DEF Typed
  <2>4. /\ MaybeSwitchForks(nh, "init") /\ FdbInv(fdb') /\ Closed(fdb') /\ Valid(fdb', head)
        /\ get_block_header(fdb', nh) /\ fdb'.root = LogHead
        /\ nh = fdb'.head \/ first_preferred(nh, fdb'.head)
    BY <1>2, <1>3, <1>4, <1>7, <2>1, <2>2, Zenon DEF OnTree
  <2>5. /\ UpOK' /\ pc' \in Loops \ {"down"} /\ ret' = "init"
        /\ newBranch' \subseteq Block /\ oldBranch' \subseteq Block
    BY <1>2, <1>3, <1>4, <2>2, <2>3, <2>4, SwitchBegins, Zenon
  <2>6. Typed'
    BY <1>2, <1>4, <2>5 DEF Typed
  <2> QED BY <1>1, <1>2, <1>4, <1>5, <2>4, <2>5, <2>6 DEF CInv, Up
<1> QED BY <1>6, <1>7, Zenon DEF InitBestBranch, branch

-----------------------------------------------------------------------------
(***************************************************************************)
(* The state database holds the chain that ends in head.                   *)
(***************************************************************************)
\* A branch has one block of a height.
LEMMA SameBlock ==
  ASSUME NEW b \in Block, NEW x \in Anc[b], NEW y \in Anc[b], Num[x] = Num[y]
  PROVE  x = y
<1>1. x \in Block /\ y \in Block /\ Num[x] \in Nat /\ Num[y] \in Nat
  BY AncStep, BlockFacts
<1>2. x \in Anc[y]
  BY <1>1, AncLower
<1> QED BY <1>1, <1>2, AncMonotone

\* A block of the block log is an ancestor of every later one.
LEMMA LogAnc ==
  ASSUME LogChain, NEW j \in 1..Len(blog), NEW i \in 1..j
  PROVE  /\ blog[i] \in Anc[blog[j]] /\ blog[i] \in Block /\ blog[j] \in Block
         /\ Num[blog[i]] = i /\ Num[blog[j]] = j
         /\ i \in 1..Len(blog) /\ i \in Nat /\ j \in Nat /\ Len(blog) \in Nat
<1>1. blog \in Seq(Block) /\ Len(blog) \in Nat /\ j \in Nat /\ i \in Nat /\ i <= j
  BY LogFacts DEF LogChain
<1>2. \A n \in 1..Len(blog) : blog[n] \in Block /\ Num[blog[n]] = n
  BY <1>1, SeqElement DEF LogChain
<1> DEFINE T == {d \in Nat : d < j /\ blog[j - d] \notin Anc[blog[j]]}
<1>3. ASSUME T # {} PROVE FALSE
  <2>1. PICK d \in T : \A e \in T : d <= e
    BY <1>3, SmallestNat, Zenon
  <2>2. d \in Nat /\ d < j /\ blog[j - d] \notin Anc[blog[j]]
    BY <2>1
  <2>3. d # 0
    <3>1. blog[j] \in Anc[blog[j]] /\ j - 0 = j
      BY <1>1, <1>2, AncStep
    <3> QED BY <2>2, <3>1
  <2>4. d - 1 \in Nat /\ d - 1 < j /\ j - (d - 1) = (j - d) + 1 /\ j - d \in 1..Len(blog)
        /\ (j - d) + 1 \in 2..Len(blog) /\ ((j - d) + 1) - 1 = j - d
    BY <1>1, <2>2, <2>3
  <2>5. blog[(j - d) + 1] \in Anc[blog[j]]
    <3>1. d - 1 \notin T
      BY <2>1, <2>2, <2>4
    <3> QED BY <2>4, <3>1
  <2>6. PICK c : c = blog[(j - d) + 1]
    OBVIOUS
  <2>7. c \in Block /\ Num[c] # 1 /\ Prev[c] = blog[j - d]
    <3>1. (j - d) + 1 \in 1..Len(blog) /\ (j - d) + 1 # 1
      BY <2>4
    <3> QED BY <1>2, <2>4, <2>6, <3>1 DEF LogChain
  <2>8. c # Genesis
    BY <2>7, ControllerAssumption
  <2>9. Prev[c] \in Anc[c]
    BY <2>7, <2>8, AncStep
  <2>10. Anc[c] \subseteq Anc[blog[j]]
    BY <1>2, <2>5, <2>6, AncMonotone
  <2> QED BY <2>2, <2>7, <2>9, <2>10
<1>4. j - i \in Nat /\ j - i < j /\ j - (j - i) = i
  BY <1>1
<1>5. j - i \notin T
  BY <1>3, Zenon
<1>6. blog[i] \in Anc[blog[j]]
  BY <1>4, <1>5
<1>7. i \in 1..Len(blog) /\ j \in 1..Len(blog)
  BY <1>1
<1> QED BY <1>2, <1>6, <1>7

\* What holds the first blocks of the block log holds the chain of the last.
LEMMA ChainLog ==
  ASSUME LogChain, NEW j \in 1..Len(blog), NEW s, \A i \in 1..j : s[i] = blog[i]
  PROVE  Chain(s, blog[j])
<1>1. Num[blog[j]] = j
  BY DEF LogChain
<1>2. ASSUME NEW i \in 1..j PROVE s[i] \in Anc[blog[j]] /\ Num[s[i]] = i
  <2>1. i \in 1..Len(blog)
    BY LogFacts
  <2> QED BY <2>1, LogAnc DEF LogChain
<1> QED BY <1>1, <1>2 DEF Chain

\* apply_block: the chain grows by the block.
LEMMA ChainGrows ==
  ASSUME NEW s \in Seq(Block), NEW h \in Block, Chain(s, h), Len(s) = Num[h],
         NEW b \in Block, b # Genesis, Prev[b] = h
  PROVE  Chain(Append(s, b), b)
<1>1. Num[h] \in Nat /\ Num[b] = Num[h] + 1 /\ Anc[b] = Anc[h] \cup {b}
  BY AncStep, BlockFacts
<1>2. /\ \A i \in 1..Num[h] : Append(s, b)[i] = s[i]
      /\ Append(s, b)[Num[h] + 1] = b
  BY SeqAppend
<1>3. ASSUME NEW i \in 1..Num[b] PROVE Append(s, b)[i] \in Anc[b] /\ Num[Append(s, b)[i]] = i
  <2>1. CASE i \in 1..Num[h]
    BY <1>1, <1>2, <2>1 DEF Chain
  <2>2. CASE i = Num[h] + 1
    BY <1>1, <1>2, <2>2
  <2> QED BY <1>1, <1>3, <2>1, <2>2
<1> QED BY <1>3, Zenon DEF Chain

\* What begins as the chain of h holds the chain of every ancestor of h.
LEMMA ChainOf ==
  ASSUME NEW h \in Block, NEW a \in Anc[h], NEW s, NEW t, Chain(s, h),
         \A i \in 1..Num[a] : t[i] = s[i]
  PROVE  Chain(t, a)
<1>1. a \in Block /\ Num[a] \in Nat /\ Num[h] \in Nat /\ Num[a] <= Num[h]
  BY AncMonotone, BlockFacts
<1>2. ASSUME NEW i \in 1..Num[a] PROVE t[i] \in Anc[a] /\ Num[t[i]] = i
  <2>1. i \in 1..Num[h] /\ i <= Num[a]
    BY <1>1
  <2>2. s[i] \in Anc[h] /\ Num[s[i]] = i /\ t[i] = s[i]
    BY <2>1 DEF Chain
  <2>3. s[i] \in Anc[a]
    BY <2>1, <2>2, AncLower
  <2> QED BY <2>2, <2>3
<1> QED BY <1>2 DEF Chain

\* undo takes the last revision away and leaves the others.
LEMMA UndoKeeps ==
  ASSUME applied \in Seq(Block), committed \in 0..Len(applied), NEW i \in 1..Len(applied) - 1
  PROVE  Undo(applied)[i] = applied[i]
<1>1. Len(applied) \in Nat /\ Undo(applied) \in {applied, SubSeq(applied, 1, Len(applied) - 1)}
  BY SeqLength DEF Undo
<1>2. SubSeq(applied, 1, Len(applied) - 1)[i] = applied[i]
  BY <1>1, SeqPart
<1> QED BY <1>1, <1>2, Zenon

\* The two ends of a step: the node is up, or it is down with fork_db.dat written.
LEMMA ChainInvUp ==
  ASSUME Up', Chain(applied', head'), ret' = "replay" => head' \in Anc[fdb'.head],
         pc' = "idle" => pending' = {}
  PROVE  ChainInv'
BY Zenon DEF ChainInv

\* The second end: close() and a failed init leave the state on fork_db.dat's branch.
LEMMA ChainInvDown ==
  ASSUME ~Up', saved', Chain(applied', head'), head' \in Anc[fdb'.head], Len(applied') = Num[head']
  PROVE  ChainInv'
BY Zenon DEF ChainInv, Up

\* apply_block on top of head.
LEMMA ChainApply ==
  ASSUME CInv, ChainInv, Up, pending = {}, LenInv, NEW b \in Block, b # Genesis, Prev[b] = head,
         ApplyBlock(b)
  PROVE  Chain(applied', head')
<1>1. applied \in Seq(Block) /\ head \in Block /\ Len(applied) = Num[head] /\ Chain(applied, head)
  BY DEF CInv, Typed, LenInv, ChainInv
<1>2. Chain(Append(applied, b), b)
  BY <1>1, ChainGrows
<1> QED BY <1>2 DEF ApplyBlock

\* What keeps head and the revisions up to head keeps head's chain.
LEMMA ChainStays ==
  ASSUME CInv, ChainInv, Up, head' = head, \A i \in 1..Num[head] : applied'[i] = applied[i]
  PROVE  Chain(applied', head')
<1>1. head \in Block /\ head \in Anc[head] /\ Chain(applied, head)
  BY AncStep, Zenon DEF CInv, Typed, ChainInv
<1>2. Chain(applied', head)
  BY <1>1, ChainOf
<1> QED BY <1>2

\* The steps of a fork switch.
LEMMA ChainSwitch ==
  ASSUME CInv, LenInv, ChainInv, Calm,
         \/ PopBlock \/ EmptyBack
         \/ \E b \in newBranch : ApplyNext(b) \/ ApplyFails(b)
         \/ \E b \in oldBranch : Reapply(b)
  PROVE  ChainInv'
<1>1. Switching /\ Up
  BY Zenon DEF PopBlock, EmptyBack, ApplyNext, ApplyFails, Reapply, Switching, Up
<1>2. /\ Typed /\ FdbInv(fdb) /\ Closed(fdb) /\ pending = {} /\ OnTree /\ SwitchOK
  BY <1>1, SwitchFacts, Zenon
<1>3. pending' = {}
  BY <1>2, Zenon DEF PopBlock, EmptyBack, ApplyNext, ApplyFails, Reapply
<1>4. Len(applied) = Num[head] /\ head \in Block /\ Num[head] \in Nat /\ Chain(applied, head)
  BY <1>1, <1>2, BlockFacts, Zenon DEF LenInv, Typed, ChainInv
<1>5. CASE PopBlock
  <2>1. head # Genesis /\ committed < Num[head] /\ applied' = Undo(applied) /\ head' = Prev[head]
        /\ ret' = ret /\ pc' \in {"pop", "apply", "unwind", "reapply", "empty_back"}
    BY <1>5, PopFacts, Zenon DEF PopBlock, AfterUnwind
  <2>2. Prev[head] \in Anc[head] /\ Num[Prev[head]] = Num[head] - 1
    <3>1. Prev[head] \in Block /\ Num[head] = Num[Prev[head]] + 1 /\ Prev[head] \in Anc[head]
      BY <1>4, <2>1, AncStep, Zenon
    <3> QED BY <3>1, BlockFacts, SMTT(40)
  <2>3. \A i \in 1..Num[Prev[head]] : applied'[i] = applied[i]
    BY <1>2, <1>4, <2>1, <2>2, UndoKeeps, Zenon DEF Typed
  <2>4. Chain(applied', head')
    BY <1>4, <2>1, <2>2, <2>3, ChainOf, Zenon
  <2>5. ret # "replay"
    BY <1>2, <1>5, Zenon DEF SwitchOK, SwitchFrom, PopBlock
  <2>6. Up' /\ pc' # "idle"
    BY <2>1 DEF Up
  <2> QED BY <2>1, <2>4, <2>5, <2>6, ChainInvUp
<1>6. ASSUME NEW b \in newBranch, ApplyNext(b) PROVE ChainInv'
  <2>1. /\ pc \in {"apply_one", "apply"} /\ Prev[b] = head /\ ApplyBlock(b) /\ ret' = ret
        /\ pc' \in {"apply_one", "apply", "log"}
    BY <1>6, Zenon DEF ApplyNext
  <2>2. PICK oh \in Block, nh \in Block : SwitchFrom(oh, nh)
    BY <1>2 DEF SwitchOK
  <2>3. /\ b \in fdb.index /\ b \in Block /\ b # Genesis
        /\ ret = "replay" => b = nh /\ b \in fdb.validated
    BY <2>1, <2>2, NextFacts, Zenon
  <2>4. Chain(applied', head')
    BY <1>1, <1>2, <2>1, <2>3, ChainApply, Zenon
  <2>5. ret = "replay" => head' \in Anc[fdb'.head]
    <3>1. ASSUME ret = "replay" PROVE fdb' = fdb /\ head' = nh /\ nh \in Anc[fdb.head]
      <4>1. b \in fdb.validated /\ b = nh
        BY <2>3, <3>1, Zenon
      <4>2. fdb' = fdb /\ head' = b
        BY <2>1, <4>1 DEF ApplyBlock, mark_valid
      <4> QED BY <2>2, <3>1, <4>1, <4>2, Zenon DEF SwitchFrom
    <3> QED BY <3>1, Zenon
  <2>6. Up' /\ pc' # "idle"
    BY <2>1 DEF Up
  <2> QED BY <2>1, <2>4, <2>5, <2>6, ChainInvUp, Zenon
<1>7. ASSUME NEW b \in newBranch, ApplyFails(b) PROVE ChainInv'
  <2>1. ret = "idle" /\ head' = head /\ applied' = applied /\ ret' = ret
    BY <1>7, CalmFacts, Zenon DEF ApplyFails, db
  <2>2. pc' \in {"idle", "unwind", "reapply", "empty_back"}
    BY <1>7, <2>1, Zenon DEF ApplyFails, Throw, AfterUnwind
  <2>3. Up'
    BY <2>2 DEF Up
  <2> QED BY <1>1, <1>3, <2>1, <2>3, ChainStays, ChainInvUp, Zenon
<1>8. ASSUME NEW b \in oldBranch, Reapply(b) PROVE ChainInv'
  <2>1. /\ ret = "idle" /\ b \in Block /\ b # Genesis /\ Prev[b] = head /\ ApplyBlock(b)
        /\ ret' = ret
    BY <1>8, CalmFacts, ReapplyFacts, Zenon DEF Reapply
  <2>2. pc' \in {"idle", "reapply"}
    BY <1>8, <2>1, Zenon DEF Reapply, Throw
  <2>3. Chain(applied', head')
    BY <1>1, <1>2, <2>1, ChainApply
  <2>4. Up'
    BY <2>2 DEF Up
  <2> QED BY <1>3, <2>1, <2>3, <2>4, ChainInvUp, Zenon
<1>9. CASE EmptyBack
  <2>1. ret = "idle" /\ head' = head /\ applied' = applied /\ ret' = ret /\ pc' = "idle"
    BY <1>9, CalmFacts, Zenon DEF EmptyBack, Throw, db
  <2>2. Up'
    BY <2>1 DEF Up
  <2> QED BY <1>1, <1>3, <2>1, <2>2, ChainStays, ChainInvUp, Zenon
<1> QED BY <1>5, <1>6, <1>7, <1>8, <1>9

\* The steps of log_irreversible.
LEMMA ChainLogs ==
  ASSUME CInv, LenInv, ChainInv,
         BeginLog \/ AppendBlock \/ AppendApplyFails \/ AppendOutOfSpace \/ AdvanceRootToLog
  PROVE  ChainInv'
<1>1. Logging /\ Up
  BY Zenon DEF BeginLog, AppendBlock, AppendApplyFails, AppendOutOfSpace, AdvanceRootToLog, Logging,
         Appending, Up
<1>2. /\ Typed /\ FdbInv(fdb) /\ Closed(fdb) /\ UpOK /\ LogOK
      /\ mode \in {"head", "irreversible"} /\ (pending # {} => mode = "head" /\ ret = "idle")
  BY <1>1, LoggingFacts
<1>3. ret' = ret /\ (pc' = "idle" => pending' = {})
  BY Zenon DEF BeginLog, AppendBlock, AppendApplyFails, AppendOutOfSpace, AdvanceRootToLog, Return,
         ThrowAndAbort
<1>4. ret = "replay" => head \in Anc[fdb.head]
  BY <1>1 DEF ChainInv
<1>5. CASE BeginLog
  <2>1. fdb.root = LogHead
    <3>1. ~Appending
      BY <1>5, Zenon DEF BeginLog, Appending
    <3> QED BY <1>2, <3>1, Zenon DEF UpOK
  <2>2. head' = head /\ fdb' = fdb /\ applied' = applied /\ pc' \in {ret, "append"}
    BY <1>5, <2>1, Zenon DEF BeginLog, LogHead, Return
  <2>3. Up'
    BY <1>2, <2>2 DEF Up, Typed
  <2> QED BY <1>1, <1>3, <1>4, <2>2, <2>3, ChainStays, ChainInvUp, Zenon
<1>6. CASE AppendBlock \/ AppendOutOfSpace
  <2>1. PICK b : b = Lowest(toLog)
    OBVIOUS
  <2>2. /\ pc = "append" /\ pc' \in {"append", "advance", "advance_throw"}
        /\ IF mode = "irreversible" THEN CanApply(b) /\ ApplyBlock(b)
           ELSE fdb' = fdb /\ head' = head /\ applied' = applied
    BY <1>6, <2>1, Zenon DEF AppendBlock, AppendOutOfSpace
  <2>3. Up' /\ pc' # "idle"
    BY <2>2 DEF Up
  <2>4. CASE mode = "irreversible"
    <3>1. b \in Block /\ b # Genesis
      BY <2>1, <2>2, AppendFacts, Zenon
    <3>2. Prev[b] = head /\ ApplyBlock(b) /\ pending = {} /\ ret = "idle"
      BY <1>2, <2>2, <2>4, Zenon DEF CanApply, LogOK
    <3>3. Chain(applied', head')
      BY <1>1, <3>1, <3>2, ChainApply
    <3> QED BY <1>3, <2>3, <3>2, <3>3, ChainInvUp
  <2>5. CASE mode # "irreversible"
    BY <1>1, <1>3, <1>4, <2>2, <2>3, <2>5, ChainStays, ChainInvUp
  <2> QED BY <2>4, <2>5
<1>7. CASE AppendApplyFails
  <2>1. head' = head /\ fdb' = fdb /\ applied' = applied /\ Up'
    BY <1>7 DEF AppendApplyFails, db, Up
  <2> QED BY <1>1, <1>3, <1>4, <2>1, ChainStays, ChainInvUp, Zenon
<1>8. CASE AdvanceRootToLog
  <2>1. Appending
    BY <1>8, Zenon DEF AdvanceRootToLog, Appending
  <2>2. fdb.root \in Anc[LogHead] /\ LogHead \in Anc[fdb.head]
    BY <1>2, <2>1, Zenon DEF UpOK, AppendOK
  <2>3. LogHead = fdb.root \/ CanAdvanceRoot(fdb, LogHead)
    BY <1>2, <2>2, CanAdvance, Zenon
  <2>4. /\ head' = head /\ (IF pc = "advance" THEN Return ELSE ThrowAndAbort)
        /\ fdb' = IF LogHead # fdb.root THEN advance_root(fdb, LogHead) ELSE fdb
    BY <1>8, <2>3, Zenon DEF AdvanceRootToLog, LogHead
  <2>5. fdb'.head = fdb.head
    BY <1>2, <2>4 DEF advance_root, FdbInv, ForkDb
  <2>6. applied' = applied
    <3>1. pc = "advance_throw" => pending = {}
      BY DEF LenInv
    <3>2. pc \in {"advance", "advance_throw"}
      BY <1>8, Zenon DEF AdvanceRootToLog
    <3> QED BY <2>4, <3>1, <3>2 DEF Return, ThrowAndAbort
  <2>7. Chain(applied', head')
    BY <1>1, <2>4, <2>6, ChainStays
  <2>8. CASE Up'
    BY <1>3, <1>4, <2>4, <2>5, <2>7, <2>8, ChainInvUp
  <2>9. CASE ~Up'
    <3>1. Throw /\ pc' = "down" /\ ret # "idle"
      BY <1>2, <2>4, <2>9 DEF Up, Return, ThrowAndAbort, Throw, Typed
    <3>2. saved'
      BY <3>1 DEF Throw
    <3>3. Len(applied') = Num[head'] /\ (ret # "replay" => head = fdb.head) /\ fdb.head \in Block
      BY <1>2, <2>4, <2>6, FdbFacts DEF LogOK
    <3>4. head' \in Anc[fdb'.head]
      BY <1>4, <2>4, <2>5, <3>3, AncStep, Zenon
    <3> QED BY <2>7, <2>9, <3>2, <3>3, <3>4, ChainInvDown
  <2> QED BY <2>8, <2>9
<1> QED BY <1>5, <1>6, <1>7, <1>8

\* Giving up the block under production leaves head's chain.
LEMMA ChainAborts ==
  ASSUME CInv, ChainInv, pc = "idle", pending # {}, applied' = Undo(applied), head' = head
  PROVE  Chain(applied', head') /\ Len(applied') = Num[head']
<1>1. Typed /\ Len(applied) = Num[head] + 1 /\ Num[head] \in Nat /\ committed <= Num[head]
  BY ProducingFacts, Zenon
<1>2. applied \in Seq(Block) /\ committed \in 0..Len(applied) /\ Up
  BY <1>1 DEF Typed, Up
<1>3. \A i \in 1..Num[head] : applied'[i] = applied[i]
  BY <1>1, <1>2, UndoKeeps
<1>4. Len(applied') = Num[head']
  BY <1>1, UndoOne
<1> QED BY <1>2, <1>3, <1>4, ChainStays

\* Production, and an orderly stop.
LEMMA ChainProduces ==
  ASSUME CInv, LenInv, ChainInv, Calm,
         AbortBlock \/ Shutdown \/ \E b \in Mine : StartBlock(b) \/ CommitBlock(b)
  PROVE  ChainInv'
<1>1. pc = "idle" /\ Up /\ Typed /\ FdbInv(fdb)
  BY Zenon DEF AbortBlock, Shutdown, StartBlock, CommitBlock, Up, CInv
<1>2. /\ applied \in Seq(Block) /\ head \in Block /\ Num[head] \in Nat /\ Chain(applied, head)
      /\ pending = {} => Len(applied) = Num[head]
      /\ ret = "replay" => head \in Anc[fdb.head]
  BY <1>1, BlockFacts, Zenon DEF Typed, LenInv, ChainInv
<1>3. CASE AbortBlock
  <2>1. /\ pending # {} /\ applied' = Undo(applied) /\ head' = head /\ fdb' = fdb /\ ret' = ret
        /\ pending' = {} /\ pc' = pc
    BY <1>3 DEF AbortBlock
  <2> QED BY <1>1, <1>2, <2>1, ChainAborts, ChainInvUp, Zenon DEF Up
<1>4. CASE Shutdown
  <2>1. /\ head = fdb.head /\ fdb' = fdb /\ head' = head /\ pc' = "down" /\ saved'
        /\ applied' = IF pending = {} THEN applied ELSE Undo(applied)
    BY <1>4, CalmFacts DEF Shutdown
  <2>2. Chain(applied', head') /\ Len(applied') = Num[head']
    <3>1. CASE pending = {}
      BY <1>2, <2>1, <3>1, Zenon
    <3>2. CASE pending # {}
      BY <1>1, <2>1, <3>2, ChainAborts, Zenon
    <3> QED BY <3>1, <3>2
  <2>3. head' \in Anc[fdb'.head] /\ ~Up'
    BY <1>2, <2>1, AncStep, Zenon DEF Up
  <2> QED BY <2>1, <2>2, <2>3, ChainInvDown, Zenon
<1>5. ASSUME NEW b \in Mine, StartBlock(b) PROVE ChainInv'
  <2>1. pending = {} /\ head' = head /\ fdb' = fdb /\ ret' = ret /\ pc' = pc /\ b \in Block
    BY <1>5, ControllerAssumption, Zenon DEF StartBlock
  <2>2. CASE pending' = {b} /\ applied' = Append(applied, b)
    <3>1. /\ \A i \in 1..Num[head] : applied'[i] = applied[i]
          /\ applied'[Num[head] + 1] = b
      <4>1. applied \in Seq(Block) /\ Len(applied) = Num[head] /\ b \in Block
        BY <1>2, <2>1, Zenon
      <4>2. /\ \A i \in 1..Len(applied) : Append(applied, b)[i] = applied[i]
            /\ Append(applied, b)[Len(applied) + 1] = b
        BY <4>1, SeqAppend
      <4> QED BY <2>2, <4>1, <4>2, Zenon
    <3>2. Chain(applied', head') /\ Up'
      BY <1>1, <2>1, <3>1, ChainStays DEF Up
    <3> QED BY <1>1, <1>2, <2>1, <2>2, <3>1, <3>2, Zenon DEF ChainInv
  <2>3. CASE pending' = pending /\ applied' = applied
    BY <1>1, <1>2, <2>1, <2>3, ChainInvUp DEF Up
  <2> QED BY <1>5, <2>2, <2>3, Zenon DEF StartBlock
<1>6. ASSUME NEW b \in Mine, CommitBlock(b) PROVE ChainInv'
  <2>1. pending = {b} /\ ret' = "idle"
    BY <1>6, Zenon DEF CommitBlock
  <2>2. b \in Block /\ b # Genesis /\ Prev[b] = head
    BY <1>1, <2>1, ProducingFacts, Zenon
  <2>3. CASE head' = b /\ pc' = "log" /\ applied' = applied
    <3>1. applied[Num[head] + 1] = b
      BY <1>1, <2>1, Zenon DEF ChainInv
    <3>2. Anc[b] = Anc[head] \cup {b} /\ Num[b] = Num[head] + 1
      BY <2>2, AncStep
    <3>3. ASSUME NEW i \in 1..Num[b] PROVE applied[i] \in Anc[b] /\ Num[applied[i]] = i
      <4>1. CASE i \in 1..Num[head]
        BY <1>2, <3>2, <4>1 DEF Chain
      <4>2. CASE i = Num[head] + 1
        BY <3>1, <3>2, <4>2
      <4>3. Num[head] \in Nat
        BY <1>2, Zenon
      <4>4. i \in 1..Num[head] \/ i = Num[head] + 1
        BY <3>2, <4>3
      <4> QED BY <4>1, <4>2, <4>4, Zenon
    <3>4. Chain(applied', head')
      BY <2>3, <3>3 DEF Chain
    <3>5. Up' /\ pc' # "idle"
      BY <2>3 DEF Up
    <3> QED BY <2>1, <3>4, <3>5, ChainInvUp
  <2>4. CASE pending' = {} /\ applied' = Undo(applied) /\ head' = head /\ pc' = pc
    <3>1. Chain(applied', head') /\ Up'
      BY <1>1, <2>1, <2>4, ChainAborts DEF Up
    <3> QED BY <2>1, <2>4, <3>1, ChainInvUp
  <2> QED BY <1>6, <2>3, <2>4, Zenon DEF CommitBlock
<1> QED BY <1>3, <1>4, <1>5, <1>6

\* push_block, and the steps of init after the state database is open.
LEMMA ChainBegins ==
  ASSUME CInv, LenInv, ChainInv,
         \/ \E b \in Block : PushBlock(b)
         \/ ReplayPushBlock \/ InterruptReplay \/ InitBestBranch
  PROVE  ChainInv'
<1>1. /\ Up /\ Typed /\ UpOK /\ FdbInv(fdb) /\ pending = {} /\ pending' = {} /\ head' = head
      /\ applied' = applied
  <2>1. pc \in {"idle", "replay", "init"} /\ pending' = pending /\ head' = head /\ applied' = applied
    BY Zenon DEF PushBlock, ReplayPushBlock, InterruptReplay, InitBestBranch, db
  <2>2. pending = {}
    <3>1. pc = "idle" => pending = {}
      BY Zenon DEF PushBlock, ReplayPushBlock, InterruptReplay, InitBestBranch
    <3> QED BY <2>1, <3>1 DEF CInv, Logging, Appending
  <2> QED BY <2>1, <2>2 DEF Up, CInv
<1>2. Chain(applied', head') /\ Len(applied') = Num[head']
  BY <1>1, Zenon DEF ChainInv, LenInv
<1>3. ASSUME NEW b \in Block, PushBlock(b) PROVE ChainInv'
  <2>1. ret' = "idle" /\ pc' \in {"idle", "log", "apply_one", "pop", "apply"}
    BY <1>3, Zenon DEF PushBlock, MaybeSwitchForks
  <2>2. Up'
    BY <2>1 DEF Up
  <2> QED BY <1>1, <1>2, <2>1, <2>2, ChainInvUp
<1>4. CASE ReplayPushBlock
  <2>1. fdb' = fdb /\ ret = "replay" /\ ret' = "replay" /\ (pc' = "down" \/ pc' = "apply_one")
    BY <1>4, ReplayedIsKnown
  <2>2. head' \in Anc[fdb'.head]
    BY <1>1, <2>1, Zenon DEF ChainInv
  <2>3. CASE pc' = "apply_one"
    BY <1>1, <1>2, <2>2, <2>3, ChainInvUp DEF Up
  <2>4. CASE pc' = "down"
    <3>1. PICK b : b = Lowest(todo)
      OBVIOUS
    <3>2. MaybeSwitchForks(b, "replay") \/ Throw
      BY <1>4, <3>1, Zenon DEF ReplayPushBlock
    <3>3. ~MaybeSwitchForks(b, "replay")
      BY <2>4 DEF MaybeSwitchForks
    <3>4. saved' /\ ~Up'
      BY <2>4, <3>2, <3>3 DEF Throw, Up
    <3> QED BY <1>2, <2>2, <3>4, ChainInvDown, Zenon
  <2> QED BY <2>1, <2>3, <2>4
<1>5. CASE InterruptReplay
  <2>1. pc = "replay" /\ pc' = "down" /\ saved' /\ fdb' = fdb
    BY <1>5 DEF InterruptReplay
  <2>2. head' \in Anc[fdb'.head] /\ ~Up'
    BY <1>1, <2>1 DEF ChainInv, UpOK, Up
  <2> QED BY <1>2, <2>1, <2>2, ChainInvDown, Zenon
<1>6. CASE InitBestBranch
  <2>1. ret' \in {"init", "idle"} /\ pc' \in {"idle", "init", "apply_one", "pop", "apply"}
    BY <1>6, Zenon DEF InitBestBranch, MaybeSwitchForks
  <2>2. Up'
    BY <2>1 DEF Up
  <2> QED BY <1>1, <1>2, <2>1, <2>2, ChainInvUp
<1> QED BY <1>3, <1>4, <1>5, <1>6

\* Starting again, with the state database or without.
LEMMA ChainRestarts ==
  ASSUME CInv, ChainInv, Restarted,
         \E m \in Modes : \E n : Startup(m, n) \/ ReplayBlockchain(m, n)
  PROVE  ChainInv'
<1>1. PICK m \in Modes : \E n : Startup(m, n) \/ ReplayBlockchain(m, n)
  OBVIOUS
<1>2. PICK n : Startup(m, n) \/ ReplayBlockchain(m, n)
  BY <1>1
<1>3. /\ pc = "down" /\ ~Up /\ Typed /\ LogChain /\ FdbInv(fdb) /\ head \in Block
      /\ fdb.head \in Block /\ fdb.root \in Anc[fdb.head]
  <2>1. pc = "down" /\ ~Up
    BY <1>2 DEF Startup, ReplayBlockchain, Up
  <2>2. Typed /\ LogChain /\ FdbInv(fdb) /\ head \in Block
    BY DEF CInv, Typed
  <2> QED BY <2>1, <2>2, FdbFacts, Zenon
<1>4. pc' \in {"down", "replay"} /\ (pc' = "down" => saved')
  BY <1>2, Zenon DEF Startup, ReplayBlockchain, InitFrom
<1>5. SUFFICES Chain(applied', head') /\ head' \in Anc[fdb'.head] /\ Len(applied') = Num[head']
  <2>1. CASE pc' = "down"
    BY <1>4, <1>5, <2>1, ChainInvDown DEF Up
  <2>2. CASE pc' = "replay"
    BY <1>5, <2>2, ChainInvUp DEF Up
  <2> QED BY <1>4, <2>1, <2>2
<1>6. CASE Startup(m, n)
  <2>1. Started(m) /\ saved
    BY <1>6 DEF Restarted, Startup
  <2>2. Chain(applied, head) /\ head \in Anc[fdb.head] /\ Len(applied) = Num[head]
    BY <1>3, <2>1, Zenon DEF ChainInv
  <2>3. CASE StartupKeeps(m)
    <3>1. /\ fdb' = Opened(fdb, m) /\ head' = fdb'.head /\ Num[head'] <= Num[head]
          /\ \A i \in 1..Num[head'] : applied'[i] = applied[i]
      BY <2>2, <2>3 DEF StartupKeeps
    <3>2. fdb'.head \in {fdb.head, fdb.root}
      BY <1>3, <3>1 DEF Opened, rollback_head_to_root, FdbInv, ForkDb
    <3>3. head' \in Anc[fdb.head] /\ head' \in Block
      BY <1>3, <3>1, <3>2, AncStep, AncMonotone, Zenon
    <3>4. head' \in Anc[head]
      BY <1>3, <2>2, <3>1, <3>3, AncLower, Zenon
    <3>5. Chain(applied', head')
      BY <1>3, <2>2, <3>1, <3>4, ChainOf, Zenon
    <3> QED BY <2>1, <3>1, <3>3, <3>5, AncStep, Zenon DEF Started
  <2>4. ASSUME NEW k \in 1..Len(blog), NEW j \in 1..Len(blog), fdb = reset(blog[k]),
               StartupAppends(k, j)
        PROVE  Chain(applied', head') /\ head' \in Anc[fdb'.head] /\ Len(applied') = Num[head']
    <3>1. /\ fdb' = reset(blog[j]) /\ head' = blog[j] /\ k <= Len(applied) /\ k < j
          /\ \A i \in 1..k : applied'[i] = applied[i]
          /\ \A i \in k + 1..j : applied'[i] = blog[i]
      BY <2>4 DEF StartupAppends
    <3>2. /\ blog[k] \in Block /\ blog[j] \in Block /\ Num[blog[k]] = k /\ Num[blog[j]] = j
          /\ k \in Nat /\ j \in Nat /\ Len(blog) \in Nat
      <4>1. k \in 1..k /\ j \in 1..j
        BY <2>4
      <4> QED BY <1>3, <4>1, LogAnc, Zenon
    <3>3. fdb.head = blog[k] /\ fdb'.head = blog[j]
      BY <2>4, <3>1 DEF reset
    <3>4. head = blog[k]
      <4>1. head \in Anc[blog[k]] /\ Num[head] >= Num[blog[k]]
        BY <2>2, <3>1, <3>2, <3>3, Zenon
      <4>2. head # blog[k] => Num[head] < Num[blog[k]]
        BY <3>2, <4>1, AncMonotone, Zenon
      <4>3. Num[head] \in Nat /\ Num[blog[k]] \in Nat
        BY <1>3, <3>2, BlockFacts, Zenon
      <4> QED BY <4>1, <4>2, <4>3
    <3>5. ASSUME NEW i \in 1..j PROVE applied'[i] = blog[i]
      <4>1. CASE i \in 1..k
        <5>1. applied[i] \in Anc[blog[k]] /\ Num[applied[i]] = i
          BY <2>2, <3>2, <3>4, <4>1, Zenon DEF Chain
        <5>2. blog[i] \in Anc[blog[k]] /\ i \in 1..Len(blog)
          BY <1>3, <4>1, LogAnc, Zenon
        <5>3. Num[blog[i]] = i
          BY <1>3, <4>1, LogAnc, Zenon
        <5>4. applied[i] = blog[i]
          BY <3>2, <5>1, <5>2, <5>3, SameBlock
        <5> QED BY <3>1, <4>1, <5>4
      <4>2. CASE i \in k + 1..j
        BY <3>1, <4>2
      <4> QED BY <3>2, <4>1, <4>2
    <3>6. Chain(applied', blog[j])
      BY <1>3, <3>5, ChainLog
    <3> QED BY <2>1, <3>1, <3>2, <3>3, <3>6, AncStep, Zenon DEF Started
  <2> QED BY <2>1, <2>3, <2>4, Zenon DEF Started
<1>7. CASE ReplayBlockchain(m, n)
  <2>1. Replayed(m)
    BY <1>7 DEF Restarted
  <2>2. PICK j \in 1..Len(blog) :
               /\ head' = blog[j] /\ \A i \in 1..j : applied'[i] = blog[i]
               /\ \/ fdb' = reset(blog[j])
                  \/ saved /\ fdb' = Opened(fdb, m) /\ fdb.root = LogHead /\ pc' = "replay"
                     /\ head' = LogHead
    BY <2>1, Zenon DEF Replayed
  <2>3. Chain(applied', head')
    BY <1>3, <2>2, ChainLog, Zenon
  <2>4. head' \in Anc[fdb'.head]
    <3>1. CASE fdb' = reset(blog[j])
      <4>1. blog[j] \in Block /\ fdb'.head = blog[j]
        BY <1>3, <3>1, SeqElement, Zenon DEF LogChain, reset
      <4> QED BY <2>2, <4>1, AncStep, Zenon
    <3>2. CASE fdb' = Opened(fdb, m) /\ fdb.root = LogHead /\ head' = LogHead
      <4>1. fdb'.head \in {fdb.head, fdb.root} /\ head' = fdb.root
        BY <1>3, <3>2 DEF Opened, rollback_head_to_root, FdbInv, ForkDb
      <4> QED BY <1>3, <4>1, AncStep, AncMonotone, Zenon
    <3> QED BY <2>2, <3>1, <3>2, Zenon
  <2> QED BY <2>1, <2>3, <2>4, Zenon DEF Replayed
<1> QED BY <1>2, <1>6, <1>7, Zenon

\* Every step keeps the state database on head's chain.
LEMMA ChainInvNext ==
  ASSUME CInv, LenInv, ChainInv, Calm, Restarted, [Next]_vars
  PROVE  ChainInv'
<1>1. CASE UNCHANGED vars \/ Wait
  <2>1. /\ pc' = pc /\ saved' = saved /\ applied' = applied /\ head' = head /\ fdb' = fdb
        /\ committed' = committed /\ ret' = ret /\ pending' = pending
    BY <1>1, Zenon DEF vars, Wait
  <2> QED BY <2>1, Zenon DEF ChainInv, Up, Chain
<1>2. CASE Die
  BY <1>2, Zenon DEF Die, ChainInv, Up
<1>3. CASE \E b \in Block : PushBlock(b)
  BY <1>3, ChainBegins
<1>4. CASE Continue
  BY <1>4, ChainSwitch, ChainLogs, ChainBegins DEF Continue
<1>5. CASE Produce \/ AbortBlock \/ Shutdown
  BY <1>5, ChainProduces DEF Produce
<1>6. CASE InterruptReplay
  BY <1>6, ChainBegins
<1>7. CASE Restart
  BY <1>7, ChainRestarts DEF Restart
<1> QED BY <1>1, <1>2, <1>3, <1>4, <1>5, <1>6, <1>7 DEF Next

\* The state database holds head's chain and the session that is open.
LEMMA CalmState ==
  ASSUME CInv, LenInv, ChainInv
  PROVE  StateIsHead
<1> SUFFICES ASSUME Up
             PROVE  /\ Len(applied) = Num[head] + (IF pending \subseteq {head} THEN 0 ELSE 1)
                    /\ \A i \in 1..Num[head] : applied[i] \in Anc[head] /\ Num[applied[i]] = i
  BY Zenon DEF StateIsHead
<1>1. \A i \in 1..Num[head] : applied[i] \in Anc[head] /\ Num[applied[i]] = i
  BY DEF ChainInv, Chain
<1>2. head \in Block /\ Num[head] \in Nat
  BY BlockFacts DEF CInv, Typed
<1>3. CASE pending = {}
  <2>1. Len(applied) = Num[head] /\ pending \subseteq {head}
    BY <1>3, Zenon DEF LenInv
  <2>2. Num[head] = Num[head] + 0
    BY <1>2
  <2> QED BY <1>1, <2>1, <2>2, Zenon
<1>4. CASE pending # {} /\ pc = "idle"
  <2>1. PICK b \in Block \ {Genesis} : pending = {b} /\ Prev[b] = head
    BY <1>4, ProducingFacts
  <2>2. b # head
    BY <1>2, <2>1, AncStep
  <2>3. Len(applied) = Num[head] + 1
    BY <1>4, ProducingFacts
  <2> QED BY <1>1, <2>1, <2>2, <2>3
<1>5. CASE pending # {} /\ Logging
  <2>1. Len(applied) = Num[head] /\ pending = {head}
    BY <1>5, LoggingFacts DEF LogOK, LenInv
  <2> QED BY <1>1, <1>2, <2>1
<1> QED BY <1>3, <1>4, <1>5, Zenon DEF CInv

\* Where the block log and head are on one branch, the state database holds what
\* the block log holds.
LEMMA CommonBranch ==
  ASSUME LogChain, NEW t \in Block, NEW r \in 1..Len(blog), blog[r] \in Anc[t], head \in Anc[t],
         Chain(applied, head), NEW i \in 1..r, i <= Num[head]
  PROVE  applied[i] = blog[i]
<1>1. head \in Block /\ Num[head] \in Nat /\ Anc[head] \subseteq Anc[t]
  BY AncMonotone, BlockFacts
<1>2. blog[i] \in Anc[blog[r]] /\ i \in 1..Len(blog) /\ i \in Nat
  BY LogAnc, LogFacts
<1>3. blog[i] \in Anc[t] /\ Num[blog[i]] = i
  BY <1>2, AncMonotone DEF LogChain
<1>4. applied[i] \in Anc[t] /\ Num[applied[i]] = i
  BY <1>1, <1>2 DEF Chain
<1> QED BY <1>3, <1>4, SameBlock

\* What is committed is in the block log, and is the same.
LEMMA CalmCommit ==
  ASSUME CInv, LenInv, ChainInv
  PROVE  CommitAfterLog
<1>1. /\ Typed /\ FdbInv(fdb) /\ LogChain /\ LogHead \in Block /\ Len(blog) \in Nat \ {0}
      /\ Num[LogHead] = Len(blog) /\ LogHead = blog[Len(blog)]
  BY LogFacts DEF CInv, LogHead, LastOf
<1>2. /\ head \in Block /\ Num[head] \in Nat /\ Len(applied) \in Nat
      /\ committed \in Nat /\ committed <= Len(applied)
  BY <1>1, BlockFacts, SeqLength DEF Typed
<1>3. fdb.head \in Block /\ fdb.root \in Anc[fdb.head] /\ fdb.root \in Block
  BY <1>1, FdbFacts
<1>4. SUFFICES /\ committed <= Len(blog)
               /\ \A i \in 1..committed : applied[i] = blog[i]
  <2>1. \A i \in 2..Len(blog) : Num[blog[i]] = i /\ Prev[blog[i]] = blog[i - 1]
    BY <1>1 DEF LogChain
  <2> QED BY <1>4, <2>1 DEF CommitAfterLog
<1>5. ASSUME NEW t \in Block, NEW r \in 1..Len(blog), blog[r] \in Anc[t], head \in Anc[t],
             Chain(applied, head), committed <= r, committed <= Num[head]
      PROVE  committed <= Len(blog) /\ \A i \in 1..committed : applied[i] = blog[i]
  <2>1. committed <= Len(blog) /\ r \in Nat
    BY <1>1, <1>2, <1>5
  <2>2. ASSUME NEW i \in 1..committed PROVE applied[i] = blog[i]
    <3>1. i \in 1..r /\ i <= Num[head]
      BY <1>2, <1>5, <2>1
    <3> QED BY <1>1, <1>5, <3>1, CommonBranch
  <2> QED BY <2>1, <2>2
<1>6. CASE Up /\ Lags
  <2>1. /\ mode = "head" /\ ret = "replay" /\ (Appending \/ pc = "replay")
        /\ Len(applied) < Num[LogHead]
    BY <1>6 DEF Lags
  <2>2. pending = {}
    BY <2>1 DEF CInv, Appending
  <2>3. head \in Anc[fdb.head] /\ Len(applied) = Num[head] /\ Chain(applied, head)
    BY <1>6, <2>1, <2>2 DEF ChainInv, LenInv
  <2>4. LogHead \in Anc[fdb.head]
    <3>1. UpOK
      BY <1>6 DEF CInv
    <3>2. CASE Appending
      BY <3>1, <3>2 DEF UpOK, AppendOK
    <3>3. CASE ~Appending
      BY <1>3, <3>1, <3>3 DEF UpOK
    <3> QED BY <3>2, <3>3, Zenon
  <2>5. Len(blog) \in 1..Len(blog) /\ committed <= Len(blog) /\ committed <= Num[head]
    BY <1>1, <1>2, <2>1, <2>3
  <2> QED BY <1>1, <1>3, <1>5, <2>3, <2>4, <2>5
<1>7. CASE Up /\ ~Lags
  <2>1. LogHead \in Anc[head] /\ committed = Num[LogHead] /\ Chain(applied, head)
    BY <1>7, Zenon DEF CInv, UpOK, OnTree, ChainInv
  <2>2. Num[LogHead] <= Num[head] /\ head \in Anc[head]
    BY <1>1, <1>2, <2>1, AncMonotone, AncStep, Zenon
  <2>3. Len(blog) \in 1..Len(blog) /\ committed <= Len(blog) /\ committed <= Num[head]
    <3>1. /\ Len(blog) \in Nat \ {0} /\ Num[LogHead] = Len(blog) /\ committed = Num[LogHead]
          /\ Num[LogHead] <= Num[head]
      BY <1>1, <2>1, <2>2, Zenon
    <3> QED BY <3>1
  <2> QED BY <1>1, <1>2, <1>5, <2>1, <2>2, <2>3
<1>8. CASE ~Up /\ saved
  <2>1. DownOK /\ Chain(applied, head) /\ head \in Anc[fdb.head] /\ Len(applied) = Num[head]
    BY <1>8 DEF CInv, ChainInv
  <2>2. PICK r \in 1..Len(blog) : fdb.root = blog[r]
    <3>1. CASE fdb.root = LogHead
      <4>1. Len(blog) \in 1..Len(blog)
        BY <1>1
      <4> QED BY <1>1, <3>1, <4>1
    <3>2. ASSUME NEW k \in 1..Len(blog), fdb = reset(blog[k]) PROVE fdb.root = blog[k]
      BY <3>2 DEF reset
    <3> QED BY <2>1, <3>1, <3>2 DEF DownOK
  <2>3. Num[fdb.root] = r /\ r \in Nat
    BY <1>1, <2>2 DEF LogChain
  <2>4. committed <= r /\ committed <= Num[head]
    BY <1>2, <2>1, <2>3, SMTT(40) DEF DownOK
  <2> QED BY <1>3, <1>5, <2>1, <2>2, <2>4
<1>9. CASE ~Up /\ ~saved
  <2>1. committed = 0
    BY <1>9 DEF ChainInv
  <2> QED BY <1>1, <2>1
<1> QED BY <1>6, <1>7, <1>8, <1>9

=============================================================================
