-------------------------- MODULE HeaderStateProofs --------------------------
(***************************************************************************)
(* Proofs about block header states, for every set of producers, every     *)
(* set of schedules and every size of the confirmation window.             *)
(*                                                                         *)
(* The lemmas say what Confirm and calc_dpos_last_irreversible compute;    *)
(* then each part of the inductive invariant HInv is shown to survive a    *)
(* block.  What holds only as long as no schedule is replaced by a smaller *)
(* one has that condition, PendingNotSmaller, in the theorem.              *)
(***************************************************************************)
EXTENDS HeaderState, WellFoundedInduction, FiniteSetTheorems, SequenceTheorems, TLAPS

\* A non-empty set of naturals has a smallest element.  Induction on block
\* numbers is used as the search for a smallest counterexample.
LEMMA SmallestNat ==
  ASSUME NEW T, T \subseteq Nat, T # {}
  PROVE  \E x \in T : \A y \in T : x <= y
<1> DEFINE R == {ss \in Nat \X Nat : ss[1] < ss[2]}
<1>1. IsWellFoundedOn(R, Nat)
  BY NatLessThanWellFounded DEF OpToRel
<1> HIDE DEF R
<1>2. PICK x \in T : \A y \in T : ~ (<<y, x>> \in R)
  BY <1>1, WFMin, Zenon
<1>3. \A y \in T : ~ (y < x)
  BY <1>2, Zenon DEF R
<1> QED BY <1>3

\* A bounded non-empty set of naturals has a largest element.
LEMMA LargestNat ==
  ASSUME NEW T, T \subseteq Nat, T # {}, NEW B \in Nat, \A y \in T : y <= B
  PROVE  \E x \in T : \A y \in T : y <= x
<1> DEFINE U == {B - y : y \in T}
<1>1. U \subseteq Nat /\ U # {}
  <2>1. PICK z \in T : TRUE
    BY Zenon
  <2>2. B - z \in U
    OBVIOUS
  <2>3. \A y \in T : B - y \in Nat
    OBVIOUS
  <2> QED BY <2>2, <2>3
<1>2. PICK u \in U : \A v \in U : u <= v
  BY <1>1, SmallestNat, Zenon
<1>3. PICK x \in T : u = B - x
  BY <1>2
<1>4. \A y \in T : B - x <= B - y
  BY <1>2, <1>3, Zenon
<1> QED BY <1>3, <1>4

\* A sequence that lists nothing twice has as many elements as its length.
LEMMA UniqueLength ==
  ASSUME NEW E, NEW S \in Seq(E), \A i, j \in DOMAIN S : S[i] = S[j] => i = j
  PROVE  /\ IsFiniteSet({S[i] : i \in DOMAIN S})
         /\ Cardinality({S[i] : i \in DOMAIN S}) = Len(S)
<1> DEFINE M == {S[i] : i \in DOMAIN S}
<1>1. Len(S) \in Nat /\ DOMAIN S = 1..Len(S)
  OBVIOUS
<1>2. S \in Bijection(1..Len(S), M)
  BY <1>1 DEF Bijection, Injection, Surjection, IsInjective
<1>3. ExistsBijection(1..Len(S), M)
  BY <1>2 DEF ExistsBijection
<1>4. IsFiniteSet(1..Len(S)) /\ Cardinality(1..Len(S)) = Len(S)
  BY <1>1, FS_Interval, SMTT(40)
<1> QED BY <1>3, <1>4, FS_Bijection

(***************************************************************************)
(* The element that nth_element leaves at position `index` of a non-empty  *)
(* collection of bounded numbers: at most `index` are below it and more    *)
(* than `index` are not above it.                                          *)
(***************************************************************************)
Below(P, view, v)    == {q \in P : view[q] < v}
NotAbove(P, view, v) == {q \in P : view[q] <= v}

\* There is such an element: the least value that more than `index` are not above.
LEMMA NthElement ==
  ASSUME NEW P, IsFiniteSet(P), NEW B \in Nat, NEW view, \A q \in P : view[q] \in 0..B,
         NEW index \in Nat, index < Cardinality(P)
  PROVE  \E z \in P : /\ Cardinality(Below(P, view, view[z])) <= index
                      /\ Cardinality(NotAbove(P, view, view[z])) > index
<1> DEFINE T == {n \in Nat : Cardinality(NotAbove(P, view, n)) > index}
<1>0. \A n : /\ Cardinality(NotAbove(P, view, n)) \in Nat
             /\ Cardinality(Below(P, view, n)) \in Nat
  BY FS_Subset, FS_CardinalityType DEF NotAbove, Below
<1>1. B \in T
  <2>1. NotAbove(P, view, B) = P
    BY DEF NotAbove
  <2> QED BY <2>1, FS_CardinalityType
<1>2. PICK v \in T : \A m \in T : v <= m
  BY <1>1, SmallestNat, Zenon
<1>3. v \in Nat /\ Cardinality(NotAbove(P, view, v)) > index
  BY <1>2
<1>4. Cardinality(Below(P, view, v)) <= index
  <2>1. CASE v = 0
    <3>1. Below(P, view, v) = {}
      BY <2>1 DEF Below
    <3> QED BY <3>1, FS_EmptySet
  <2>2. CASE v # 0
    <3>1. v - 1 \in Nat /\ v - 1 \notin T
      BY <1>2, <1>3, <2>2
    <3>2. NotAbove(P, view, v - 1) = Below(P, view, v)
      BY <1>3 DEF NotAbove, Below
    <3> QED BY <3>1, <3>2, <1>0
  <2> QED BY <2>1, <2>2
<1>5. PICK z \in P : view[z] = v
  <2>1. ASSUME \A q \in P : view[q] # v PROVE FALSE
    <3>1. NotAbove(P, view, v) = Below(P, view, v)
      BY <2>1, <1>3 DEF NotAbove, Below
    <3> QED BY <3>1, <1>0, <1>3, <1>4
  <2> QED BY <2>1
<1> QED BY <1>3, <1>4, <1>5

\* The window with one count more, and what is left of it without the first.
LEMMA AppendTail ==
  ASSUME NEW s \in Seq(Nat \ {0}), NEW r \in Nat \ {0}
  PROVE  /\ Len(s) \in Nat
         /\ Append(s, r) \in Seq(Nat \ {0}) /\ Len(Append(s, r)) = Len(s) + 1
         /\ \A i \in 1..Len(s) : Append(s, r)[i] = s[i]
         /\ Append(s, r)[Len(s) + 1] = r
         /\ Tail(Append(s, r)) \in Seq(Nat \ {0}) /\ Len(Tail(Append(s, r))) = Len(s)
         /\ \A i \in 1..Len(s) : Tail(Append(s, r))[i] = Append(s, r)[i + 1]
<1>1. /\ Append(s, r) \in Seq(Nat \ {0}) /\ Append(s, r) # <<>> /\ Len(Append(s, r)) = Len(s) + 1
      /\ \A i \in 1..Len(s) : Append(s, r)[i] = s[i]
      /\ Append(s, r)[Len(s) + 1] = r
  BY AppendProperties, SMTT(40)
<1> QED BY <1>1, HeadTailProperties, LenProperties

\* A flat_map keyed by some of the producers, and the record of a header state.
MapsTo(T) == UNION {[D -> T] : D \in SUBSET Producer}

HeaderRecord ==
  [num : Nat, slot : Nat, proposed : Nat, irr : Nat, confirm : Seq(Nat \ {0}),
   last : MapsTo(Nat), implied : MapsTo(Nat),
   active : Seq(Producer), activeVersion : Nat,
   pending : Seq(Producer), pendingVersion : Nat, pendingLib : Nat]

\* A proposed schedule in the global property object.
Proposal == [num : Nat, producers : Seq(Producer), version : Nat]

(***************************************************************************)
(* The parts of the invariant, over a header state h.                      *)
(***************************************************************************)
\* The heights, and the maps of the producers.
Formed(h) ==
  /\ h \in HeaderRecord
  /\ h.num \in 1..MaxNum /\ h.proposed <= h.num /\ h.irr <= h.proposed /\ h.irr < h.num
  /\ h.pendingLib <= h.num
  /\ h.active # <<>> /\ Unique(h.active) /\ Unique(h.pending)
  /\ \A q \in DOMAIN h.implied : h.implied[q] <= h.proposed
  /\ IF h.num = 1
     THEN DOMAIN h.implied = {} /\ h.pending # <<>> /\ h.pendingLib = 0 /\ h.confirm = <<>>
     ELSE DOMAIN h.implied = Members(h.active) /\ Members(h.active) \subseteq DOMAIN h.last

\* The lowest height of the window is the one after this.
Base(h) == h.num - Len(h.confirm)

\* What is left to confirm of each height, against the history.
Exact(h, conf, need) ==
  /\ Len(h.confirm) <= MaxTracked /\ h.proposed <= Base(h)
  /\ \A k \in Base(h) + 1 .. h.num :
       h.confirm[k - Base(h)] = need[k] - Cardinality(conf[k])
  /\ h.proposed > 0 => Cardinality(conf[h.proposed]) >= need[h.proposed]

(***************************************************************************)
(* Why a producer cannot confirm a height twice although it may leave the  *)
(* schedule, lose its entry of producer_to_last_produced and come back: it *)
(* comes back with a schedule that became pending after the heights it had *)
(* confirmed, and with the last irreversible block as its last produced.   *)
(***************************************************************************)
Remembered(h, conf) ==
  \A k \in 1..MaxNum : \A q \in conf[k] :
    \/ q \in DOMAIN h.last /\ h.last[q] >= k
    \/ /\ q \notin DOMAIN h.last /\ q \notin Members(h.active)
       /\ h.pending # <<>> => k <= h.pendingLib

\* The version of the pending schedule, and of the proposed one.
Versions(h, g) ==
  /\ h.num > 1 /\ h.pending # <<>> => h.pendingVersion = h.activeVersion + 1
  /\ h.num = 1 => g.num = 0
  /\ g.num # 0 => /\ g.producers \in Schedule
                  /\ g.version = 1 + IF h.pending = <<>> THEN h.activeVersion
                                                         ELSE h.pendingVersion

\* The history variables: who confirmed a height, and how many that took.
History(h, conf, need) ==
  /\ conf \in [1..MaxNum -> SUBSET Producer]
  /\ need \in [1..MaxNum -> 0..required_confs(Cardinality(Producer))]
  /\ \A k \in 1..MaxNum : k > h.num => conf[k] = {}

\* The inductive invariant.
HInv ==
  /\ Formed(hs) /\ gpo \in Proposal
  /\ History(hs, confirmers, needed)
  /\ Exact(hs, confirmers, needed)
  /\ Remembered(hs, confirmers)
  /\ Versions(hs, gpo) /\ badVersion = FALSE

(***************************************************************************)
(* The condition on the schedules: the one that becomes active is at least *)
(* as large as the one it replaces.                                        *)
(***************************************************************************)
PendingNotSmaller == hs.pending # <<>> => Len(hs.pending) >= Len(hs.active)

\* At most a third of the active producers, rounded down, are behind irr.
FewBehind(h) ==
  h.num > 1 => Cardinality({q \in Members(h.active) : h.implied[q] < h.irr})
                 <= (Len(h.active) - 1) \div 3

-----------------------------------------------------------------------------
(***************************************************************************)
(* The operators.                                                          *)
(***************************************************************************)
\* The producers of a schedule are finitely many, as many as it lists.
LEMMA MembersFacts ==
  ASSUME NEW S \in Seq(Producer), Unique(S)
  PROVE  /\ Members(S) \subseteq Producer /\ IsFiniteSet(Members(S))
         /\ Cardinality(Members(S)) = Len(S) /\ Len(S) <= Cardinality(Producer)
<1>1. Members(S) \subseteq Producer
  BY DEF Members
<1>2. IsFiniteSet(Members(S)) /\ Cardinality(Members(S)) = Len(S)
  BY UniqueLength DEF Members, Unique
<1>3. Cardinality(Members(S)) <= Cardinality(Producer)
  BY <1>1, HeaderAssumption, FS_Subset
<1> QED BY <1>1, <1>2, <1>3

\* More confirmations are needed of a larger schedule.
LEMMA RequiredFacts ==
  /\ \A n \in Nat : required_confs(n) \in Nat \ {0}
  /\ \A m, n \in Nat : m <= n => required_confs(m) <= required_confs(n)
BY DEF required_confs

\* The producer of any slot is a member of the active schedule.
LEMMA ScheduledIsActive ==
  ASSUME NEW h, h.active \in Seq(Producer), h.active # <<>>, NEW t \in Nat
  PROVE  get_scheduled_producer(h, t) \in Members(h.active)
<1> DEFINE N == Len(h.active)
           M == N * Repetitions
           x == t % M
<1>1. N \in Nat \ {0} /\ Repetitions \in Nat \ {0} /\ DOMAIN h.active = 1..N
  BY HeaderAssumption, EmptySeq
<1>2. M \in Nat \ {0}
  <2>1. M \in Nat
    BY <1>1
  <2>2. M > 0
    BY <1>1, SMT
  <2> QED BY <2>1, <2>2
<1>3. x \in Nat /\ x < M
  <2> HIDE DEF M
  <2> QED BY <1>2
<1>4. x \div Repetitions \in 0..(N - 1)
  <2> DEFINE d == x \div Repetitions
  <2> HIDE DEF x, N
  <2>1. d \in Nat /\ d * Repetitions <= x
    BY <1>1, <1>3, Z3
  <2> HIDE DEF d
  <2>2. ASSUME d >= N PROVE d * Repetitions >= N * Repetitions
    BY <1>1, <2>1, <2>2, Z3
  <2> QED BY <1>1, <1>3, <2>1, <2>2, Z3
<1>5. x \div Repetitions + 1 \in DOMAIN h.active
  <2> HIDE DEF x
  <2> QED BY <1>1, <1>4
<1> QED BY <1>5 DEF get_scheduled_producer, Members

\* The producers' implied views once the block of p is counted.
View(h, p) == [q \in DOMAIN h.implied |-> IF q = p THEN h.proposed ELSE h.implied[q]]

Third(h) == (Cardinality(DOMAIN h.implied) - 1) \div 3

\* calc_dpos_last_irreversible finds a block that is not above the proposed one,
\* that at most a third of the views are below and more than a third not above.
LEMMA IrrFacts ==
  ASSUME NEW h, Formed(h), NEW p
  PROVE  LET irr == calc_dpos_last_irreversible(h, p)
             P   == DOMAIN h.implied
         IN  /\ irr \in 0..h.proposed
             /\ h.num = 1 => irr = 0
             /\ h.num > 1 => /\ Cardinality(Below(P, View(h, p), irr)) <= Third(h)
                             /\ Cardinality(NotAbove(P, View(h, p), irr)) > Third(h)
<1> DEFINE P == DOMAIN h.implied
           irr == calc_dpos_last_irreversible(h, p)
           Nth(v) == /\ Cardinality(Below(P, View(h, p), v)) <= Third(h)
                     /\ Cardinality(NotAbove(P, View(h, p), v)) > Third(h)
<1>1. h.proposed \in Nat /\ h.num \in Nat \ {0} /\ \A q \in P : View(h, p)[q] \in 0..h.proposed
  BY DEF Formed, HeaderRecord, MapsTo, View
<1>2. CASE h.num = 1
  <2>1. P = {}
    BY <1>2 DEF Formed
  <2> QED BY <1>1, <1>2, <2>1 DEF calc_dpos_last_irreversible
<1>3. CASE h.num # 1
  <2>1. /\ P = Members(h.active) /\ h.active \in Seq(Producer) /\ h.active # <<>>
        /\ Unique(h.active)
    BY <1>3 DEF Formed, HeaderRecord
  <2>2. IsFiniteSet(P) /\ Cardinality(P) = Len(h.active) /\ Len(h.active) \in Nat \ {0}
    BY <2>1, MembersFacts, EmptySeq
  <2>3. Third(h) \in Nat /\ Third(h) < Cardinality(P)
    BY <2>2 DEF Third
  <2>4. P # {}
    BY <2>2, FS_EmptySet
  <2>5. irr = CHOOSE v \in {View(h, p)[q] : q \in P} : Nth(v)
    BY <2>4, Zenon DEF calc_dpos_last_irreversible, View, Third, Below, NotAbove
  <2>6. \E z \in P : Nth(View(h, p)[z])
    BY <1>1, <2>2, <2>3, NthElement, Zenon
  <2> HIDE DEF Nth, irr
  <2>7. irr \in {View(h, p)[q] : q \in P} /\ Nth(irr)
    BY <2>5, <2>6
  <2> QED BY <1>1, <1>3, <2>7 DEF Nth, irr
<1> QED BY <1>2, <1>3

\* What is left to confirm of height k when the block after h begins to count.
Left(h, k) ==
  IF k = h.num + 1 THEN required_confs(Len(h.active)) ELSE h.confirm[k - Base(h)]

\* The window the next block counts in: the heights after Before(h).
Before(h) == IF Len(h.confirm) < MaxTracked THEN Base(h) ELSE Base(h) + 1

\* The new block's count enters the window, and the oldest leaves a full one.
LEMMA WindowFacts ==
  ASSUME NEW h, h.num \in Nat, h.confirm \in Seq(Nat \ {0}), Len(h.confirm) <= MaxTracked,
         h.active \in Seq(Producer)
  PROVE  /\ Window(h) \in Seq(Nat \ {0})
         /\ Len(Window(h)) = h.num + 1 - Before(h) /\ Len(Window(h)) \in 1..MaxTracked
         /\ \A i \in 1..Len(Window(h)) : Window(h)[i] = Left(h, Before(h) + i)
<1> DEFINE r == required_confs(Len(h.active))
           s == h.confirm
           w == Append(s, r)
           n == Len(s)
           b == Base(h)
<1>1. r \in Nat \ {0} /\ s \in Seq(Nat \ {0}) /\ n \in Nat /\ MaxTracked \in Nat \ {0}
  <2>1. Len(h.active) \in Nat /\ Len(h.confirm) \in Nat
    BY LenProperties
  <2> QED BY <2>1, RequiredFacts, HeaderAssumption, Zenon
<1>2. b \in Int /\ h.num = b + n /\ n <= MaxTracked
  BY <1>1 DEF Base
<1>3. \A k \in Int : Left(h, k) = IF k = b + n + 1 THEN r ELSE s[k - b]
  BY <1>2 DEF Left
<1>4. /\ Before(h) = IF n < MaxTracked THEN b ELSE b + 1
      /\ Window(h) = IF n < MaxTracked THEN w ELSE Tail(w)
  BY DEF Before, Window
<1> HIDE DEF r, s, b
<1>5. /\ w \in Seq(Nat \ {0}) /\ Len(w) = n + 1
      /\ \A i \in 1..n : w[i] = s[i]
      /\ w[n + 1] = r
      /\ Tail(w) \in Seq(Nat \ {0}) /\ Len(Tail(w)) = n
      /\ \A i \in 1..n : Tail(w)[i] = w[i + 1]
  <2>1. r \in Nat \ {0} /\ s \in Seq(Nat \ {0})
    BY <1>1
  <2> QED BY <2>1, AppendTail
<1> HIDE DEF n, w
<1>6. ASSUME NEW i \in 1..n + 1 PROVE w[i] = Left(h, b + i)
  <2>1. b + i \in Int /\ (b + i) - b = i /\ (i = n + 1 <=> b + i = b + n + 1)
    BY <1>1, <1>2
  <2>2. Left(h, b + i) = IF i = n + 1 THEN r ELSE s[i]
    BY <1>3, <2>1
  <2> QED BY <1>1, <1>5, <2>2
<1>7. CASE n < MaxTracked
  <2>1. Window(h) = w /\ Before(h) = b
    BY <1>4, <1>7
  <2>2. Len(w) = h.num + 1 - b /\ Len(w) \in 1..MaxTracked
    BY <1>1, <1>2, <1>5, <1>7
  <2> QED BY <1>5, <1>6, <2>1, <2>2
<1>8. CASE ~(n < MaxTracked)
  <2>1. Window(h) = Tail(w) /\ Before(h) = b + 1
    BY <1>4, <1>8
  <2>2. ASSUME NEW i \in 1..n PROVE w[i + 1] = Left(h, b + 1 + i)
    <3>1. PICK j : j = i + 1
      OBVIOUS
    <3>2. j \in 1..n + 1 /\ b + 1 + i = b + j
      BY <1>1, <1>2, <3>1
    <3>3. w[j] = Left(h, b + j)
      BY <1>6, <3>2, Zenon
    <3> QED BY <3>1, <3>2, <3>3, Zenon
  <2> QED BY <1>1, <1>2, <1>5, <1>8, <2>1, <2>2, SMTT(40)
<1> QED BY <1>7, <1>8

\* The next block confirms itself and the c blocks before it: the counts of
\* these heights go down by one, none stays at zero, and the highest that
\* reaches zero becomes the proposed irreversible block.
LEMMA ConfirmFacts ==
  ASSUME NEW h, h.num \in Nat, h.confirm \in Seq(Nat \ {0}), Len(h.confirm) <= MaxTracked,
         h.active \in Seq(Producer), NEW c \in Nat
  PROVE  LET r == Confirm(h, c)
             base == h.num + 1 - Len(r.confirm)
         IN  /\ r.confirm \in Seq(Nat \ {0}) /\ Len(r.confirm) <= MaxTracked
             /\ base >= Before(h)
             /\ \A i \in 1..Len(r.confirm) :
                  r.confirm[i] = Left(h, base + i) - IF base + i >= h.num + 1 - c THEN 1 ELSE 0
             /\ \/ r.proposed = h.proposed
                \/ /\ r.proposed = base /\ r.proposed \in Before(h) + 1 .. h.num + 1
                   /\ r.proposed >= h.num + 1 - c /\ Left(h, r.proposed) = 1
<1> DEFINE w == Window(h)
           L == Len(w)
           B == Before(h)
           less(i) == IF i >= L - c THEN w[i] - 1 ELSE w[i]
           zero == {i \in 1..L : i >= L - c /\ w[i] = 1}
           down == [i \in 1..L |-> less(i)]
           r == Confirm(h, c)
<1>1. /\ w \in Seq(Nat \ {0}) /\ L = h.num + 1 - B /\ L \in 1..MaxTracked
      /\ \A i \in 1..L : w[i] = Left(h, B + i)
  BY WindowFacts
<1>2. B \in Int /\ MaxTracked \in Nat
  <2>1. Len(h.confirm) \in Nat
    BY LenProperties
  <2> QED BY <2>1, HeaderAssumption DEF Before, Base
<1>0. L \in Nat /\ L >= 1 /\ L <= MaxTracked /\ h.num = L + B - 1
  BY <1>1, <1>2, SMTT(40)
<1>3. ASSUME NEW i \in 1..L
      PROVE  /\ less(i) \in Nat
             /\ less(i) = Left(h, B + i) - IF B + i >= h.num + 1 - c THEN 1 ELSE 0
             /\ i \notin zero => less(i) # 0
  <2>1. w[i] \in Nat \ {0} /\ w[i] = Left(h, B + i) /\ L \in Nat
    BY <1>1, ElementOfSeq
  <2> HIDE DEF w, L, B
  <2>2. i >= L - c <=> B + i >= h.num + 1 - c
    BY <1>0, <1>2, SMTT(40)
  <2>3. less(i) \in Nat
    BY <2>1
  <2> QED BY <2>1, <2>2, <2>3
<1>4. CASE zero = {}
  <2>1. r = [confirm |-> down, proposed |-> h.proposed]
    BY <1>4, Zenon DEF Confirm
  <2>2. r.confirm = down /\ r.proposed = h.proposed
    BY <2>1
  <2>3. down \in [1..L -> Nat \ {0}] /\ \A i \in 1..L : down[i] = less(i)
    BY <1>3, <1>4
  <2>4. down \in Seq(Nat \ {0}) /\ Len(down) = L
    <3> HIDE DEF down, L
    <3> QED BY <1>0, <2>3
  <2>5. h.num + 1 - L = B /\ L <= MaxTracked
    BY <1>0, <1>2
  <2> HIDE DEF down, r, zero, L, B, less
  <2>6. \A i \in 1..L : down[i] = Left(h, B + i) - IF B + i >= h.num + 1 - c THEN 1 ELSE 0
    BY <1>3, <2>3
  <2>7. /\ r.confirm \in Seq(Nat \ {0}) /\ Len(r.confirm) = L /\ Len(r.confirm) <= MaxTracked
        /\ h.num + 1 - Len(r.confirm) = B
    BY <2>2, <2>4, <2>5
  <2> QED BY <1>2, <2>2, <2>6, <2>7 DEF r, B
<1>5. CASE zero # {}
  <2> DEFINE m == CHOOSE i \in zero : \A j \in zero : j <= i
             rest == SubSeq(down, m + 1, L)
  <2>1. r.confirm = rest /\ r.proposed = h.num + 1 - (L - m)
    BY <1>5, Zenon DEF Confirm
  <2>2. m \in zero /\ \A j \in zero : j <= m
    <3>1. zero \subseteq Nat /\ L \in Nat /\ \A y \in zero : y <= L
      BY <1>1
    <3>2. \E x \in zero : \A y \in zero : y <= x
      BY <1>5, <3>1, LargestNat, Zenon
    <3> QED BY <3>2, Zenon
  <2> HIDE DEF m
  <2>3. m \in 1..L /\ L \in Nat /\ m + 1 \in Int /\ L \in Int
    BY <1>1, <2>2
  <2>4. ASSUME NEW j \in m + 1 .. L PROVE down[j] = less(j) /\ less(j) \in Nat \ {0}
    <3>1. j \in 1..L /\ j \notin zero
      BY <2>2, <2>3
    <3> QED BY <1>3, <3>1
  <2> HIDE DEF down, zero, less, r, L, B
  <2>5. /\ rest \in Seq(Nat \ {0})
        /\ Len(rest) = IF m + 1 <= L THEN L - (m + 1) + 1 ELSE 0
        /\ \A i \in 1 .. L - (m + 1) + 1 : rest[i] = down[(m + 1) + i - 1]
    BY <2>3, <2>4, SubSeqProperties, SMTT(40)
  <2> HIDE DEF rest
  <2>6. Len(rest) = L - m /\ h.num + 1 - (L - m) = B + m /\ L - m <= MaxTracked
    <3>1. Len(rest) = L - m
      BY <2>3, <2>5
    <3> QED BY <1>0, <1>2, <2>3, <3>1
  <2>7. ASSUME NEW i \in 1..Len(rest)
        PROVE  rest[i] = Left(h, (B + m) + i)
                           - IF (B + m) + i >= h.num + 1 - c THEN 1 ELSE 0
    <3>1. /\ m + i \in m + 1 .. L /\ m + i \in 1..L /\ (m + 1) + i - 1 = m + i
          /\ i \in 1 .. L - (m + 1) + 1
      BY <2>3, <2>6
    <3>2. rest[i] = down[m + i]
      BY <2>5, <3>1
    <3>3. rest[i] = less(m + i)
      BY <2>4, <3>1, <3>2
    <3>4. B + (m + i) = (B + m) + i
      BY <1>2, <2>3, <3>1
    <3> QED BY <1>3, <3>1, <3>3, <3>4
  <2>8. Left(h, B + m) = 1 /\ m >= L - c
    BY <1>1, <2>2, <2>3 DEF zero, L, B
  <2>9. B + m \in B + 1 .. h.num + 1 /\ B + m >= h.num + 1 - c /\ B + m >= B
    BY <1>0, <1>2, <2>3, <2>8
  <2>10. r.confirm = rest /\ r.proposed = B + m /\ h.num + 1 - Len(r.confirm) = B + m
    BY <2>1, <2>6
  <2> QED BY <1>2, <2>5, <2>6, <2>7, <2>8, <2>9, <2>10 DEF r, B
<1> QED BY <1>4, <1>5

-----------------------------------------------------------------------------
(***************************************************************************)
(* The next block.                                                         *)
(***************************************************************************)
\* Whether the block of p makes the pending schedule active.
Promotes(h, p) == h.pending # <<>> /\ calc_dpos_last_irreversible(h, p) >= h.pendingLib

\* A map of the producers with the entry of p set.
LEMMA OverrideFacts ==
  ASSUME NEW f \in MapsTo(Nat), NEW p \in Producer, NEW v \in Nat
  PROVE  /\ Override(f, p, v) \in MapsTo(Nat)
         /\ DOMAIN Override(f, p, v) = DOMAIN f \cup {p}
         /\ \A q \in DOMAIN f \cup {p} : Override(f, p, v)[q] = IF q = p THEN v ELSE f[q]
<1>1. PICK D \in SUBSET Producer : f \in [D -> Nat]
  BY DEF MapsTo
<1>2. Override(f, p, v) \in [D \cup {p} -> Nat] /\ D \cup {p} \in SUBSET Producer
  BY <1>1 DEF Override
<1>3. Override(f, p, v) \in MapsTo(Nat)
  BY <1>2 DEF MapsTo
<1> QED BY <1>3 DEF Override

\* The maps carried over to another schedule.
LEMMA CarriedFacts ==
  ASSUME NEW f \in MapsTo(Nat), NEW irr \in Nat, NEW S, Members(S) \in SUBSET Producer
  PROVE  /\ Carried(f, irr, S) \in MapsTo(Nat) /\ DOMAIN Carried(f, irr, S) = Members(S)
         /\ \A q \in Members(S) : Carried(f, irr, S)[q] = IF q \in DOMAIN f THEN f[q] ELSE irr
<1>1. PICK D \in SUBSET Producer : f \in [D -> Nat]
  BY DEF MapsTo
<1>2. Carried(f, irr, S) \in [Members(S) -> Nat]
  BY <1>1 DEF Carried
<1>3. Carried(f, irr, S) \in MapsTo(Nat)
  BY <1>2 DEF MapsTo
<1> QED BY <1>3 DEF Carried

\* The schedule and the maps of the header state of the next block, if p is its
\* producer.
NextActive(h, p)  == IF Promotes(h, p) THEN h.pending ELSE h.active
NextPending(h, p) == IF Promotes(h, p) THEN <<>> ELSE h.pending
NextVersion(h, p) == IF Promotes(h, p) THEN h.pendingVersion ELSE h.activeVersion

NextLast(h, p) ==
  IF Promotes(h, p)
  THEN Override(Carried(h.last, calc_dpos_last_irreversible(h, p), h.pending), p, h.num + 1)
  ELSE Override(h.last, p, h.num + 1)

NextImplied(h, p) ==
  IF Promotes(h, p)
  THEN [q \in Members(h.pending) |->
          IF q = p THEN h.proposed
          ELSE Carried(h.implied, calc_dpos_last_irreversible(h, p), h.pending)[q]]
  ELSE Override(h.implied, p, h.proposed)

\* The entry of q in a map that was f, when p has produced the block: v for p,
\* and the last irreversible block for a newcomer.
Entry(f, q, p, v, irr) == IF q = p THEN v ELSE IF q \in DOMAIN f THEN f[q] ELSE irr

\* The entries of the maps.
LEMMA NextMaps ==
  ASSUME NEW h, Formed(h), NEW p \in Members(h.active)
  PROVE  /\ NextLast(h, p) \in MapsTo(Nat) /\ NextImplied(h, p) \in MapsTo(Nat)
         /\ DOMAIN NextLast(h, p) =
              (IF Promotes(h, p) THEN Members(h.pending) ELSE DOMAIN h.last) \cup {p}
         /\ \A q \in DOMAIN NextLast(h, p) :
              NextLast(h, p)[q] =
                Entry(h.last, q, p, h.num + 1, calc_dpos_last_irreversible(h, p))
         /\ DOMAIN NextImplied(h, p) = Members(NextActive(h, p))
         /\ \A q \in DOMAIN NextImplied(h, p) :
              NextImplied(h, p)[q] =
                Entry(h.implied, q, p, h.proposed, calc_dpos_last_irreversible(h, p))
<1> DEFINE irr == calc_dpos_last_irreversible(h, p)
           S == h.pending
           A == h.active
           last == h.last
           implied == h.implied
           num == h.num + 1
           proposed == h.proposed
           L == NextLast(h, p)
           V == NextImplied(h, p)
<1>1. /\ num \in Nat /\ proposed \in Nat /\ last \in MapsTo(Nat) /\ implied \in MapsTo(Nat)
      /\ S \in Seq(Producer) /\ A \in Seq(Producer)
      /\ h.num = 1 => S # <<>> /\ h.pendingLib = 0
      /\ h.num # 1 => DOMAIN implied = Members(A)
  BY DEF Formed, HeaderRecord
<1>2. irr \in Nat /\ p \in Producer /\ Members(S) \in SUBSET Producer /\ (h.num = 1 => irr = 0)
  BY <1>1, IrrFacts DEF Members
<1>3. h.num = 1 => Promotes(h, p)
  BY <1>1, <1>2 DEF Promotes
<1>4. Promotes(h, p) => /\ L = Override(Carried(last, irr, S), p, num)
                        /\ V = [q \in Members(S) |-> IF q = p THEN proposed
                                                     ELSE Carried(implied, irr, S)[q]]
                        /\ NextActive(h, p) = S
  BY DEF NextLast, NextImplied, NextActive
<1>5. ~Promotes(h, p) => /\ L = Override(last, p, num)
                         /\ V = Override(implied, p, proposed)
                         /\ NextActive(h, p) = A /\ DOMAIN implied = Members(A)
                         /\ DOMAIN implied \cup {p} = DOMAIN implied
  BY <1>1, <1>3 DEF NextLast, NextImplied, NextActive
<1> HIDE DEF irr, S, A, last, implied, num, proposed, L, V
<1>a. /\ last \in MapsTo(Nat) /\ implied \in MapsTo(Nat) /\ irr \in Nat
      /\ Members(S) \in SUBSET Producer
  BY <1>1, <1>2
<1>b. /\ last \in MapsTo(Nat) /\ implied \in MapsTo(Nat) /\ p \in Producer
      /\ num \in Nat /\ proposed \in Nat
  BY <1>1, <1>2
<1>6. CASE Promotes(h, p)
  <2>0. /\ L = Override(Carried(last, irr, S), p, num)
        /\ V = [q \in Members(S) |-> IF q = p THEN proposed ELSE Carried(implied, irr, S)[q]]
    BY <1>4, <1>6
  <2>1. /\ Carried(last, irr, S) \in MapsTo(Nat) /\ DOMAIN Carried(last, irr, S) = Members(S)
        /\ \A q \in Members(S) : Carried(last, irr, S)[q] =
             IF q \in DOMAIN last THEN last[q] ELSE irr
    BY <1>a, CarriedFacts
  <2>2. /\ Carried(implied, irr, S) \in MapsTo(Nat)
        /\ DOMAIN Carried(implied, irr, S) = Members(S)
        /\ \A q \in Members(S) : Carried(implied, irr, S)[q] =
             IF q \in DOMAIN implied THEN implied[q] ELSE irr
    BY <1>a, CarriedFacts
  <2>3. L \in MapsTo(Nat)
    BY <1>b, <2>0, <2>1, OverrideFacts, Zenon
  <2>4. DOMAIN L = Members(S) \cup {p}
    BY <2>0, <2>1 DEF Override
  <2>5. ASSUME NEW q \in DOMAIN L
        PROVE  L[q] = Entry(last, q, p, num, irr)
    BY <2>0, <2>1, <2>4 DEF Override, Entry
  <2>6. /\ DOMAIN V = Members(S)
        /\ \A q \in Members(S) : V[q] = Entry(implied, q, p, proposed, irr)
    BY <2>0, <2>2 DEF Entry
  <2>7. V \in MapsTo(Nat)
    <3>1. \A q \in Members(S) : Carried(implied, irr, S)[q] \in Nat
      BY <2>2 DEF MapsTo
    <3>2. V \in [Members(S) -> Nat]
      BY <1>b, <2>0, <3>1
    <3> QED BY <1>a, <3>2 DEF MapsTo
  <2> QED BY <1>4, <1>6, <2>3, <2>4, <2>5, <2>6, <2>7 DEF irr, S, last, implied, num, proposed, L, V
<1>7. CASE ~Promotes(h, p)
  <2>0. L = Override(last, p, num) /\ V = Override(implied, p, proposed)
    BY <1>5, <1>7
  <2>1. L \in MapsTo(Nat) /\ V \in MapsTo(Nat)
    BY <1>b, <2>0, OverrideFacts, Zenon
  <2>2. DOMAIN L = DOMAIN last \cup {p} /\ DOMAIN V = DOMAIN implied
    BY <1>5, <1>7, <2>0 DEF Override
  <2>3. \A q \in DOMAIN L : L[q] = Entry(last, q, p, num, irr)
    BY <2>0, <2>2 DEF Override, Entry
  <2>4. \A q \in DOMAIN V : V[q] = Entry(implied, q, p, proposed, irr)
    BY <1>5, <1>7, <2>0, <2>2 DEF Override, Entry
  <2> QED BY <1>5, <1>7, <2>1, <2>2, <2>3, <2>4 DEF irr, A, last, implied, num, proposed, L, V
<1> QED BY <1>6, <1>7

\* n has the fields of the header state of the block after h, that p produces.
NextOf(n, h, p, c) ==
  /\ n.num = h.num + 1 /\ n.irr = calc_dpos_last_irreversible(h, p)
  /\ n.confirm = Confirm(h, c).confirm /\ n.proposed = Confirm(h, c).proposed
  /\ n.active = NextActive(h, p)
  /\ n.activeVersion = NextVersion(h, p) /\ n.pending = NextPending(h, p)
  /\ n.pendingVersion = h.pendingVersion /\ n.pendingLib = h.pendingLib
  /\ n.last = NextLast(h, p) /\ n.implied = NextImplied(h, p)

\* next, field by field.
LEMMA NextFields ==
  ASSUME NEW h, Formed(h), Len(h.confirm) <= MaxTracked, h.proposed <= Base(h),
         NEW t \in Nat, NEW p \in Members(h.active), NEW c \in Nat,
         NEW n, n = next(h, t, p, c)
  PROVE  n \in HeaderRecord /\ NextOf(n, h, p, c)
<1> DEFINE irr == calc_dpos_last_irreversible(h, p)
           S   == NextActive(h, p)
           last == NextLast(h, p)
           implied == NextImplied(h, p)
           cnf == Confirm(h, c)
           version == NextVersion(h, p)
           waiting == NextPending(h, p)
<1>1. /\ h \in HeaderRecord
      /\ h.num \in Nat /\ h.proposed \in Nat /\ h.pending \in Seq(Producer)
      /\ h.active \in Seq(Producer) /\ h.confirm \in Seq(Nat \ {0})
      /\ h.pendingVersion \in Nat /\ h.activeVersion \in Nat
  BY DEF Formed, HeaderRecord
<1>2. irr \in Nat /\ S \in Seq(Producer)
  BY <1>1, IrrFacts DEF NextActive
<1>3. last \in MapsTo(Nat) /\ implied \in MapsTo(Nat)
  BY NextMaps, Zenon
<1>4. cnf.confirm \in Seq(Nat \ {0}) /\ cnf.proposed \in Nat
  <2>1. Before(h) \in Nat
    <3>1. Len(h.confirm) \in Nat
      BY <1>1, LenProperties
    <3> QED BY <1>1, <3>1 DEF Before, Base
  <2>2. cnf.proposed = h.proposed \/ cnf.proposed \in Before(h) + 1 .. h.num + 1
    BY <1>1, ConfirmFacts, Zenon
  <2> QED BY <1>1, <2>1, <2>2, ConfirmFacts
<1>5. n = [h EXCEPT !.num = h.num + 1, !.slot = t, !.irr = irr, !.confirm = cnf.confirm,
                    !.proposed = cnf.proposed, !.active = S, !.activeVersion = version,
                    !.pending = waiting, !.last = last, !.implied = implied]
  BY Zenon DEF next, Promotes, NextActive, NextPending, NextVersion, NextLast, NextImplied
<1>6. waiting \in Seq(Producer) /\ version \in Nat /\ h.num + 1 \in Nat
  BY <1>1, EmptySeq DEF NextPending, NextVersion
<1> HIDE DEF irr, S, last, implied, cnf, version, waiting
<1>7. /\ n.num = h.num + 1 /\ n.slot = t /\ n.irr = irr /\ n.confirm = cnf.confirm
      /\ n.proposed = cnf.proposed /\ n.active = S /\ n.activeVersion = version
      /\ n.pending = waiting /\ n.last = last /\ n.implied = implied
      /\ n.pendingVersion = h.pendingVersion /\ n.pendingLib = h.pendingLib
  BY <1>1, <1>5 DEF HeaderRecord
<1>8. n \in HeaderRecord
  <2> DEFINE num == h.num + 1
             confirm == cnf.confirm
             proposed == cnf.proposed
  <2>1. /\ h \in HeaderRecord /\ num \in Nat /\ t \in Nat /\ irr \in Nat
        /\ confirm \in Seq(Nat \ {0}) /\ proposed \in Nat /\ S \in Seq(Producer)
        /\ version \in Nat /\ waiting \in Seq(Producer) /\ last \in MapsTo(Nat)
        /\ implied \in MapsTo(Nat)
    BY <1>1, <1>2, <1>3, <1>4, <1>6
  <2>2. n = [h EXCEPT !.num = num, !.slot = t, !.irr = irr, !.confirm = confirm,
                    !.proposed = proposed, !.active = S, !.activeVersion = version,
                    !.pending = waiting, !.last = last, !.implied = implied]
    BY <1>5
  <2> HIDE DEF num, confirm, proposed
  <2> DEFINE a == [h EXCEPT !.num = num, !.slot = t, !.irr = irr]
             b == [a EXCEPT !.confirm = confirm, !.proposed = proposed, !.active = S]
             d == [b EXCEPT !.activeVersion = version, !.pending = waiting]
  <2>3. a \in HeaderRecord
    BY <2>1, Zenon DEF HeaderRecord
  <2>4. n = [d EXCEPT !.last = last, !.implied = implied]
    BY <2>2
  <2> HIDE DEF a
  <2>5. b \in HeaderRecord
    BY <2>1, <2>3, Zenon DEF HeaderRecord
  <2> HIDE DEF b
  <2>6. d \in HeaderRecord
    BY <2>1, <2>5, Zenon DEF HeaderRecord
  <2> HIDE DEF d
  <2> QED BY <2>1, <2>4, <2>6, Zenon DEF HeaderRecord
<1> QED BY <1>7, <1>8 DEF NextOf, irr, S, last, implied, cnf, version, waiting

\* The proposed irreversible block does not go back, and stays below the window.
LEMMA NextProposed ==
  ASSUME NEW h, Formed(h), Len(h.confirm) <= MaxTracked, h.proposed <= Base(h),
         NEW t \in Nat, NEW p \in Members(h.active), NEW c \in Nat,
         NEW n, n = next(h, t, p, c)
  PROVE  /\ h.proposed <= n.proposed /\ n.proposed <= n.num
         /\ Len(n.confirm) <= MaxTracked /\ n.proposed <= Base(n)
<1> DEFINE r == Confirm(h, c)
<1>1. /\ h.num \in Nat /\ h.proposed \in Nat /\ h.confirm \in Seq(Nat \ {0})
      /\ h.active \in Seq(Producer) /\ h.proposed <= h.num
  BY DEF Formed, HeaderRecord
<1>2. n.num = h.num + 1 /\ n.confirm = r.confirm /\ n.proposed = r.proposed
  BY DEF next
<1>3. Len(h.confirm) \in Nat /\ Before(h) \in Int /\ Base(h) <= Before(h) /\ Base(h) \in Int
  <2>1. Len(h.confirm) \in Nat
    BY <1>1, LenProperties
  <2> QED BY <1>1, <2>1 DEF Before, Base
<1>4. /\ r.confirm \in Seq(Nat \ {0}) /\ Len(r.confirm) <= MaxTracked
      /\ h.num + 1 - Len(r.confirm) >= Before(h)
      /\ \/ r.proposed = h.proposed
         \/ /\ r.proposed = h.num + 1 - Len(r.confirm)
            /\ r.proposed \in Before(h) + 1 .. h.num + 1
  BY <1>1, ConfirmFacts
<1>5. Len(r.confirm) \in Nat
  BY <1>4, LenProperties
<1> HIDE DEF r
<1>6. /\ h.proposed <= r.proposed /\ r.proposed <= h.num + 1
      /\ r.proposed <= h.num + 1 - Len(r.confirm)
  BY <1>1, <1>3, <1>4, <1>5, SMTT(40)
<1>7. Base(n) = h.num + 1 - Len(r.confirm)
  <2>1. /\ n.num = h.num + 1 /\ n.confirm = r.confirm
        /\ h.num + 1 \in Nat /\ Len(r.confirm) \in Nat
    BY <1>1, <1>2, <1>5
  <2> DEFINE x == n.num
             y == h.num + 1
             u == n.confirm
             v == r.confirm
  <2>2. Base(n) = x - Len(u)
    BY DEF Base
  <2>3. x = y /\ u = v
    BY <2>1
  <2> HIDE DEF x, y, u, v
  <2>4. Base(n) = y - Len(v)
    BY <2>2, <2>3
  <2>5. h.num \in Nat /\ Len(v) \in Nat
    BY <1>1, <1>5 DEF v
  <2> DEFINE k == h.num
             l == Len(v)
  <2> HIDE DEF k, l
  <2>6. Base(n) = k + 1 - l /\ k \in Nat /\ l \in Nat
    BY <2>4, <2>5 DEF y, k, l
  <2> QED BY <2>6 DEF k, l, v
<1> QED BY <1>2, <1>4, <1>6, <1>7

\* The next header state is well formed.
LEMMA NextFormed ==
  ASSUME NEW h, Formed(h), h.num < MaxNum, Len(h.confirm) <= MaxTracked,
         h.proposed <= Base(h),
         NEW t \in Nat, NEW p \in Members(h.active), NEW c \in Nat,
         NEW n, n = next(h, t, p, c)
  PROVE  Formed(n) /\ n.num > 1
<1> DEFINE irr == calc_dpos_last_irreversible(h, p)
           S   == NextActive(h, p)
<1>1. /\ n \in HeaderRecord /\ n.num = h.num + 1 /\ n.irr = irr /\ n.active = S
      /\ n.pending = NextPending(h, p) /\ n.pendingLib = h.pendingLib
      /\ n.last = NextLast(h, p) /\ n.implied = NextImplied(h, p)
  <2>1. n \in HeaderRecord /\ NextOf(n, h, p, c)
    BY NextFields, Zenon
  <2> QED BY <2>1 DEF NextOf
<1>2. /\ h.num \in 1..MaxNum /\ h.proposed \in Nat /\ h.proposed <= h.num
      /\ h.pendingLib <= h.num /\ h.pendingLib \in Nat
      /\ h.active \in Seq(Producer) /\ h.active # <<>> /\ h.pending \in Seq(Producer)
      /\ Unique(h.active) /\ Unique(h.pending)
      /\ h.implied \in MapsTo(Nat)
      /\ \A q \in DOMAIN h.implied : h.implied[q] <= h.proposed
      /\ h.num = 1 => h.pending # <<>> /\ h.pendingLib = 0
      /\ h.num # 1 => Members(h.active) \subseteq DOMAIN h.last
  BY DEF Formed, HeaderRecord
<1>3. h.proposed <= n.proposed /\ n.proposed <= n.num /\ n.proposed \in Nat
  BY <1>1, NextProposed DEF HeaderRecord
<1>4. irr \in Nat /\ irr <= h.proposed /\ (h.num = 1 => irr = 0) /\ MaxNum \in Nat
  BY <1>2, IrrFacts, HeaderAssumption
<1>5. S \in Seq(Producer) /\ S # <<>> /\ Unique(S) /\ Unique(n.pending)
  <2>1. CASE Promotes(h, p)
    BY <1>1, <1>2, <2>1 DEF Promotes, Unique, NextActive, NextPending
  <2>2. CASE ~Promotes(h, p)
    BY <1>1, <1>2, <2>2 DEF NextActive, NextPending
  <2> QED BY <2>1, <2>2
<1>6. h.num = 1 => Promotes(h, p)
  BY <1>2, <1>4 DEF Promotes
<1>7. /\ DOMAIN n.implied = Members(S) /\ Members(S) \subseteq DOMAIN n.last
  <2>1. /\ DOMAIN NextImplied(h, p) = Members(S)
        /\ DOMAIN NextLast(h, p) =
             (IF Promotes(h, p) THEN Members(h.pending) ELSE DOMAIN h.last) \cup {p}
    BY NextMaps, Zenon
  <2>2. CASE Promotes(h, p)
    BY <1>1, <2>1, <2>2 DEF NextActive
  <2>3. CASE ~Promotes(h, p)
    <3>1. S = h.active /\ h.num # 1
      BY <1>6, <2>3 DEF NextActive
    <3>2. Members(S) \subseteq DOMAIN h.last
      BY <1>2, <3>1
    <3> QED BY <1>1, <2>1, <2>3, <3>2
  <2> QED BY <2>2, <2>3
<1>8. n.num \in 1..MaxNum /\ n.num > 1 /\ n.irr <= n.proposed /\ n.irr < n.num
      /\ n.pendingLib <= n.num
  <2> HIDE DEF irr
  <2> QED BY <1>1, <1>2, <1>3, <1>4, SMTT(40)
<1>9. ASSUME NEW q \in DOMAIN n.implied PROVE n.implied[q] <= n.proposed
  <2>1. n.implied[q] \in Nat /\ (q \in DOMAIN h.implied => h.implied[q] \in Nat)
    BY <1>1, <1>2, SMTT(40) DEF HeaderRecord, MapsTo
  <2>2. n.implied[q] = IF q = p THEN h.proposed
                       ELSE IF q \in DOMAIN h.implied THEN h.implied[q] ELSE irr
    <3>1. /\ n.implied = NextImplied(h, p)
          /\ \A x \in DOMAIN NextImplied(h, p) :
               NextImplied(h, p)[x] = Entry(h.implied, x, p, h.proposed, irr)
      BY <1>1, NextMaps, Zenon
    <3>2. n.implied[q] = Entry(h.implied, q, p, h.proposed, irr)
      BY <3>1
    <3> HIDE DEF irr
    <3> QED BY <3>2 DEF Entry
  <2> HIDE DEF irr
  <2> QED BY <1>2, <1>3, <1>4, <2>1, <2>2
<1> QED BY <1>1, <1>3, <1>5, <1>7, <1>8, <1>9 DEF Formed

-----------------------------------------------------------------------------
(***************************************************************************)
(* The history, and the counts against it.                                 *)
(***************************************************************************)
\* The confirmers once p has confirmed the heights lo .. hi.
Confirming(conf, p, lo, hi) ==
  [k \in 1..MaxNum |-> IF k \in lo..hi THEN conf[k] \cup {p} ELSE conf[k]]

\* The height m needs v confirmations.
Needing(need, m, v) == [need EXCEPT ![m] = v]

\* No height is confirmed twice by the same producer.
LEMMA ConfirmedOnce ==
  ASSUME NEW h, Formed(h), h.num < MaxNum, NEW p \in Members(h.active),
         NEW c \in Nat, CanConfirm(h, p, c), NEW conf, NEW need,
         History(h, conf, need), Remembered(h, conf)
  PROVE  \A k \in 1..h.num + 1 : k >= h.num + 1 - c => p \notin conf[k]
<1> DEFINE num == h.num
           last == h.last
<1>1. num \in Nat /\ MaxNum \in Nat /\ num < MaxNum /\ last \in MapsTo(Nat)
  BY HeaderAssumption DEF Formed, HeaderRecord
<1>2. p \in DOMAIN last => last[p] \in Nat /\ last[p] < num + 1 - c
  BY <1>1 DEF CanConfirm, MapsTo
<1>3. ASSUME NEW k \in 1..MaxNum, p \in conf[k] PROVE p \in DOMAIN last /\ last[p] >= k
  BY <1>3 DEF Remembered
<1> HIDE DEF num, last
<1>4. ASSUME NEW k \in 1..num + 1, k >= num + 1 - c PROVE p \notin conf[k]
  <2>1. k \in 1..MaxNum
    BY <1>1
  <2> QED BY <1>1, <1>2, <1>3, <1>4, <2>1
<1> QED BY <1>4 DEF num

\* The heights from lo on have one confirmer more in after than in conf.
OneMore(conf, after, m, lo) ==
  \A k \in 1..m : /\ Cardinality(conf[k]) \in Nat
                  /\ Cardinality(after[k]) = Cardinality(conf[k]) + IF k >= lo THEN 1 ELSE 0

\* The number of confirmers goes up by one exactly where the count goes down.
LEMMA CountUp ==
  ASSUME NEW h, Formed(h), h.num < MaxNum, NEW p \in Members(h.active),
         NEW c \in Nat, CanConfirm(h, p, c), NEW conf, NEW need,
         History(h, conf, need), Remembered(h, conf), NEW m, m = h.num + 1
  PROVE  OneMore(conf, Confirming(conf, p, m - c, m), m, m - c)
<1> DEFINE num == h.num
<1>1. /\ num \in Nat /\ MaxNum \in Nat /\ num < MaxNum /\ p \in Producer
      /\ m = num + 1 /\ m \in 1..MaxNum /\ m > h.num
  BY HeaderAssumption, SMTT(40) DEF Formed, HeaderRecord, Members
<1>2. conf \in [1..MaxNum -> SUBSET Producer] /\ conf[m] = {}
  BY <1>1 DEF History
<1>3. \A k \in 1..num + 1 : k >= num + 1 - c => p \notin conf[k]
  BY ConfirmedOnce
<1> HIDE DEF num
<1>4. ASSUME NEW k \in 1..m
      PROVE /\ Cardinality(conf[k]) \in Nat
            /\ Cardinality(Confirming(conf, p, m - c, m)[k]) =
                 Cardinality(conf[k]) + IF k >= m - c THEN 1 ELSE 0
  <2>1. k \in 1..MaxNum /\ conf[k] \in SUBSET Producer
    BY <1>1, <1>2
  <2>2. IsFiniteSet(conf[k]) /\ Cardinality(conf[k]) \in Nat
    BY <2>1, HeaderAssumption, FS_Subset, FS_CardinalityType
  <2>3. Confirming(conf, p, m - c, m)[k] = IF k \in m - c .. m THEN conf[k] \cup {p} ELSE conf[k]
    BY <2>1 DEF Confirming
  <2>4. CASE k >= m - c
    <3>1. k \in m - c .. m /\ p \notin conf[k]
      BY <1>1, <1>3, <2>4
    <3>2. Cardinality(conf[k] \cup {p}) = Cardinality(conf[k]) + 1
      BY <2>2, <3>1, FS_AddElement, Zenon
    <3> QED BY <2>2, <2>3, <2>4, <3>1, <3>2, Zenon
  <2>5. CASE ~(k >= m - c)
    <3>1. k \notin m - c .. m
      BY <1>1, <2>5
    <3> QED BY <2>2, <2>3, <2>5, <3>1
  <2> QED BY <2>4, <2>5
<1> QED BY <1>4 DEF OneMore

\* The history goes on with the next block.
LEMMA NextHistory ==
  ASSUME NEW h, Formed(h), h.num < MaxNum, NEW p \in Members(h.active), NEW c \in Nat,
         NEW conf, NEW need, History(h, conf, need), NEW m, m = h.num + 1,
         NEW n, n.num = m
  PROVE  History(n, Confirming(conf, p, m - c, m),
                 Needing(need, m, required_confs(Len(h.active))))
<1> DEFINE num == h.num
           size == Len(h.active)
           r == required_confs(size)
           C == Confirming(conf, p, m - c, m)
           R == required_confs(Cardinality(Producer))
<1>1. /\ num \in Nat /\ MaxNum \in Nat /\ num < MaxNum /\ p \in Producer
      /\ m = num + 1 /\ h.active \in Seq(Producer) /\ Unique(h.active)
  BY HeaderAssumption DEF Formed, HeaderRecord, Members
<1>2. /\ conf \in [1..MaxNum -> SUBSET Producer] /\ need \in [1..MaxNum -> 0..R]
      /\ \A k \in 1..MaxNum : k > num => conf[k] = {}
  BY DEF History
<1>3. r \in 0..R
  <2>1. size \in Nat /\ size <= Cardinality(Producer) /\ Cardinality(Producer) \in Nat
    BY <1>1, MembersFacts, LenProperties, HeaderAssumption, FS_CardinalityType
  <2>2. r \in Nat /\ R \in Nat /\ r <= R
    BY <2>1, RequiredFacts
  <2> HIDE DEF r, R
  <2> QED BY <2>2
<1> HIDE DEF num, r, R
<1>4. C \in [1..MaxNum -> SUBSET Producer]
  BY <1>1, <1>2 DEF Confirming
<1>5. Needing(need, m, r) \in [1..MaxNum -> 0..R]
  BY <1>2, <1>3, Zenon DEF Needing
<1>6. ASSUME NEW k \in 1..MaxNum, k > m PROVE C[k] = {}
  <2>1. k \notin m - c .. m /\ k > num
    BY <1>1, <1>6
  <2> QED BY <1>2, <2>1 DEF Confirming
<1> QED BY <1>4, <1>5, <1>6 DEF History, r, R

\* What is left to confirm of each height when the block begins to count.
LEMMA LeftIsExact ==
  ASSUME NEW h, Formed(h), h.num < MaxNum, NEW conf, NEW need,
         History(h, conf, need), Exact(h, conf, need), NEW m \in {h.num + 1}
  PROVE  \A k \in Before(h) + 1 .. m :
           Left(h, k) = Needing(need, m, required_confs(Len(h.active)))[k] - Cardinality(conf[k])
<1> DEFINE num == h.num
           r == required_confs(Len(h.active))
           b == Base(h)
           B == Before(h)
<1>1. /\ num \in Nat /\ MaxNum \in Nat /\ num < MaxNum /\ m = num + 1
      /\ h.active \in Seq(Producer) /\ h.proposed \in Nat /\ h.confirm \in Seq(Nat \ {0})
      /\ h.proposed <= b /\ m > h.num
  BY HeaderAssumption DEF Formed, HeaderRecord, Exact
<1>2. b \in Nat /\ B \in Nat /\ B >= b
  <2>1. Len(h.confirm) \in Nat
    BY <1>1, LenProperties
  <2>2. b \in Int
    BY <1>1, <2>1 DEF Base
  <2> HIDE DEF b
  <2>3. b \in Nat
    BY <1>1, <2>2
  <2>4. B = b \/ B = b + 1
    BY DEF Before, b
  <2> HIDE DEF B
  <2> QED BY <2>3, <2>4
<1>3. /\ \A k \in b + 1 .. num : h.confirm[k - b] = need[k] - Cardinality(conf[k])
      /\ \A k \in 1..MaxNum : k > num => conf[k] = {}
      /\ DOMAIN need = 1..MaxNum
  BY DEF Exact, History
<1>4. \A k : Left(h, k) = IF k = m THEN r ELSE h.confirm[k - b]
  BY DEF Left
<1>5. r \in Nat
  BY <1>1, RequiredFacts, LenProperties, Zenon
<1> HIDE DEF num, r, b, B
<1>6. ASSUME NEW k \in B + 1 .. m
      PROVE  Left(h, k) = Needing(need, m, r)[k] - Cardinality(conf[k])
  <2>1. k \in 1..MaxNum
    BY <1>1, <1>2
  <2>2. Needing(need, m, r)[k] = IF k = m THEN r ELSE need[k]
    BY <1>3, <2>1 DEF Needing
  <2>3. CASE k = m
    <3>1. conf[k] = {}
      BY <1>1, <1>3, <2>1, <2>3
    <3>2. Cardinality(conf[k]) = 0
      BY <3>1, FS_EmptySet
    <3> QED BY <1>4, <1>5, <2>2, <2>3, <3>2
  <2>4. CASE k # m
    <3>1. k \in b + 1 .. num
      BY <1>1, <1>2, <2>4
    <3> QED BY <1>3, <1>4, <2>2, <2>4, <3>1
  <2> QED BY <2>3, <2>4
<1> QED BY <1>6 DEF r, B

\* The counts stay exact, and what becomes proposed has its confirmations.
LEMMA NextExact ==
  ASSUME NEW h, Formed(h), h.num < MaxNum, NEW p \in Members(h.active),
         NEW c \in Nat, CanConfirm(h, p, c), NEW conf, NEW need,
         History(h, conf, need), Exact(h, conf, need), Remembered(h, conf),
         NEW m, m = h.num + 1, NEW n, n.num = m,
         n.confirm = Confirm(h, c).confirm, n.proposed = Confirm(h, c).proposed,
         n.proposed <= Base(n)
  PROVE  Exact(n, Confirming(conf, p, m - c, m),
               Needing(need, m, required_confs(Len(h.active))))
<1> DEFINE C == Confirming(conf, p, m - c, m)
           N == Needing(need, m, required_confs(Len(h.active)))
           r == Confirm(h, c)
           num == h.num
           prop == h.proposed
           B == Before(h)
           base == Base(n)
           cnt == n.confirm
           len == Len(n.confirm)
           lib == n.proposed
<1>1. /\ num \in Nat /\ MaxNum \in Nat /\ m = num + 1 /\ m \in 1..MaxNum
      /\ h.confirm \in Seq(Nat \ {0}) /\ Len(h.confirm) <= MaxTracked
      /\ h.active \in Seq(Producer) /\ prop \in Nat /\ prop <= num
      /\ prop <= Base(h) /\ need \in [1..MaxNum -> 0..required_confs(Cardinality(Producer))]
      /\ prop > 0 => Cardinality(conf[prop]) >= need[prop]
  <2>1. /\ num \in Nat /\ MaxNum \in Nat /\ num < MaxNum /\ m = num + 1
        /\ h.confirm \in Seq(Nat \ {0}) /\ h.active \in Seq(Producer)
        /\ prop \in Nat /\ prop <= num
    BY HeaderAssumption DEF Formed, HeaderRecord
  <2>2. m \in 1..MaxNum
    <3> HIDE DEF num
    <3> QED BY <2>1
  <2>3. /\ Len(h.confirm) <= MaxTracked /\ prop <= Base(h)
        /\ prop > 0 => Cardinality(conf[prop]) >= need[prop]
    BY DEF Exact
  <2>4. need \in [1..MaxNum -> 0..required_confs(Cardinality(Producer))]
    BY DEF History
  <2> QED BY <2>1, <2>2, <2>3, <2>4
<1>2. /\ cnt \in Seq(Nat \ {0}) /\ len <= MaxTracked /\ num + 1 - len >= B
      /\ \A i \in 1..len : cnt[i] = Left(h, num + 1 - len + i)
             - IF num + 1 - len + i >= num + 1 - c THEN 1 ELSE 0
      /\ \/ lib = prop
         \/ /\ lib = num + 1 - len /\ lib \in B + 1 .. num + 1
            /\ lib >= num + 1 - c /\ Left(h, lib) = 1
  <2>1. /\ r.confirm \in Seq(Nat \ {0}) /\ Len(r.confirm) <= MaxTracked
        /\ num + 1 - Len(r.confirm) >= B
        /\ \A i \in 1..Len(r.confirm) :
             r.confirm[i] = Left(h, num + 1 - Len(r.confirm) + i)
                            - IF num + 1 - Len(r.confirm) + i >= num + 1 - c THEN 1 ELSE 0
        /\ \/ r.proposed = prop
           \/ /\ r.proposed = num + 1 - Len(r.confirm) /\ r.proposed \in B + 1 .. num + 1
              /\ r.proposed >= num + 1 - c /\ Left(h, r.proposed) = 1
    BY <1>1, ConfirmFacts, Zenon
  <2>2. cnt = r.confirm /\ lib = r.proposed
    BY Zenon
  <2> HIDE DEF r, B, num, prop
  <2> QED BY <2>1, <2>2, Zenon
<1>3. len \in Nat /\ B \in Nat
  <2>1. len \in Nat /\ Len(h.confirm) \in Nat
    BY <1>1, <1>2, LenProperties, Zenon
  <2>2. Base(h) \in Nat
    <3>1. num \in Nat /\ prop \in Nat /\ prop <= num - Len(h.confirm)
      BY <1>1, Zenon DEF Base
    <3> HIDE DEF num, prop
    <3>2. num - Len(h.confirm) \in Nat
      BY <2>1, <3>1
    <3> QED BY <3>2, Zenon DEF Base, num
  <2> QED BY <2>1, <2>2 DEF Before
<1>4. base = m - len
  BY DEF Base
<1>5. /\ \A k \in 1..m : /\ Cardinality(conf[k]) \in Nat
                         /\ Cardinality(C[k]) = Cardinality(conf[k]) + IF k >= m - c THEN 1 ELSE 0
      /\ \A k \in B + 1 .. m : Left(h, k) = N[k] - Cardinality(conf[k])
  <2>1. \A k \in 1..m : /\ Cardinality(conf[k]) \in Nat
                         /\ Cardinality(C[k]) = Cardinality(conf[k]) + IF k >= m - c THEN 1 ELSE 0
    <3>1. OneMore(conf, C, m, m - c)
      BY CountUp
    <3> QED BY <3>1, Zenon DEF OneMore
  <2>2. \A k \in B + 1 .. m : Left(h, k) = N[k] - Cardinality(conf[k])
    <3>1. m \in {h.num + 1}
      BY Zenon
    <3> QED BY <3>1, LeftIsExact, Zenon
  <2> QED BY <2>1, <2>2, Zenon
<1>6. \A k \in 1..m : N[k] \in Nat /\ (k # m => N[k] = need[k])
  <2>1. required_confs(Len(h.active)) \in Nat /\ required_confs(Cardinality(Producer)) \in Nat
    BY <1>1, RequiredFacts, LenProperties, HeaderAssumption, FS_CardinalityType, Zenon
  <2>2. \A k \in 1..m : k \in 1..MaxNum
    BY <1>1
  <2> QED BY <1>1, <2>1, <2>2 DEF Needing
<1>7. n.num = m /\ n.proposed <= Base(n)
  OBVIOUS
<1> HIDE DEF C, N, num, prop, B, base, cnt, len, lib
<1>8. ASSUME NEW k \in base + 1 .. m PROVE cnt[k - base] = N[k] - Cardinality(C[k])
  <2>0. /\ num \in Nat /\ m = num + 1 /\ m \in Nat /\ base = m - len /\ len \in Nat /\ B \in Nat
        /\ num + 1 - len >= B
    <3>1. m \in Nat
      BY <1>1
    <3> QED BY <1>1, <1>2, <1>3, <1>4, <3>1, Zenon
  <2>1. /\ k - base \in 1..len /\ num + 1 - len + (k - base) = k
        /\ k \in B + 1 .. m /\ k \in 1..m /\ num + 1 - c = m - c
    BY <2>0, SMTT(40)
  <2>2. cnt[k - base] = Left(h, k) - IF k >= m - c THEN 1 ELSE 0
    BY <1>2, <2>1
  <2> QED BY <1>5, <1>6, <2>1, <2>2
<1>9. ASSUME lib > 0 PROVE Cardinality(C[lib]) >= N[lib]
  <2>1. CASE lib = prop
    <3>1. prop \in 1..m /\ prop # m
      BY <1>1, <1>9, <2>1
    <3>2. /\ Cardinality(conf[lib]) \in Nat /\ N[lib] = need[lib] /\ N[lib] \in Nat
          /\ Cardinality(C[lib]) = Cardinality(conf[lib]) + IF lib >= m - c THEN 1 ELSE 0
      BY <1>5, <1>6, <2>1, <3>1, Zenon
    <3>3. Cardinality(conf[lib]) >= need[lib]
      BY <1>1, <1>9, <2>1, SMTT(40)
    <3>4. \/ Cardinality(C[lib]) = Cardinality(conf[lib]) + 1
          \/ Cardinality(C[lib]) = Cardinality(conf[lib]) + 0
      BY <3>2, Zenon
    <3>5. Cardinality(conf[lib]) \in Nat /\ N[lib] \in Nat /\ Cardinality(conf[lib]) >= N[lib]
      BY <3>2, <3>3, Zenon
    <3> QED BY <3>4, <3>5
  <2>2. CASE lib \in B + 1 .. num + 1 /\ lib >= num + 1 - c /\ Left(h, lib) = 1
    <3>1. lib \in B + 1 .. m /\ lib \in 1..m /\ lib >= m - c
      BY <1>1, <1>3, <2>2, SMTT(40)
    <3> QED BY <1>5, <1>6, <2>2, <3>1
  <2> QED BY <1>2, <2>1, <2>2
<1> QED BY <1>2, <1>7, <1>8, <1>9, Zenon DEF Exact, base, cnt, len, lib, C, N

\* Who has confirmed a height is still remembered as its confirmer, or can come
\* back only behind it.  Here n is the header state the block leaves.
LEMMA NextRemembered ==
  ASSUME NEW h, Formed(h), h.num < MaxNum, NEW p \in Members(h.active), NEW c \in Nat,
         NEW conf, NEW need, History(h, conf, need), Remembered(h, conf),
         NEW m, m = h.num + 1,
         NEW n, n.last = NextLast(h, p), n.active = NextActive(h, p),
         \/ n.pending = <<>>
         \/ n.pendingLib = m /\ ~Promotes(h, p)
         \/ n.pending = h.pending /\ n.pendingLib = h.pendingLib /\ ~Promotes(h, p)
  PROVE  Remembered(n, Confirming(conf, p, m - c, m))
<1> DEFINE num == h.num
           irr == calc_dpos_last_irreversible(h, p)
           last == h.last
           L == NextLast(h, p)
           lib == h.pendingLib
<1>1. /\ num \in Nat /\ MaxNum \in Nat /\ num < MaxNum /\ m = num + 1 /\ lib \in Nat
      /\ last \in MapsTo(Nat)
      /\ \A k \in 1..MaxNum : k > num => conf[k] = {}
      /\ irr \in Nat
  <2>1. irr \in 0..h.proposed
    BY IrrFacts
  <2>2. h \in HeaderRecord /\ (\A k \in 1..MaxNum : k > num => conf[k] = {})
    BY Zenon DEF Formed, History
  <2>3. num \in Nat /\ lib \in Nat /\ h.proposed \in Nat /\ last \in MapsTo(Nat)
    BY <2>2 DEF HeaderRecord
  <2>4. irr \in Nat
    BY <2>1, <2>3
  <2> QED BY <2>2, <2>3, <2>4, HeaderAssumption, Zenon
<1>2. /\ DOMAIN L = (IF Promotes(h, p) THEN Members(h.pending) ELSE DOMAIN last) \cup {p}
      /\ \A q \in DOMAIN L : L[q] = Entry(last, q, p, num + 1, irr)
  BY NextMaps, Zenon
<1>3. ASSUME NEW k \in 1..MaxNum, NEW q \in conf[k]
      PROVE  \/ q \in DOMAIN last /\ last[q] >= k
             \/ /\ q \notin DOMAIN last /\ q \notin Members(h.active)
                /\ h.pending # <<>> => k <= lib
  BY DEF Remembered
<1>4. Promotes(h, p) => h.pending # <<>> /\ irr >= lib
  BY DEF Promotes
<1>5. NextActive(h, p) = IF Promotes(h, p) THEN h.pending ELSE h.active
  BY DEF NextActive
<1> HIDE DEF num, irr, last, L, lib
<1>6. ASSUME NEW k \in 1..MaxNum, NEW q \in Confirming(conf, p, m - c, m)[k]
      PROVE  \/ q \in DOMAIN L /\ L[q] >= k
             \/ /\ q \notin DOMAIN L /\ q \notin Members(NextActive(h, p))
                /\ n.pending # <<>> => k <= n.pendingLib
  <2>1. (q = p /\ k \in m - c .. m) \/ (q \in conf[k] /\ k <= num)
    <3>1. (q = p /\ k \in m - c .. m) \/ q \in conf[k]
      BY <1>6 DEF Confirming
    <3>2. k <= num \/ k > num
      BY <1>1
    <3>3. k > num => conf[k] = {}
      BY <1>1, Zenon
    <3> QED BY <3>1, <3>2, <3>3, Zenon
  <2>2. k <= m /\ k \in Nat
    BY <1>1, <2>1
  <2>3. CASE q = p
    BY <1>1, <1>2, <2>2, <2>3 DEF Entry
  <2>4. CASE q # p
    <3>1. q \in conf[k] /\ k <= num
      BY <2>1, <2>4
    <3>2. q \in DOMAIN L => L[q] = IF q \in DOMAIN last THEN last[q] ELSE irr
      BY <1>2, <2>4 DEF Entry
    <3>3. CASE Promotes(h, p)
      <4>1. n.pending = <<>> /\ irr >= lib /\ h.pending # <<>>
        BY <1>4, <3>3
      <4>2. q \in DOMAIN L <=> q \in Members(NextActive(h, p))
        BY <1>2, <1>5, <2>4, <3>3, Zenon
      <4>3. ASSUME q \in DOMAIN L PROVE L[q] >= k
        <5>1. CASE q \in DOMAIN last
          BY <1>3, <3>1, <3>2, <4>3, <5>1
        <5>2. CASE q \notin DOMAIN last
          <6>1. k <= lib
            BY <1>3, <3>1, <4>1, <5>2, Zenon
          <6> QED BY <1>1, <2>2, <3>2, <4>1, <4>3, <5>2, <6>1
        <5> QED BY <5>1, <5>2, Zenon
      <4> QED BY <4>1, <4>2, <4>3
    <3>4. CASE ~Promotes(h, p)
      <4>1. (q \in DOMAIN L <=> q \in DOMAIN last) /\ NextActive(h, p) = h.active
        BY <1>2, <1>5, <2>4, <3>4, Zenon
      <4>2. n.pending # <<>> => n.pendingLib = m \/ (h.pending # <<>> /\ n.pendingLib = lib)
        BY <3>4 DEF lib
      <4> QED BY <1>1, <1>3, <2>2, <3>1, <3>2, <4>1, <4>2, Zenon
    <3> QED BY <3>3, <3>4, Zenon
  <2> QED BY <2>3, <2>4
<1> QED BY <1>6 DEF Remembered, L

-----------------------------------------------------------------------------
(***************************************************************************)
(* The proposed schedule.                                                  *)
(***************************************************************************)
\* A schedule that may be proposed.
LEMMA ScheduleFacts ==
  ASSUME NEW S \in Schedule
  PROVE  S \in Seq(Producer) /\ S # <<>> /\ Unique(S)
BY HeaderAssumption

\* The header state with a new pending schedule.
LEMMA FinishFields ==
  ASSUME NEW n \in HeaderRecord, gpo \in Proposal, NEW f, f = finish_next(n)
  PROVE  /\ f \in HeaderRecord
         /\ f.num = n.num /\ f.slot = n.slot /\ f.proposed = n.proposed /\ f.irr = n.irr
         /\ f.confirm = n.confirm /\ f.last = n.last /\ f.implied = n.implied
         /\ f.active = n.active /\ f.activeVersion = n.activeVersion
         /\ f.pending = gpo.producers /\ f.pendingVersion = gpo.version
         /\ f.pendingLib = n.num
<1>1. gpo.producers \in Seq(Producer) /\ gpo.version \in Nat /\ n.num \in Nat
  BY DEF Proposal, HeaderRecord
<1> QED BY <1>1, Zenon DEF finish_next, HeaderRecord

\* The header state with the schedule that has just become pending is well formed.
LEMMA FinishFormed ==
  ASSUME NEW n, Formed(n), n.num > 1, gpo \in Proposal, gpo.producers \in Schedule,
         NEW f, f = finish_next(n)
  PROVE  Formed(f)
<1>1. n \in HeaderRecord
  BY DEF Formed
<1>2. /\ f \in HeaderRecord
      /\ f.num = n.num /\ f.proposed = n.proposed /\ f.irr = n.irr
      /\ f.confirm = n.confirm /\ f.last = n.last /\ f.implied = n.implied
      /\ f.active = n.active /\ f.pending = gpo.producers /\ f.pendingLib = n.num
  BY <1>1, FinishFields
<1>3. Unique(gpo.producers)
  BY ScheduleFacts
<1>4. /\ n.num \in 1..MaxNum /\ n.num # 1 /\ n.proposed <= n.num /\ n.irr <= n.proposed
      /\ n.irr < n.num /\ n.active # <<>> /\ Unique(n.active)
      /\ \A q \in DOMAIN n.implied : n.implied[q] <= n.proposed
      /\ DOMAIN n.implied = Members(n.active) /\ Members(n.active) \subseteq DOMAIN n.last
      /\ n.num <= n.num
  BY HeaderAssumption DEF Formed
<1> QED BY <1>2, <1>3, <1>4 DEF Formed

\* What set_proposed_producers leaves: the proposal there was, or a new one
\* whose version follows the schedule that will be active when it is taken.
LEMMA ProposalStep ==
  ASSUME NEW h, NEW n, NEW S \in Schedule \cup {<<>>}, NEW g,
         NEW g2, g2 = set_proposed_producers(g, h, n, S)
  PROVE  \/ g2 = g
         \/ /\ g2.num = n.num /\ g2.producers = S /\ S \in Schedule
            /\ g2 = [num |-> n.num, producers |-> S, version |-> g2.version]
            /\ IF TakesProposal(h, n)
               THEN g2.version = 1 + IF gpo.producers = <<>> THEN n.activeVersion ELSE gpo.version
               ELSE g2.version = 1 + IF h.pending = <<>> THEN n.activeVersion ELSE h.pendingVersion
BY DEF set_proposed_producers

\* A proposal is taken only with the version that follows the active one, and
\* then no schedule was pending.
LEMMA TakenFollows ==
  ASSUME NEW h, Formed(h), Versions(h, gpo), NEW n, TakesProposal(h, n), NEW p
  PROVE  /\ gpo.version = h.activeVersion + 1 /\ gpo.producers \in Schedule
         /\ h.pending = <<>> /\ ~Promotes(h, p) /\ h.num > 1
<1>1. gpo.num # 0 /\ h.pending = <<>>
  BY DEF TakesProposal
<1>2. gpo.version = 1 + h.activeVersion /\ gpo.producers \in Schedule /\ h.num # 1
  BY <1>1 DEF Versions
<1>3. h.num \in 1..MaxNum /\ h.activeVersion \in Nat /\ MaxNum \in Nat
  BY HeaderAssumption DEF Formed, HeaderRecord
<1> QED BY <1>1, <1>2, <1>3 DEF Promotes

\* The versions still follow each other after the block: n is what next
\* computes, f the header state the block leaves, g2 the proposal it leaves.
LEMMA NextVersions ==
  ASSUME NEW h, Formed(h), Versions(h, gpo), gpo \in Proposal, NEW p,
         NEW n \in HeaderRecord, n.num > 1,
         n.activeVersion = NextVersion(h, p), n.pending = NextPending(h, p),
         n.pendingVersion = h.pendingVersion,
         h.num = 1 => Promotes(h, p),
         NEW f, f = IF TakesProposal(h, n) THEN finish_next(n) ELSE n,
         NEW S \in Schedule \cup {<<>>}, NEW g2,
         g2 = set_proposed_producers(IF TakesProposal(h, n) THEN NoProposal ELSE gpo, h, n, S)
  PROVE  Versions(f, g2) /\ g2 \in Proposal
<1> DEFINE pro == Promotes(h, p)
           takes == TakesProposal(h, n)
           av == h.activeVersion
           pv == h.pendingVersion
           pend == h.pending
           gv == gpo.version
           gp == gpo.producers
           g == IF takes THEN NoProposal ELSE gpo
<1>1. /\ av \in Nat /\ pv \in Nat /\ gv \in Nat /\ gp \in Seq(Producer) /\ h.num \in Nat \ {0}
      /\ n.num \in Nat /\ n.activeVersion \in Nat
  BY DEF Formed, HeaderRecord, Proposal
<1>2. /\ h.num # 1 /\ pend # <<>> => pv = av + 1
      /\ h.num = 1 => gpo.num = 0
      /\ gpo.num # 0 => gp \in Schedule /\ gv = 1 + IF pend = <<>> THEN av ELSE pv
  <2>1. h.num # 1 => h.num > 1
    BY <1>1
  <2> QED BY <2>1, Zenon DEF Versions
<1>3. /\ n.activeVersion = IF pro THEN pv ELSE av
      /\ n.pending = IF pro THEN <<>> ELSE pend
      /\ n.pendingVersion = pv
      /\ h.num = 1 => pro
      /\ pro => pend # <<>>
  BY Zenon DEF Promotes, NextPending, NextVersion
<1>4. takes => gpo.num # 0 /\ pend = <<>>
  BY Zenon DEF TakesProposal
<1>5. /\ takes => /\ f.num = n.num /\ f.activeVersion = n.activeVersion
                  /\ f.pending = gp /\ f.pendingVersion = gv
      /\ ~takes => f = n
  BY FinishFields, Zenon
<1>6. \/ g2 = g
      \/ /\ g2.num = n.num /\ g2.producers = S /\ S \in Schedule
         /\ g2 = [num |-> n.num, producers |-> S, version |-> g2.version]
         /\ IF takes
            THEN g2.version = 1 + IF gp = <<>> THEN n.activeVersion ELSE gv
            ELSE g2.version = 1 + IF pend = <<>> THEN n.activeVersion ELSE pv
  BY ProposalStep
<1> HIDE DEF pro, takes, av, pv, pend, gv, gp
<1>7. f.num # 1 /\ f.num = n.num
  BY <1>1, <1>5
<1>8. f.pending # <<>> => f.pendingVersion = f.activeVersion + 1
  <2>1. CASE takes
    <3>1. f.pendingVersion = gv /\ gv = 1 + av /\ f.activeVersion = av /\ av \in Nat
      BY <1>1, <1>2, <1>3, <1>4, <1>5, <2>1, Zenon
    <3> QED BY <3>1
  <2>2. CASE ~takes
    <3>1. f.pending = n.pending /\ f.pendingVersion = pv /\ f.activeVersion = n.activeVersion
      BY <1>3, <1>5, <2>2
    <3> QED BY <1>2, <1>3, <3>1, Zenon
  <2> QED BY <2>1, <2>2
<1>9. ASSUME g2.num # 0
      PROVE  /\ g2.producers \in Schedule
             /\ g2.version = 1 + IF f.pending = <<>> THEN f.activeVersion ELSE f.pendingVersion
  <2>1. CASE takes
    <3>1. gp \in Schedule /\ gp # <<>>
      BY <1>2, <1>4, <2>1, ScheduleFacts
    <3>2. g2 # NoProposal
      BY <1>9 DEF NoProposal
    <3>3. g2.producers \in Schedule /\ g2.version = 1 + gv
      BY <1>6, <2>1, <3>1, <3>2
    <3> QED BY <1>5, <2>1, <3>1, <3>3
  <2>2. CASE ~takes
    <3>1. f.pending = n.pending /\ f.pendingVersion = pv /\ f.activeVersion = n.activeVersion
      BY <1>3, <1>5, <2>2
    <3>2. CASE g2 = gpo
      <4>1. g2.producers \in Schedule /\ g2.version = 1 + IF pend = <<>> THEN av ELSE pv
        BY <1>2, <1>9, <3>2 DEF gp, gv
      <4> QED BY <1>3, <3>1, <4>1
    <3>3. CASE g2.producers \in Schedule /\ g2.version = 1 + IF pend = <<>> THEN n.activeVersion ELSE pv
      BY <1>3, <3>1, <3>3
    <3> QED BY <1>6, <2>2, <3>2, <3>3
  <2> QED BY <2>1, <2>2
<1>10. g2 \in Proposal
  <2>1. CASE g2 = g
    <3>1. NoProposal \in Proposal
      BY EmptySeq DEF NoProposal, Proposal
    <3> QED BY <2>1, <3>1
  <2>2. CASE g2 # g
    <3>1. S \in Seq(Producer) /\ g2.version \in Nat
      <4>1. S \in Schedule
        BY <1>6, <2>2
      <4> QED BY <1>1, <1>6, <2>2, <4>1, ScheduleFacts
    <3> QED BY <1>1, <1>6, <2>2, <3>1 DEF Proposal
  <2> QED BY <2>1, <2>2
<1> QED BY <1>7, <1>8, <1>9, <1>10, Zenon DEF Versions

-----------------------------------------------------------------------------
(***************************************************************************)
(* The inductive invariant.                                                *)
(***************************************************************************)
LEMMA HInvInit == HdrInit => HInv
<1> SUFFICES ASSUME HdrInit PROVE HInv
  OBVIOUS
<1>1. /\ MaxNum \in Nat \ {0} /\ MaxTracked \in Nat \ {0} /\ First \in Producer
      /\ required_confs(Cardinality(Producer)) \in Nat
  BY HeaderAssumption, RequiredFacts, FS_CardinalityType
<1>2. /\ hs.num = 1 /\ hs.proposed = 0 /\ hs.irr = 0 /\ hs.confirm = <<>>
      /\ hs.last = <<>> /\ hs.implied = <<>> /\ hs.active = <<First>>
      /\ hs.pending = <<First>> /\ hs.pendingLib = 0
  BY DEF HdrInit
<1>3. <<>> \in MapsTo(Nat) /\ DOMAIN <<>> = {}
  <2>1. <<>> \in [{} -> Nat] /\ {} \in SUBSET Producer
    OBVIOUS
  <2> QED BY <2>1 DEF MapsTo
<1>4. <<First>> \in Seq(Producer) /\ <<First>> # <<>> /\ Unique(<<First>>)
  BY <1>1 DEF Unique
<1>5. <<>> \in Seq(Nat \ {0}) /\ Len(<<>>) = 0
  BY EmptySeq
<1>6. hs \in HeaderRecord
  BY <1>3, <1>4, <1>5, Zenon DEF HdrInit, HeaderRecord
<1>7. Formed(hs)
  BY <1>1, <1>2, <1>3, <1>4, <1>6 DEF Formed
<1>8. gpo \in Proposal /\ gpo.num = 0
  BY EmptySeq, Zenon DEF HdrInit, NoProposal, Proposal
<1>9. History(hs, confirmers, needed)
  BY <1>1 DEF HdrInit, History
<1>10. Exact(hs, confirmers, needed)
  BY <1>1, <1>2, <1>5, SMTT(40) DEF Exact, Base
<1>11. Remembered(hs, confirmers)
  BY DEF HdrInit, Remembered
<1>12. Versions(hs, gpo)
  <2>1. ~(hs.num > 1)
    BY <1>2
  <2> QED BY <1>8, <2>1, Zenon DEF Versions
<1> QED BY <1>7, <1>8, <1>9, <1>10, <1>11, <1>12 DEF HInv, HdrInit

\* A block keeps the invariant; no version is refused.
LEMMA BlockStep ==
  ASSUME HInv, NEW t \in Nat, NEW c \in Nat, NEW S \in Schedule \cup {<<>>}, NextBlock(t, c, S)
  PROVE  /\ HInv' /\ hs'.num > 1 /\ hs'.proposed >= hs.proposed
         /\ \E p \in Members(hs.active) :
              /\ hs'.irr = calc_dpos_last_irreversible(hs, p)
              /\ hs'.active = NextActive(hs, p) /\ hs'.implied = NextImplied(hs, p)
<1> DEFINE p == get_scheduled_producer(hs, t)
           n == next(hs, t, p, c)
           takes == TakesProposal(hs, n)
           m == hs.num + 1
           C == Confirming(confirmers, p, m - c, m)
           N == Needing(needed, m, required_confs(Len(hs.active)))
<1>1. /\ Formed(hs) /\ gpo \in Proposal /\ History(hs, confirmers, needed)
      /\ Exact(hs, confirmers, needed) /\ Remembered(hs, confirmers) /\ Versions(hs, gpo)
      /\ badVersion = FALSE /\ hs.num < MaxNum
  BY DEF HInv, NextBlock
<1>2. p \in Members(hs.active)
  BY <1>1, ScheduledIsActive, Zenon DEF Formed, HeaderRecord
<1>3. Len(hs.confirm) <= MaxTracked /\ hs.proposed <= Base(hs)
  BY <1>1, Zenon DEF Exact
<1>4. takes => gpo.version = hs.activeVersion + 1 /\ gpo.producers \in Schedule
               /\ ~Promotes(hs, p)
  BY <1>1, TakenFollows
<1>5. /\ CanConfirm(hs, p, c)
      /\ hs' = IF takes THEN finish_next(n) ELSE n
      /\ gpo' = set_proposed_producers(IF takes THEN NoProposal ELSE gpo, hs, n, S)
      /\ badVersion' = FALSE
      /\ confirmers' = Confirming(confirmers, p, n.num - c, n.num)
      /\ needed' = Needing(needed, n.num, required_confs(Len(hs.active)))
  BY <1>1, <1>4, Zenon DEF NextBlock, Confirming, Needing
<1>6. PICK x : x = n
  OBVIOUS
<1>7. /\ x \in HeaderRecord /\ x.num = m /\ x.irr = calc_dpos_last_irreversible(hs, p)
      /\ x.confirm = Confirm(hs, c).confirm /\ x.proposed = Confirm(hs, c).proposed
      /\ x.active = NextActive(hs, p)
      /\ x.activeVersion = NextVersion(hs, p) /\ x.pending = NextPending(hs, p)
      /\ x.pendingVersion = hs.pendingVersion /\ x.pendingLib = hs.pendingLib
      /\ x.last = NextLast(hs, p) /\ x.implied = NextImplied(hs, p)
  <2> HIDE DEF n, p
  <2>1. x = next(hs, t, p, c)
    BY <1>6 DEF n
  <2>2. x \in HeaderRecord /\ NextOf(x, hs, p, c)
    BY <1>1, <1>2, <1>3, <2>1, NextFields, Zenon
  <2> QED BY <2>2, Zenon DEF NextOf
<1>8. /\ Formed(x) /\ x.num > 1 /\ hs.proposed <= x.proposed /\ x.proposed <= Base(x)
  <2> HIDE DEF n, p
  <2>1. x = next(hs, t, p, c)
    BY <1>6 DEF n
  <2> QED BY <1>1, <1>2, <1>3, <2>1, NextProposed, NextFormed
<1>9. /\ confirmers' = C /\ needed' = N
  BY <1>5, <1>6, <1>7, Zenon
<1>10. /\ hs' = IF TakesProposal(hs, x) THEN finish_next(x) ELSE x
       /\ gpo' = set_proposed_producers(IF TakesProposal(hs, x) THEN NoProposal ELSE gpo, hs, x, S)
       /\ TakesProposal(hs, x) => gpo.producers \in Schedule /\ ~Promotes(hs, p)
  BY <1>4, <1>5, <1>6, Zenon
<1>11. CanConfirm(hs, p, c) /\ badVersion' = FALSE
  BY <1>5
<1> HIDE DEF p, n, takes, m, C, N
<1>12. PICK y : y = hs'
  OBVIOUS
<1>13. /\ Formed(y)
       /\ y.num = x.num /\ y.irr = x.irr /\ y.proposed = x.proposed /\ y.confirm = x.confirm
       /\ y.active = x.active /\ y.last = x.last /\ y.implied = x.implied
       /\ \/ y.pendingLib = m /\ ~Promotes(hs, p)
          \/ y = x
  <2>1. CASE TakesProposal(hs, x)
    <3>1. y = finish_next(x) /\ gpo.producers \in Schedule /\ ~Promotes(hs, p)
      BY <1>10, <1>12, <2>1, Zenon
    <3>2. Formed(y)
      BY <1>1, <1>8, <3>1, FinishFormed
    <3> QED BY <1>1, <1>7, <3>1, <3>2, FinishFields, Zenon
  <2>2. CASE ~TakesProposal(hs, x)
    BY <1>8, <1>10, <1>12, <2>2, Zenon
  <2> QED BY <2>1, <2>2
<1>14. m = hs.num + 1
  BY DEF m
<1>15. History(y, C, N)
  BY <1>1, <1>2, <1>7, <1>13, <1>14, NextHistory, Zenon DEF C, N
<1>16. Exact(y, C, N)
  <2>1. /\ y.num = m /\ y.confirm = Confirm(hs, c).confirm
        /\ y.proposed = Confirm(hs, c).proposed
    BY <1>7, <1>13, Zenon
  <2>2. y.proposed <= Base(y)
    BY <1>8, <1>13 DEF Base
  <2> QED BY <1>1, <1>2, <1>11, <1>14, <2>1, <2>2, NextExact, Zenon DEF C, N
<1>17. Remembered(y, C)
  <2>1. y.last = NextLast(hs, p) /\ y.active = NextActive(hs, p)
    BY <1>7, <1>13, Zenon
  <2>2. \/ y.pending = <<>>
        \/ y.pendingLib = m /\ ~Promotes(hs, p)
        \/ y.pending = hs.pending /\ y.pendingLib = hs.pendingLib /\ ~Promotes(hs, p)
    BY <1>7, <1>13, Zenon DEF NextPending
  <2> QED BY <1>1, <1>2, <1>14, <2>1, <2>2, NextRemembered, Zenon DEF C
<1>18. Versions(y, gpo') /\ gpo' \in Proposal
  <2>1. hs.num = 1 => Promotes(hs, p)
    <3>1. hs.num = 1 => hs.pending # <<>> /\ hs.pendingLib = 0
      BY <1>1, Zenon DEF Formed
    <3>2. hs.num = 1 => calc_dpos_last_irreversible(hs, p) = 0
      BY <1>1, IrrFacts
    <3> QED BY <3>1, <3>2 DEF Promotes
  <2>2. PICK z : z = gpo'
    OBVIOUS
  <2>3. Versions(y, z) /\ z \in Proposal
    BY <1>1, <1>7, <1>8, <1>10, <1>12, <2>1, <2>2, NextVersions, Zenon
  <2> QED BY <2>2, <2>3
<1>19. y.proposed >= hs.proposed
  BY <1>1, <1>7, <1>8, <1>13, Zenon DEF Formed, HeaderRecord
<1> QED
  BY <1>2, <1>7, <1>8, <1>9, <1>11, <1>12, <1>13, <1>15, <1>16, <1>17, <1>18, <1>19, Zenon DEF HInv

\* Every block, with any producer and confirmed range, preserves the invariant.
LEMMA HInvNext == HInv /\ [HdrNext]_hvars => HInv'
<1> SUFFICES ASSUME HInv, [HdrNext]_hvars PROVE HInv'
  OBVIOUS
<1>1. CASE HdrNext
  <2>1. PICK t \in hs.slot + 1 .. hs.slot + 1 + MaxMissed, c \in 0..hs.num,
             S \in Schedule \cup {<<>>} : NextBlock(t, c, S)
    BY <1>1 DEF HdrNext
  <2>2. t \in Nat /\ c \in Nat
    <3>1. hs.slot \in Nat /\ hs.num \in Nat /\ MaxMissed \in Nat
      BY HeaderAssumption DEF HInv, Formed, HeaderRecord
    <3> QED BY <3>1
  <2> QED BY <2>1, <2>2, BlockStep
<1>2. CASE UNCHANGED hvars
  BY <1>2, Zenon DEF HInv, hvars, Formed, HeaderRecord, History, Exact, Base, Remembered, Versions
<1> QED BY <1>1, <1>2

\* The inductive invariant, which everything below rests on, holds whatever
\* ranges the headers confirm and whatever schedules are proposed.
THEOREM HeaderInvariant == HdrSpec => []HInv
BY HInvInit, HInvNext, PTL DEF HdrSpec

\* The counts of the invariant are those of the property.
LEMMA HInvCounts == HInv => CountsAreExact
<1> SUFFICES ASSUME HInv PROVE CountsAreExact
  OBVIOUS
<1> DEFINE cnt == hs.confirm
           len == Len(hs.confirm)
           num == hs.num
           prop == hs.proposed
           base == Base(hs)
<1>1. /\ num \in Nat /\ prop \in Nat /\ cnt \in Seq(Nat \ {0}) /\ base = num - len
      /\ prop <= base
      /\ \A k \in base + 1 .. num : cnt[k - base] = needed[k] - Cardinality(confirmers[k])
      /\ prop > 0 => Cardinality(confirmers[prop]) >= needed[prop]
  BY DEF HInv, Formed, HeaderRecord, Exact, Base
<1>2. len \in Nat
  BY <1>1, LenProperties
<1> HIDE DEF cnt, len, num, prop, base
<1>3. ASSUME NEW i \in 1..len
      PROVE  /\ num - len + i > prop
             /\ cnt[i] = needed[num - len + i] - Cardinality(confirmers[num - len + i])
  <2>1. /\ num - len + i \in base + 1 .. num /\ (num - len + i) - base = i
        /\ num - len + i > prop
    BY <1>1, <1>2
  <2> QED BY <1>1, <2>1
<1> QED BY <1>1, <1>3 DEF CountsAreExact, cnt, len, num, prop

\* The counts are within the width the code gives them (confirm_count is a
\* vector of uint8_t), and the header state is well formed.
LEMMA HInvType == HInv => HdrTypeOK
<1> SUFFICES ASSUME HInv PROVE HdrTypeOK
  OBVIOUS
<1> DEFINE cnt == hs.confirm
           len == Len(hs.confirm)
           num == hs.num
           base == Base(hs)
           R == required_confs(Cardinality(Producer))
<1>1. /\ hs.num \in 1..MaxNum /\ MaxNum \in Nat /\ hs.proposed \in Nat /\ hs.irr \in Nat
      /\ hs.pendingLib \in Nat /\ hs.proposed <= hs.num /\ hs.irr <= hs.proposed
      /\ hs.pendingLib <= hs.num /\ cnt \in Seq(Nat \ {0})
  BY HeaderAssumption DEF HInv, Formed, HeaderRecord
<1>2. len \in Nat /\ R \in Nat /\ base = num - len
  BY <1>1, LenProperties, HeaderAssumption, FS_CardinalityType, RequiredFacts DEF Base
<1>3. cnt \in Seq(1..R)
  <2>1. \A k \in base + 1 .. num : cnt[k - base] = needed[k] - Cardinality(confirmers[k])
    BY Zenon DEF HInv, Exact
  <2>2. \A k \in 1..MaxNum : needed[k] \in 0..R /\ confirmers[k] \in SUBSET Producer
    BY DEF HInv, History
  <2>3. base \in Nat /\ num \in 1..MaxNum
    <3>1. hs.proposed <= base
      BY DEF HInv, Exact
    <3> QED BY <1>1, <1>2, <3>1
  <2>4. \A i \in 1..len : cnt[i] \in Nat \ {0}
    BY <1>1, ElementOfSeq
  <2> HIDE DEF cnt, num, base, R
  <2>5. ASSUME NEW i \in 1..len PROVE cnt[i] \in 1..R
    <3>1. base + i \in base + 1 .. num /\ base + i \in 1..MaxNum /\ (base + i) - base = i
      BY <1>1, <1>2, <2>3
    <3>2. cnt[i] = needed[base + i] - Cardinality(confirmers[base + i])
      BY <2>1, <3>1
    <3>3. Cardinality(confirmers[base + i]) \in Nat
      BY <2>2, <3>1, HeaderAssumption, FS_Subset, FS_CardinalityType
    <3>4. needed[base + i] \in 0..R
      BY <2>2, <3>1
    <3> QED BY <1>2, <2>4, <3>2, <3>3, <3>4
  <2>6. cnt \in [1..len -> 1..R]
    <3>1. cnt \in [1..len -> Nat \ {0}]
      BY <1>1, LenProperties DEF cnt
    <3> QED BY <2>5, <3>1
  <2> QED BY <1>2, <2>6, SeqDef
<1>4. {hs.num, hs.proposed, hs.irr, hs.pendingLib} \subseteq Heights
  BY <1>1 DEF Heights
<1>5. /\ hs.active \in Seq(Producer) /\ hs.active # <<>> /\ hs.pending \in Seq(Producer)
      /\ hs.num > 1 => /\ DOMAIN hs.implied = Members(hs.active)
                       /\ Members(hs.active) \subseteq DOMAIN hs.last
  BY <1>1 DEF HInv, Formed, HeaderRecord
<1>6. len <= MaxTracked
  BY DEF HInv, Exact
<1> QED BY <1>3, <1>4, <1>5, <1>6 DEF HdrTypeOK

\* HdrTypeOK: the header state stays well formed, for every window size.
THEOREM HeaderWellFormed == HdrSpec => []HdrTypeOK
BY HeaderInvariant, HInvType, PTL

\* CountsAreExact: what set_confirmed has left to count of a height is what it
\* needed less the number of different producers that have confirmed it, so the
\* proposed irreversible block has the confirmations its schedule asks for.
THEOREM ConfirmationsAreExact == HdrSpec => []CountsAreExact
BY HeaderInvariant, HInvCounts, PTL

\* VersionsFollow: "wrong producer schedule version specified" is never thrown
\* for a schedule that start_block takes from the proposal.
THEOREM NoWrongVersion == HdrSpec => []VersionsFollow
<1>1. HInv => VersionsFollow
  BY DEF HInv, VersionsFollow
<1> QED BY <1>1, HeaderInvariant, PTL

-----------------------------------------------------------------------------
(***************************************************************************)
(* The last irreversible block, as long as no schedule is replaced by a    *)
(* smaller one.                                                            *)
(***************************************************************************)
\* Those of the active producers whose implied view is below v.
Behind(h, v) == {q \in Members(h.active) : h.implied[q] < v}

\* The active producers are the ones whose views are counted.
LEMMA ActiveFacts ==
  ASSUME NEW h, Formed(h), h.num > 1
  PROVE  /\ DOMAIN h.implied = Members(h.active) /\ IsFiniteSet(Members(h.active))
         /\ Cardinality(Members(h.active)) = Len(h.active) /\ Len(h.active) \in Nat \ {0}
         /\ Third(h) = (Len(h.active) - 1) \div 3 /\ Third(h) \in Nat
         /\ \A q \in Members(h.active) : h.implied[q] \in Nat
<1>1. /\ h.active \in Seq(Producer) /\ h.active # <<>> /\ Unique(h.active)
      /\ DOMAIN h.implied = Members(h.active) /\ h.implied \in MapsTo(Nat)
  BY DEF Formed, HeaderRecord
<1>2. /\ IsFiniteSet(Members(h.active)) /\ Cardinality(Members(h.active)) = Len(h.active)
      /\ Len(h.active) \in Nat \ {0}
  BY <1>1, MembersFacts, EmptySeq
<1>3. Third(h) = (Len(h.active) - 1) \div 3
  BY <1>1, <1>2 DEF Third
<1>4. Third(h) \in Nat
  <2> DEFINE len == Len(h.active)
  <2> HIDE DEF len
  <2>1. len \in Nat \ {0} /\ Third(h) = (len - 1) \div 3
    BY <1>2, <1>3 DEF len
  <2> QED BY <2>1
<1>5. \A q \in Members(h.active) : h.implied[q] \in Nat
  BY <1>1 DEF MapsTo
<1> QED BY <1>1, <1>2, <1>3, <1>4, <1>5, Zenon

\* calc_dpos_last_irreversible does not go back: a block below irr would have
\* more than a third of the views not above it, and they are all behind irr.
LEMMA IrrNotBack ==
  ASSUME NEW h, Formed(h), FewBehind(h), NEW p
  PROVE  calc_dpos_last_irreversible(h, p) >= h.irr
<1> DEFINE v == calc_dpos_last_irreversible(h, p)
           P == Members(h.active)
           low == NotAbove(P, View(h, p), v)
<1>1. v \in Nat /\ h.irr \in Nat /\ h.num \in Nat \ {0} /\ h.proposed \in Nat
      /\ h.irr <= h.proposed /\ h.irr < h.num
  <2>1. v \in 0..h.proposed
    BY IrrFacts
  <2> QED BY <2>1 DEF Formed, HeaderRecord
<1>2. CASE h.num = 1
  BY <1>1, <1>2
<1>3. CASE h.num > 1
  <2>1. /\ DOMAIN h.implied = P /\ IsFiniteSet(P) /\ Third(h) \in Nat
        /\ Third(h) = (Len(h.active) - 1) \div 3 /\ \A q \in P : h.implied[q] \in Nat
    BY <1>3, ActiveFacts, Zenon
  <2>2. Cardinality(low) > Third(h)
    BY <1>3, <2>1, IrrFacts, Zenon
  <2>3. Cardinality(Behind(h, h.irr)) <= Third(h)
    BY <1>3, <2>1, Zenon DEF FewBehind, Behind
  <2>4. ASSUME v < h.irr PROVE FALSE
    <3>1. low \subseteq Behind(h, h.irr)
      <4> SUFFICES ASSUME NEW q \in P, View(h, p)[q] <= v PROVE h.implied[q] < h.irr
        BY DEF NotAbove, Behind
      <4>1. View(h, p)[q] = IF q = p THEN h.proposed ELSE h.implied[q]
        BY <2>1 DEF View
      <4> HIDE DEF v
      <4> QED BY <1>1, <2>1, <2>4, <4>1
    <3>2. /\ IsFiniteSet(Behind(h, h.irr)) /\ Cardinality(Behind(h, h.irr)) \in Nat
      <4>1. Behind(h, h.irr) \subseteq P
        BY DEF Behind
      <4> QED BY <2>1, <4>1, FS_Subset, FS_CardinalityType, Zenon
    <3>3. Cardinality(low) <= Cardinality(Behind(h, h.irr)) /\ Cardinality(low) \in Nat
      BY <3>1, <3>2, FS_Subset, FS_CardinalityType
    <3> DEFINE a == Cardinality(low)
               b == Cardinality(Behind(h, h.irr))
               d == Third(h)
    <3>4. a \in Nat /\ b \in Nat /\ d \in Nat /\ a > d /\ b <= d /\ a <= b
      BY <2>1, <2>2, <2>3, <3>2, <3>3, Zenon
    <3> HIDE DEF a, b, d
    <3> QED BY <3>4
  <2> QED BY <1>1, <2>4
<1> QED BY <1>1, <1>2, <1>3

\* At most a third stay behind after a block of p that leaves n: a newcomer
\* starts at irr, the others keep the view that was counted.
LEMMA StillFewBehind ==
  ASSUME NEW h, Formed(h), h.pending # <<>> => Len(h.pending) >= Len(h.active),
         NEW p \in Members(h.active), NEW n, Formed(n), n.num > 1,
         n.irr = calc_dpos_last_irreversible(h, p),
         n.active = NextActive(h, p), n.implied = NextImplied(h, p)
  PROVE  FewBehind(n)
<1> DEFINE v == calc_dpos_last_irreversible(h, p)
           P == Members(h.active)
           Q == Members(n.active)
           few == Below(P, View(h, p), v)
<1>1. v \in Nat /\ h.num \in Nat \ {0} /\ h.proposed \in Nat /\ (h.num = 1 => v = 0)
  <2>1. v \in 0..h.proposed /\ (h.num = 1 => v = 0)
    BY IrrFacts, Zenon
  <2> QED BY <2>1 DEF Formed, HeaderRecord
<1>2. /\ DOMAIN n.implied = Q /\ IsFiniteSet(Q) /\ Len(n.active) \in Nat \ {0}
      /\ \A q \in Q : n.implied[q] \in Nat
  BY ActiveFacts, Zenon
<1>3. \A q \in Q : n.implied[q] = Entry(h.implied, q, p, h.proposed, v)
  <2>1. \A q \in DOMAIN NextImplied(h, p) :
          NextImplied(h, p)[q] = Entry(h.implied, q, p, h.proposed, v)
    BY NextMaps, Zenon
  <2> QED BY <1>2, <2>1
<1>4. Cardinality(Behind(n, v)) <= (Len(n.active) - 1) \div 3
  <2>1. CASE h.num = 1
    <3>1. Behind(n, v) = {}
      BY <1>1, <1>2, <2>1 DEF Behind
    <3>2. Cardinality(Behind(n, v)) = 0
      BY <3>1, FS_EmptySet, Zenon
    <3> QED BY <1>2, <3>2
  <2>2. CASE h.num > 1
    <3>1. /\ DOMAIN h.implied = P /\ IsFiniteSet(P) /\ Third(h) \in Nat
          /\ Third(h) = (Len(h.active) - 1) \div 3 /\ Len(h.active) \in Nat \ {0}
          /\ \A q \in P : h.implied[q] \in Nat
      BY <2>2, ActiveFacts, Zenon
    <3>2. Cardinality(few) <= Third(h)
      BY <2>2, <3>1, IrrFacts, Zenon
    <3>3. Behind(n, v) \subseteq few
      <4> SUFFICES ASSUME NEW q \in Q, n.implied[q] < v PROVE q \in P /\ View(h, p)[q] < v
        BY DEF Behind, Below
      <4>1. n.implied[q] = IF q = p THEN h.proposed ELSE IF q \in P THEN h.implied[q] ELSE v
        BY <1>3, <3>1, Zenon DEF Entry
      <4>2. q \in P => View(h, p)[q] = IF q = p THEN h.proposed ELSE h.implied[q]
        BY <3>1 DEF View
      <4> HIDE DEF v
      <4> QED BY <1>1, <4>1, <4>2
    <3>4. IsFiniteSet(few) /\ Cardinality(few) \in Nat
      <4>1. few \subseteq P
        BY DEF Below
      <4> QED BY <3>1, <4>1, FS_Subset, FS_CardinalityType, Zenon
    <3>5. Cardinality(Behind(n, v)) <= Cardinality(few) /\ Cardinality(Behind(n, v)) \in Nat
      BY <3>3, <3>4, FS_Subset, FS_CardinalityType, Zenon
    <3>6. Len(n.active) >= Len(h.active)
      <4>1. ASSUME Len(h.active) \in Nat PROVE Len(h.active) >= Len(h.active)
        BY <4>1
      <4> QED BY <3>1, <4>1, Zenon DEF NextActive, Promotes
    <3> DEFINE a == Cardinality(Behind(n, v))
               b == Cardinality(few)
               d == Len(h.active)
               e == Len(n.active)
    <3>7. /\ a \in Nat /\ b \in Nat /\ d \in Nat \ {0} /\ e \in Nat \ {0} /\ a <= b
          /\ b <= (d - 1) \div 3 /\ d <= e
      BY <1>2, <3>1, <3>2, <3>4, <3>5, <3>6, Zenon
    <3> HIDE DEF a, b, d, e
    <3>8. a <= (e - 1) \div 3
      BY <3>7
    <3> QED BY <3>8 DEF a, e
  <2> QED BY <1>1, <2>1, <2>2
<1> QED BY <1>4 DEF FewBehind, Behind

\* More than two thirds are not behind when at most a third, rounded down, are.
LEMMA FewBehindIsSupermajority == HInv /\ FewBehind(hs) => LibHasSupermajority
<1> SUFFICES ASSUME HInv, FewBehind(hs) PROVE LibHasSupermajority
  OBVIOUS
<1>1. Formed(hs) /\ hs.irr <= hs.proposed /\ hs.proposed <= hs.num /\ hs.irr \in Nat
  BY Zenon DEF HInv, Formed, HeaderRecord
<1>2. ASSUME hs.num > 1
      PROVE  3 * Cardinality({q \in Members(hs.active) : hs.implied[q] >= hs.irr})
               > 2 * Len(hs.active)
  <2> DEFINE P == Members(hs.active)
             low == Behind(hs, hs.irr)
             high == {q \in P : hs.implied[q] >= hs.irr}
             a == Cardinality(low)
             b == Cardinality(high)
             M == Len(hs.active)
  <2>1. /\ IsFiniteSet(P) /\ Cardinality(P) = M /\ M \in Nat \ {0}
        /\ \A q \in P : hs.implied[q] \in Nat
    BY <1>1, <1>2, ActiveFacts, Zenon
  <2>2. low \in SUBSET P /\ high = P \ low
    BY <1>1, <2>1 DEF Behind
  <2>3. IsFiniteSet(low) /\ a \in Nat
    BY <2>1, <2>2, FS_Subset, FS_CardinalityType
  <2>4. b = Cardinality(P) - Cardinality(P \cap low)
    <3>1. Cardinality(P \ low) = Cardinality(P) - Cardinality(P \cap low)
      BY <2>1, FS_Difference, Zenon
    <3> QED BY <2>2, <3>1
  <2>5. P \cap low = low
    BY <2>2
  <2>6. b = M - a /\ a <= (M - 1) \div 3
    <3>1. a <= (M - 1) \div 3
      BY <1>2, Zenon DEF FewBehind, Behind
    <3>2. b = M - a
      BY <2>1, <2>4, <2>5, Zenon
    <3> QED BY <3>1, <3>2, Zenon
  <2> HIDE DEF a, b, M
  <2>7. 3 * b > 2 * M
    BY <2>1, <2>3, <2>6
  <2> QED BY <2>7 DEF b, M
<1> QED BY <1>1, <1>2 DEF LibHasSupermajority

\* FewBehind of the current header state.
FewBehindNow == FewBehind(hs)

\* A block goes on from irr, if the schedule it may promote is not smaller.
LEMMA FewBehindNext ==
  ASSUME HInv, FewBehindNow, PendingNotSmaller, [HdrNext]_hvars
  PROVE  FewBehindNow' /\ [hs'.irr >= hs.irr /\ hs'.proposed >= hs.proposed]_hvars
<1>1. CASE HdrNext
  <2>1. PICK t \in hs.slot + 1 .. hs.slot + 1 + MaxMissed, c \in 0..hs.num,
             S \in Schedule \cup {<<>>} : NextBlock(t, c, S)
    BY <1>1 DEF HdrNext
  <2>2. t \in Nat /\ c \in Nat
    <3>1. hs.slot \in Nat /\ hs.num \in Nat /\ MaxMissed \in Nat
      BY HeaderAssumption DEF HInv, Formed, HeaderRecord
    <3> QED BY <3>1
  <2>3. /\ HInv' /\ hs'.num > 1 /\ hs'.proposed >= hs.proposed
        /\ \E p \in Members(hs.active) :
             /\ hs'.irr = calc_dpos_last_irreversible(hs, p)
             /\ hs'.active = NextActive(hs, p) /\ hs'.implied = NextImplied(hs, p)
    BY <2>1, <2>2, BlockStep
  <2>4. PICK p \in Members(hs.active) :
             /\ hs'.irr = calc_dpos_last_irreversible(hs, p)
             /\ hs'.active = NextActive(hs, p) /\ hs'.implied = NextImplied(hs, p)
    BY <2>3
  <2>5. Formed(hs) /\ FewBehind(hs) /\ (hs.pending # <<>> => Len(hs.pending) >= Len(hs.active))
    BY Zenon DEF HInv, FewBehindNow, PendingNotSmaller
  <2>6. PICK y : y = hs'
    OBVIOUS
  <2>7. Formed(y) /\ y.num > 1
    BY <2>3, <2>6 DEF HInv
  <2>8. FewBehind(y)
    BY <2>4, <2>5, <2>6, <2>7, StillFewBehind, Zenon
  <2>9. hs'.irr >= hs.irr
    BY <2>4, <2>5, IrrNotBack, Zenon
  <2> QED BY <2>3, <2>6, <2>8, <2>9 DEF FewBehindNow
<1>2. CASE UNCHANGED hvars
  BY <1>2, Zenon DEF hvars, FewBehindNow, FewBehind
<1> QED BY <1>1, <1>2

\* Nobody is behind at genesis.
LEMMA FewBehindInit == HdrInit => FewBehindNow
BY DEF HdrInit, FewBehindNow, FewBehind

\* LibHasSupermajority: more than two thirds of the active producers have built
\* on the last irreversible block as irreversible (or joined after it), as long
\* as no schedule is replaced by a smaller one.
THEOREM SupermajorityHolds == HdrSpec /\ []PendingNotSmaller => []LibHasSupermajority
<1>1. HInv /\ FewBehindNow => LibHasSupermajority
  BY FewBehindIsSupermajority DEF FewBehindNow
<1> QED BY <1>1, HeaderInvariant, FewBehindInit, FewBehindNext, PTL DEF HdrSpec

\* LibNeverBack: under the same condition, dpos_irreversible_blocknum never goes
\* back along a branch; the proposed irreversible block never does.
THEOREM IrreversibleNeverBack == HdrSpec /\ []PendingNotSmaller => LibNeverBack
BY HeaderInvariant, FewBehindInit, FewBehindNext, PTL DEF HdrSpec, LibNeverBack

\* The last irreversible block of a header state is below its own height and
\* not above the proposed one.
IrrBelowHead == hs.irr < hs.num /\ hs.irr <= hs.proposed /\ hs.proposed <= hs.num

\* What the fork database relies on, whatever the schedules are: IrrBelowHead,
\* and the proposed irreversible block does not go back.
THEOREM ProposedNeverBack ==
  HdrSpec => []IrrBelowHead /\ [][hs'.proposed >= hs.proposed]_hvars
<1>1. HInv => IrrBelowHead
  BY Zenon DEF HInv, Formed, IrrBelowHead
<1>2. ASSUME HInv, [HdrNext]_hvars PROVE [hs'.proposed >= hs.proposed]_hvars
  <2>1. CASE HdrNext
    <3>1. PICK t \in hs.slot + 1 .. hs.slot + 1 + MaxMissed, c \in 0..hs.num,
               S \in Schedule \cup {<<>>} : NextBlock(t, c, S)
      BY <2>1 DEF HdrNext
    <3>2. t \in Nat /\ c \in Nat
      BY <1>2, HeaderAssumption DEF HInv, Formed, HeaderRecord
    <3> QED BY <1>2, <3>1, <3>2, BlockStep
  <2> QED BY <1>2, <2>1
<1> QED BY <1>1, <1>2, HeaderInvariant, PTL DEF HdrSpec

=============================================================================
