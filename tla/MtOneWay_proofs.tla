--------------------------- MODULE MtOneWay_proofs --------------------------
(***************************************************************************)
(* RunMtOneWay: the credits between its two threads, and the statistics of *)
(* what it takes.                                                          *)
(*                                                                         *)
(* For every stack, credit limit, drain cap and number of iterations, and  *)
(* with drops and failing calls: at most MaxInFlight samples are           *)
(* outstanding, and a Subspace publisher always finds a slot.              *)
(*                                                                         *)
(* The bound is not inductive by itself: the counter lags behind the       *)
(* samples on the publisher's side and leads them on the subscriber's.     *)
(* EveryMessageCovered bounds the samples by the credits and what is in    *)
(* between, CreditBelow what the publisher saw when it decided to publish. *)
(*                                                                         *)
(* For every sequence of latencies: the sums are those of the samples they *)
(* are named for, and the percentile interpolates between order statistics.*)
(* What a sum or a sort computes is an induction over the samples, done as *)
(* the search for a least counterexample (LeastNumber).                    *)
(***************************************************************************)
EXTENDS CreditFlow, LatencyStats, FiniteSetTheorems, SequenceTheorems, WellFoundedInduction, TLAPS

CreditBelow ==
    /\ inFlight <= MaxInFlight
    /\ pubPc \in {"publish", "count"} => inFlight < MaxInFlight

IInv == TypeOK /\ EveryMessageCovered /\ CreditBelow

LEMMA InvInit == Init => IInv
<1> SUFFICES ASSUME Init PROVE IInv
  OBVIOUS
<1> USE DEF Init
<1>1. TypeOK
  BY DEF TypeOK
<1>2. EveryMessageCovered
  BY DEF EveryMessageCovered, Uncounted, Unreturned
<1>3. CreditBelow
  BY CreditAssumption DEF CreditBelow
<1> QED  BY <1>1, <1>2, <1>3 DEF IInv

LEMMA PublisherInv ==
    ASSUME IInv, PubStep \/ PublishFails
    PROVE  IInv'
<1> USE CreditAssumption DEF IInv, TypeOK, EveryMessageCovered, CreditBelow, Uncounted, Unreturned,
        SubUnchanged, runVars, loopVars
<1>1. CASE PubCheckStop
  BY <1>1 DEF PubCheckStop
<1>2. CASE PubCheckCredit
  BY <1>2 DEF PubCheckCredit, HasCredit
<1>3. CASE Publish
  BY <1>3 DEF Publish
<1>4. CASE PublishFails
  BY <1>4 DEF PublishFails
<1>5. CASE CountInFlight
  BY <1>5 DEF CountInFlight
<1> QED  BY <1>1, <1>2, <1>3, <1>4, <1>5 DEF PubStep

LEMMA DropInv ==
    ASSUME IInv, Drop
    PROVE  IInv'
BY DEF Drop, IInv, TypeOK, EveryMessageCovered, CreditBelow, Uncounted, Unreturned,
       SubUnchanged, runVars, loopVars

LEMMA SubscriberInv ==
    ASSUME IInv, SubStep \/ TakeFails
    PROVE  IInv'
<1> USE CreditAssumption DEF IInv, TypeOK, EveryMessageCovered, CreditBelow, Uncounted, Unreturned,
        runVars, loopVars
<1>1. CASE DrainTake
  BY <1>1 DEF DrainTake, Take
<1>2. CASE DrainEnd
  BY <1>2 DEF DrainEnd
<1>3. CASE TimedTake
  BY <1>3 DEF TimedTake, Take
<1>4. CASE LookEmpty
  BY <1>4 DEF LookEmpty
<1>5. CASE WaitReturns
  BY <1>5 DEF WaitReturns
<1>6. CASE TimedOut
  BY <1>6 DEF TimedOut, DeadlinePassed
<1>7. CASE TakeFails
  BY <1>7 DEF TakeFails
<1>8. CASE LoadCredit
  BY <1>8 DEF LoadCredit
<1>9. CASE CasCredit
  BY <1>9 DEF CasCredit, ReturnCredit
<1>10. CASE NextIteration
  BY <1>10 DEF NextIteration
<1>11. CASE RequestStop
  BY <1>11 DEF RequestStop
<1>12. CASE Join
  BY <1>12 DEF Join
<1> QED  BY <1>1, <1>2, <1>3, <1>4, <1>5, <1>6, <1>7, <1>8, <1>9, <1>10, <1>11, <1>12 DEF SubStep

THEOREM IInvHolds == Spec => []IInv
<1>1. Init => IInv
  BY InvInit
<1>2. IInv /\ [Next]_vars => IInv'
  <2> SUFFICES ASSUME IInv, [Next]_vars
               PROVE  IInv'
    OBVIOUS
  <2>1. CASE PubStep \/ PublishFails
    BY <2>1, PublisherInv
  <2>2. CASE SubStep \/ TakeFails
    BY <2>2, SubscriberInv
  <2>3. CASE Drop
    BY <2>3, DropInv
  <2>4. CASE UNCHANGED vars
    BY <2>4 DEF vars, runVars, loopVars, IInv, TypeOK, EveryMessageCovered, CreditBelow,
                Uncounted, Unreturned
  <2> QED  BY <2>1, <2>2, <2>3, <2>4 DEF Next
<1> QED  BY <1>1, <1>2, PTL DEF Spec

(* Type correctness: no counter of the credit loop goes below zero.        *)
THEOREM CreditTypes == Spec => []TypeOK
<1>1. IInv => TypeOK
  BY DEF IInv
<1> QED  BY <1>1, IInvHolds, PTL

(* Credits err only towards fewer samples than the limit allows.           *)
THEOREM MessagesAreCovered == Spec => []EveryMessageCovered
<1>1. IInv => EveryMessageCovered
  BY DEF IInv
<1> QED  BY <1>1, IInvHolds, PTL

LEMMA InvBounds == IInv => OutstandingBounded /\ SlotFree
<1> SUFFICES ASSUME IInv PROVE OutstandingBounded /\ SlotFree
  OBVIOUS
<1> USE CreditAssumption DEF IInv, TypeOK, EveryMessageCovered, CreditBelow, Uncounted, Unreturned
<1>1. OutstandingBounded
  BY DEF OutstandingBounded
<1>2. SlotFree
  BY DEF SlotFree
<1> QED  BY <1>1, <1>2

(* notes/benchmarks.md:131: never more unconsumed samples than the limit,  *)
(* although each is counted only after it was published.                   *)
THEOREM OutstandingIsBounded == Spec => []OutstandingBounded
BY InvBounds, IInvHolds, PTL

(* A Subspace publisher never waits for a slot.                            *)
THEOREM SlotIsFree == Spec => []SlotFree
BY InvBounds, IInvHolds, PTL

-----------------------------------------------------------------------------
(* Induction over the naturals, as a least counterexample: a set that is   *)
(* not empty has a least element.                                          *)
LEMMA LeastNumber ==
    ASSUME NEW T \in SUBSET Nat, T # {}
    PROVE  \E x \in T : \A y \in T : x <= y
<1>1. PICK x \in T : \A y \in T : ~(<<y, x>> \in OpToRel(<, Nat))
  BY NatLessThanWellFounded, WFMin, Zenon
<1>2. \A y \in T : x <= y
  <2> TAKE y \in T
  <2>1. x \in Nat /\ y \in Nat
    OBVIOUS
  <2>2. y < x => <<y, x>> \in OpToRel(<, Nat)
    BY <2>1 DEF OpToRel
  <2>3. ~(y < x)
    BY <1>1, <2>2
  <2> QED  BY <2>1, <2>3
<1> QED  BY <1>2

\* f holds the sums of the prefixes of v up to length n.
IsPartial(f, v, n) == f = [k \in 0 .. n |-> IF k = 0 THEN 0 ELSE f[k - 1] + v[k]]

(* The partial sums of Sum exist, whatever the sequence.                   *)
LEMMA PartialsExist ==
    ASSUME NEW v, NEW n \in Nat
    PROVE  \E f : IsPartial(f, v, n)
<1> DEFINE T == {m \in Nat : ~\E f : IsPartial(f, v, m)}
<1> SUFFICES ASSUME T # {} PROVE FALSE
  OBVIOUS
<1>1. PICK m \in T : \A y \in T : m <= y
  <2> HIDE DEF T
  <2>1. T \in SUBSET Nat
    BY DEF T
  <2> QED  BY <2>1, LeastNumber
<1>2. m # 0
  <2>1. IsPartial([k \in 0 .. 0 |-> 0], v, 0)
    BY DEF IsPartial
  <2> QED  BY <2>1, <1>1
<1>3. m - 1 \in Nat /\ m - 1 \notin T
  BY <1>1, <1>2
<1>4. PICK f : IsPartial(f, v, m - 1)
  BY <1>3
<1> DEFINE g == [k \in 0 .. m |-> IF k = m THEN f[m - 1] + v[m] ELSE f[k]]
<1>5. ASSUME NEW k \in 0 .. m PROVE g[k] = IF k = 0 THEN 0 ELSE g[k - 1] + v[k]
  BY <1>1, <1>3, <1>4 DEF IsPartial
<1>6. IsPartial(g, v, m)
  BY <1>5, Zenon DEF IsPartial
<1> QED  BY <1>1, <1>6

(* They depend on nothing but the prefix they sum.                         *)
LEMMA PartialsAgree ==
    \A m \in Nat : \A v, w, f, g :
        /\ \A k \in 1 .. m : v[k] = w[k]
        /\ IsPartial(f, v, m) /\ IsPartial(g, w, m + 1)
        => \A k \in 0 .. m : f[k] = g[k]
<1> SUFFICES ASSUME NEW m \in Nat, NEW v, NEW w, NEW f, NEW g,
                    IsPartial(f, v, m), IsPartial(g, w, m + 1),
                    \A k \in 1 .. m : v[k] = w[k]
             PROVE  \A k \in 0 .. m : f[k] = g[k]
  OBVIOUS
<1> DEFINE T == {k \in 0 .. m : f[k] # g[k]}
<1> SUFFICES ASSUME T # {} PROVE FALSE
  OBVIOUS
<1>1. PICK k \in T : \A y \in T : k <= y
  <2> HIDE DEF T
  <2>1. T \in SUBSET Nat
    BY DEF T
  <2> QED  BY <2>1, LeastNumber
<1>2. f[0] = 0 /\ g[0] = 0
  BY DEF IsPartial
<1>3. k \in 1 .. m /\ f[k - 1] = g[k - 1]
  BY <1>1, <1>2
<1>4. f[k] = f[k - 1] + v[k] /\ g[k] = g[k - 1] + w[k]
  BY <1>3 DEF IsPartial
<1> QED  BY <1>1, <1>3, <1>4

LEMMA PartialsAreNumbers ==
    ASSUME NEW v, NEW n \in Nat, \A k \in 1 .. n : v[k] \in Int,
           NEW f, IsPartial(f, v, n)
    PROVE  \A k \in 0 .. n : f[k] \in Int
<1> DEFINE T == {k \in 0 .. n : f[k] \notin Int}
<1> SUFFICES ASSUME T # {} PROVE FALSE
  OBVIOUS
<1>1. PICK k \in T : \A y \in T : k <= y
  <2> HIDE DEF T
  <2>1. T \in SUBSET Nat
    BY DEF T
  <2> QED  BY <2>1, LeastNumber
<1>2. f[0] = 0
  BY DEF IsPartial
<1>3. k \in 1 .. n /\ f[k - 1] \in Int
  BY <1>1, <1>2
<1>4. f[k] = f[k - 1] + v[k]
  BY <1>3 DEF IsPartial
<1> QED  BY <1>1, <1>3, <1>4

(* MeanUs adds one latency at a time.                                      *)
LEMMA SumOfAppend ==
    ASSUME NEW v \in Seq(Int), NEW w \in Seq(Int), Len(w) = Len(v) + 1,
           \A k \in 1 .. Len(v) : v[k] = w[k]
    PROVE  Sum(w) = Sum(v) + w[Len(w)]
<1>1. PICK m \in Nat : m = Len(v)
  OBVIOUS
<1>2. PICK f : f = CHOOSE h : IsPartial(h, v, m)
  OBVIOUS
<1>3. PICK g : g = CHOOSE h : IsPartial(h, w, m + 1)
  OBVIOUS
<1>4. IsPartial(f, v, m) /\ IsPartial(g, w, m + 1)
  BY <1>2, <1>3, PartialsExist, m + 1 \in Nat, Zenon
<1>5. Sum(v) = f[m] /\ Sum(w) = g[m + 1]
  BY <1>1, <1>2, <1>3 DEF Sum, IsPartial
<1>6. \A k \in 0 .. m : f[k] = g[k]
  <2>1. \A k \in 1 .. m : v[k] = w[k]
    BY <1>1
  <2> QED  BY <1>4, <2>1, PartialsAgree
<1>7. g[m + 1] = g[m] + w[m + 1]
  BY <1>4 DEF IsPartial
<1>8. m \in 0 .. m
  OBVIOUS
<1> QED  BY <1>1, <1>5, <1>6, <1>7, <1>8

LEMMA SumOfNone == ASSUME NEW v, Len(v) = 0 PROVE Sum(v) = 0
<1>1. PICK f : f = CHOOSE h : IsPartial(h, v, 0)
  OBVIOUS
<1>2. IsPartial(f, v, 0)
  BY <1>1, PartialsExist, 0 \in Nat, Zenon
<1>3. Sum(v) = f[0]
  BY <1>1 DEF Sum, IsPartial
<1>4. f[0] = 0
  BY <1>2 DEF IsPartial
<1> QED  BY <1>3, <1>4

LEMMA SumIsNumber == ASSUME NEW v \in Seq(Int) PROVE Sum(v) \in Int
<1>1. PICK m \in Nat : m = Len(v)
  OBVIOUS
<1>2. PICK f : f = CHOOSE h : IsPartial(h, v, m)
  OBVIOUS
<1>3. IsPartial(f, v, m)
  BY <1>2, PartialsExist, Zenon
<1>4. Sum(v) = f[m]
  BY <1>1, <1>2 DEF Sum, IsPartial
<1>5. \A k \in 1 .. m : v[k] \in Int
  BY <1>1
<1>6. \A k \in 0 .. m : f[k] \in Int
  BY <1>3, <1>5, PartialsAreNumbers, Zenon
<1> QED  BY <1>4, <1>6

\* The samples of one kind, zero in the others' places.
OfKind(v, u, b) == [i \in DOMAIN v |-> IF u[i] = b THEN v[i] ELSE 0]

QueuedPlaces(v, u) == {i \in DOMAIN v : u[i]}

LEMMA OfKindLength ==
    ASSUME NEW v \in Seq(Int), NEW u, NEW b
    PROVE  OfKind(v, u, b) \in Seq(Int) /\ Len(OfKind(v, u, b)) = Len(v)
<1>1. PICK n \in Nat : n = Len(v)
  OBVIOUS
<1>2. DOMAIN v = 1 .. n /\ \A i \in 1 .. n : v[i] \in Int
  BY <1>1
<1>3. OfKind(v, u, b) \in [1 .. n -> Int]
  BY <1>2 DEF OfKind
<1> QED  BY <1>1, <1>3

(* A sample adds to the sum of its own kind and to no other.               *)
LEMMA OfKindAppend ==
    ASSUME NEW v \in Seq(Int), NEW u \in Seq(BOOLEAN), Len(u) = Len(v), NEW e \in Int,
           NEW q \in BOOLEAN, NEW b \in BOOLEAN
    PROVE  Sum(OfKind(Append(v, e), Append(u, q), b))
             = Sum(OfKind(v, u, b)) + IF q = b THEN e ELSE 0
<1> DEFINE w == OfKind(v, u, b)
           x == OfKind(Append(v, e), Append(u, q), b)
<1>1. PICK n \in Nat : n = Len(v)
  OBVIOUS
<1>2. Append(v, e) \in Seq(Int) /\ Len(Append(v, e)) = n + 1
  BY <1>1
<1>3. /\ w \in Seq(Int) /\ Len(w) = n
      /\ x \in Seq(Int) /\ Len(x) = n + 1
  BY <1>1, <1>2, OfKindLength, Zenon
<1>4. DOMAIN v = 1 .. n /\ DOMAIN Append(v, e) = 1 .. n + 1
  BY <1>1
<1>5. /\ \A i \in 1 .. n : Append(v, e)[i] = v[i] /\ Append(u, q)[i] = u[i]
      /\ Append(v, e)[n + 1] = e /\ Append(u, q)[n + 1] = q
  BY <1>1
<1>6. \A i \in 1 .. n : x[i] = w[i]
  <2> TAKE i \in 1 .. n
  <2>1. i \in 1 .. n + 1
    OBVIOUS
  <2>2. x[i] = IF Append(u, q)[i] = b THEN Append(v, e)[i] ELSE 0
    BY <1>4, <2>1, Zenon DEF OfKind
  <2>3. w[i] = IF u[i] = b THEN v[i] ELSE 0
    BY <1>4, Zenon DEF OfKind
  <2> QED  BY <1>5, <2>2, <2>3, Zenon
<1>7. x[n + 1] = IF q = b THEN e ELSE 0
  <2>1. n + 1 \in 1 .. n + 1
    OBVIOUS
  <2> QED  BY <1>4, <1>5, <2>1, Zenon DEF OfKind
<1>8. Sum(x) = Sum(w) + x[n + 1]
  <2> HIDE DEF w, x
  <2>1. \A k \in 1 .. Len(w) : w[k] = x[k]
    BY <1>3, <1>6
  <2> QED  BY <1>3, <2>1, SumOfAppend
<1> QED  BY <1>7, <1>8

(* And to the number of queued samples when it is one.                     *)
LEMMA QueuedAppend ==
    ASSUME NEW v \in Seq(Int), NEW u \in Seq(BOOLEAN), Len(u) = Len(v), NEW e \in Int,
           NEW q \in BOOLEAN
    PROVE  Cardinality(QueuedPlaces(Append(v, e), Append(u, q)))
             = Cardinality(QueuedPlaces(v, u)) + IF q THEN 1 ELSE 0
<1> DEFINE S == QueuedPlaces(v, u)
           T == QueuedPlaces(Append(v, e), Append(u, q))
<1>1. PICK n \in Nat : n = Len(v)
  OBVIOUS
<1>2. DOMAIN v = 1 .. n /\ DOMAIN Append(v, e) = 1 .. n + 1
  BY <1>1
<1>3. /\ \A i \in 1 .. n : Append(u, q)[i] = u[i]
      /\ Append(u, q)[n + 1] = q
  BY <1>1
<1>4. S \subseteq 1 .. n
  BY <1>2, Zenon DEF QueuedPlaces
<1>5. IsFiniteSet(S) /\ n + 1 \notin S /\ Cardinality(S) \in Nat
  <2> HIDE DEF S
  <2>1. IsFiniteSet(1 .. n)
    BY FS_Interval
  <2>2. IsFiniteSet(S)
    BY <1>4, <2>1, FS_Subset
  <2>3. n + 1 \notin S
    BY <1>4
  <2> QED  BY <2>2, <2>3, FS_CardinalityType
<1>6. 1 .. n + 1 = (1 .. n) \cup {n + 1}
  OBVIOUS
<1>7. CASE q
  <2>1. T = S \cup {n + 1}
    BY <1>2, <1>3, <1>6, <1>7, Zenon DEF QueuedPlaces
  <2> HIDE DEF S, T
  <2>2. Cardinality(T) = Cardinality(S) + 1
    BY <1>5, <2>1, FS_AddElement
  <2> QED  BY <1>7, <2>2 DEF S, T
<1>8. CASE ~q
  <2>1. T = S
    BY <1>2, <1>3, <1>6, <1>8, Zenon DEF QueuedPlaces
  <2> QED  BY <1>5, <1>8, <2>1
<1> QED  BY <1>7, <1>8

-----------------------------------------------------------------------------
\* What is recorded are numbers, one queued flag for each.
StatsTypes ==
    /\ lat \in Seq(0 .. MaxLatency) /\ queued \in Seq(BOOLEAN)
    /\ Len(queued) = Len(lat)
    /\ stats \in [n : Int, nQueued : Int, sum : Int, sumQueued : Int, sumFresh : Int]

StatsInv == StatsTypes /\ SplitExact

LEMMA LatenciesAreNumbers == StatsTypes => lat \in Seq(Int)
<1> SUFFICES ASSUME StatsTypes PROVE lat \in Seq(Int)
  OBVIOUS
<1>1. lat \in Seq(0 .. MaxLatency)
  BY DEF StatsTypes
<1>2. PICK n \in Nat : n = Len(lat)
  BY <1>1
<1>3. lat \in [1 .. n -> 0 .. MaxLatency]
  BY <1>1, <1>2, LenProperties, Zenon
<1>4. lat \in [1 .. n -> Int]
  BY <1>3
<1> QED  BY <1>2, <1>4

LEMMA SplitInit == StatsInit => StatsInv
<1> SUFFICES ASSUME StatsInit PROVE StatsInv
  OBVIOUS
<1>1. StatsTypes
  BY DEF StatsInit, StatsTypes
<1>2. lat \in Seq(Int) /\ Len(lat) = 0 /\ DOMAIN lat = {}
  BY DEF StatsInit
<1>3. \A b \in BOOLEAN : Sum(OfKind(lat, queued, b)) = 0
  BY <1>2, OfKindLength, SumOfNone
<1>4. QueuedPlaces(lat, queued) = {}
  BY <1>2 DEF QueuedPlaces
<1>5. SplitExact
  BY <1>2, <1>3, <1>4, SumOfNone, FS_EmptySet DEF SplitExact, OfKind, QueuedPlaces, StatsInit
<1> QED  BY <1>1, <1>5 DEF StatsInv

LEMMA SplitStep == StatsInv /\ [StatsNext]_statsVars => StatsInv'
<1> SUFFICES ASSUME StatsInv, [StatsNext]_statsVars PROVE StatsInv'
  OBVIOUS
<1>1. CASE UNCHANGED statsVars
  BY <1>1 DEF StatsInv, StatsTypes, SplitExact, statsVars
<1>2. CASE TakeSample
  <2>1. PICK e \in 0 .. MaxLatency, q \in BOOLEAN :
           /\ lat' = Append(lat, e)
           /\ queued' = Append(queued, q)
           /\ stats' = Record(stats, e, q)
    BY <1>2 DEF TakeSample
  <2>2. /\ lat \in Seq(0 .. MaxLatency) /\ queued \in Seq(BOOLEAN)
        /\ Len(queued) = Len(lat)
        /\ stats \in [n : Int, nQueued : Int, sum : Int, sumQueued : Int, sumFresh : Int]
    BY DEF StatsInv, StatsTypes
  <2>3. lat \in Seq(Int) /\ e \in Int /\ Len(lat) \in Nat
    BY <2>2, LatenciesAreNumbers DEF StatsInv
  <2>4. /\ lat' \in Seq(Int) /\ Len(lat') = Len(lat) + 1 /\ lat'[Len(lat')] = e
        /\ \A k \in 1 .. Len(lat) : lat[k] = lat'[k]
    BY <2>1, <2>3
  <2>5. Sum(lat') = Sum(lat) + e
    BY <2>3, <2>4, SumOfAppend
  <2>6. \A b \in BOOLEAN : Sum(OfKind(lat', queued', b))
                             = Sum(OfKind(lat, queued, b)) + IF q = b THEN e ELSE 0
    BY <2>1, <2>2, <2>3, OfKindAppend
  <2>7. Cardinality(QueuedPlaces(lat', queued'))
          = Cardinality(QueuedPlaces(lat, queued)) + IF q THEN 1 ELSE 0
    BY <2>1, <2>2, <2>3, QueuedAppend
  <2>8. /\ stats.n = Len(lat)
        /\ stats.nQueued = Cardinality(QueuedPlaces(lat, queued))
        /\ stats.sumQueued = Sum(OfKind(lat, queued, TRUE))
        /\ stats.sumFresh = Sum(OfKind(lat, queued, FALSE))
        /\ stats.sum = Sum(lat)
    BY DEF StatsInv, SplitExact, OfKind, QueuedPlaces
  <2>9. StatsTypes'
    <3>1. lat' \in Seq(0 .. MaxLatency) /\ queued' \in Seq(BOOLEAN) /\ Len(queued') = Len(lat')
      BY <2>1, <2>2
    <3>2. stats' \in [n : Int, nQueued : Int, sum : Int, sumQueued : Int, sumFresh : Int]
      <4>1. /\ stats.n + 1 \in Int /\ stats.nQueued + 1 \in Int
            /\ stats.sum + e \in Int /\ stats.sumQueued + e \in Int
            /\ stats.sumFresh + e \in Int
        BY <2>2, <2>3
      <4> QED  BY <2>1, <2>2, <4>1, Zenon DEF Record
    <3> QED  BY <3>1, <3>2 DEF StatsTypes
  <2>10. /\ stats'.n = Len(lat')
         /\ stats'.nQueued = Cardinality(QueuedPlaces(lat', queued'))
         /\ stats'.sumQueued = Sum(OfKind(lat', queued', TRUE))
         /\ stats'.sumFresh = Sum(OfKind(lat', queued', FALSE))
         /\ stats'.sum = Sum(lat')
    <3>1. /\ stats'.n = stats.n + 1
          /\ stats'.nQueued = stats.nQueued + IF q THEN 1 ELSE 0
          /\ stats'.sumQueued = stats.sumQueued + IF q = TRUE THEN e ELSE 0
          /\ stats'.sumFresh = stats.sumFresh + IF q = FALSE THEN e ELSE 0
          /\ stats'.sum = stats.sum + e
      BY <2>1, <2>2, <2>3 DEF Record
    <3>2. /\ Sum(OfKind(lat', queued', TRUE))
               = Sum(OfKind(lat, queued, TRUE)) + IF q = TRUE THEN e ELSE 0
          /\ Sum(OfKind(lat', queued', FALSE))
               = Sum(OfKind(lat, queued, FALSE)) + IF q = FALSE THEN e ELSE 0
      BY <2>6, Zenon
    <3> QED  BY <2>4, <2>5, <2>7, <2>8, <3>1, <3>2, Zenon
  <2>11. SplitExact'
    BY <2>10, Zenon DEF SplitExact, OfKind, QueuedPlaces
  <2> QED  BY <2>9, <2>11 DEF StatsInv
<1> QED  BY <1>1, <1>2 DEF StatsNext

(* The queued and the fresh mean MtTakeStats reports are those of the      *)
(* samples of that kind, whatever was taken and however many.              *)
THEOREM SplitIsExact == StatsSpec => []SplitExact
<1>1. StatsInv => SplitExact
  BY DEF StatsInv
<1> QED  BY <1>1, SplitInit, SplitStep, PTL DEF StatsSpec

-----------------------------------------------------------------------------
\* p puts the first n places of v in a rising order.
IsOrder(p, v, n) ==
    /\ p \in Bijection(1 .. n, 1 .. n)
    /\ \A i, j \in 1 .. n : i < j => v[p[i]] <= v[p[j]]

(* What a permutation of the places is.                                    *)
LEMMA OrderByElement ==
    ASSUME NEW n, NEW p \in [1 .. n -> 1 .. n]
    PROVE  p \in Bijection(1 .. n, 1 .. n)
             <=> /\ \A i, j \in 1 .. n : p[i] = p[j] => i = j
                 /\ \A y \in 1 .. n : \E i \in 1 .. n : p[i] = y
BY Zenon DEF Bijection, Injection, Surjection, IsInjective

(* A sequence that is not empty has a largest element.                     *)
LEMMA LargestExists ==
    ASSUME NEW n \in Nat, NEW v \in [1 .. n -> Int], n # 0
    PROVE  \E top \in 1 .. n : \A i \in 1 .. n : v[i] <= v[top]
<1> DEFINE Largest(m, top) == \A i \in 1 .. m : v[i] <= v[top]
           T == {m \in 1 .. n : ~\E top \in 1 .. m : Largest(m, top)}
<1> SUFFICES ASSUME T # {} PROVE FALSE
  <2>1. n \in 1 .. n
    OBVIOUS
  <2> QED  BY <2>1, Zenon
<1>1. PICK m \in T : \A y \in T : m <= y
  <2> HIDE DEF T
  <2>1. T \in SUBSET Nat
    BY DEF T
  <2> QED  BY <2>1, LeastNumber
<1>2. m # 1
  <2>1. v[1] \in Int /\ 1 .. 1 = {1}
    OBVIOUS
  <2> QED  BY <1>1, <2>1
<1>3. m - 1 \in 1 .. n /\ m - 1 \notin T
  <2> HIDE DEF T
  <2>1. m \in 1 .. n
    BY DEF T
  <2> QED  BY <1>1, <1>2, <2>1
<1>4. PICK top \in 1 .. m - 1 : Largest(m - 1, top)
  BY <1>3, Zenon
<1>5. m \in 1 .. n /\ top \in 1 .. m /\ m \in 1 .. m /\ v[m] \in Int /\ v[top] \in Int
  BY <1>1, <1>4
<1>6. \A i \in 1 .. m : i = m \/ i \in 1 .. m - 1
  BY <1>5
<1>7. \A i \in 1 .. m : v[i] \in Int
  BY <1>5
<1>8. CASE v[top] <= v[m]
  <2>1. Largest(m, m)
    <3> SUFFICES ASSUME NEW i \in 1 .. m PROVE v[i] <= v[m]
      OBVIOUS
    <3>1. CASE i \in 1 .. m - 1
      <4>1. v[i] <= v[top]
        BY <1>4, <3>1
      <4>2. v[i] \in Int /\ v[top] \in Int /\ v[m] \in Int
        BY <1>5, <1>7
      <4>3. \A x, y, z \in Int : x <= y /\ y <= z => x <= z
        OBVIOUS
      <4> QED  BY <1>8, <4>1, <4>2, <4>3, Zenon
    <3>2. CASE i = m
      BY <1>5, <3>2
    <3> QED  BY <1>6, <3>1, <3>2
  <2> QED  BY <1>1, <1>5, <2>1
<1>9. CASE v[m] <= v[top]
  <2>1. Largest(m, top)
    BY <1>4, <1>5, <1>6, <1>7, <1>9
  <2> QED  BY <1>1, <1>5, <2>1
<1> QED  BY <1>5, <1>8, <1>9

(* std::sort has a result: every sequence has a rising order.  The largest *)
(* element goes to the last place, the rest is shorter.                    *)
LEMMA OrderExists ==
    \A n \in Nat : \A v \in [1 .. n -> Int] : \E p : IsOrder(p, v, n)
<1> DEFINE T == {n \in Nat : \E v \in [1 .. n -> Int] : ~\E p : IsOrder(p, v, n)}
<1> SUFFICES ASSUME T # {} PROVE FALSE
  OBVIOUS
<1>1. PICK m \in T : \A y \in T : m <= y
  <2> HIDE DEF T
  <2>1. T \in SUBSET Nat
    BY DEF T
  <2> QED  BY <2>1, LeastNumber
<1>2. PICK v \in [1 .. m -> Int] : ~\E p : IsOrder(p, v, m)
  BY <1>1
<1>3. m \in Nat /\ m # 0
  <2>1. ASSUME m = 0 PROVE FALSE
    <3>1. 1 .. m = {}
      BY <2>1
    <3>2. [i \in {} |-> i] \in [1 .. m -> 1 .. m]
      BY <3>1
    <3>3. IsOrder([i \in {} |-> i], v, m)
      BY <3>1, <3>2, OrderByElement, Zenon DEF IsOrder
    <3> QED  BY <1>2, <3>3
  <2> QED  BY <1>1, <2>1
<1>4. m - 1 \in Nat /\ m - 1 \notin T
  BY <1>1, <1>3
<1>5. PICK top \in 1 .. m : \A i \in 1 .. m : v[i] <= v[top]
  BY <1>3, LargestExists
<1> DEFINE w == [i \in 1 .. m - 1 |-> v[IF i = top THEN m ELSE i]]
<1>6. w \in [1 .. m - 1 -> Int]
  <2>1. \A i \in 1 .. m - 1 : (IF i = top THEN m ELSE i) \in 1 .. m
    BY <1>3
  <2>2. \A i \in 1 .. m : v[i] \in Int
    OBVIOUS
  <2> QED  BY <2>1, <2>2, Zenon
<1>7. PICK q : IsOrder(q, w, m - 1)
  <2> HIDE DEF w
  <2> QED  BY <1>4, <1>6, Zenon
<1>8. /\ q \in [1 .. m - 1 -> 1 .. m - 1]
      /\ \A i, j \in 1 .. m - 1 : q[i] = q[j] => i = j
      /\ \A y \in 1 .. m - 1 : \E i \in 1 .. m - 1 : q[i] = y
      /\ \A i, j \in 1 .. m - 1 : i < j => w[q[i]] <= w[q[j]]
  BY <1>7, Zenon DEF IsOrder, Bijection, Injection, Surjection, IsInjective
<1> DEFINE p == [i \in 1 .. m |-> IF i = m THEN top ELSE IF q[i] = top THEN m ELSE q[i]]
<1>9. \A i \in 1 .. m : i = m \/ i \in 1 .. m - 1
  BY <1>3
<1>10. m \in 1 .. m /\ m \notin 1 .. m - 1 /\ \A i \in 1 .. m - 1 : i \in 1 .. m
  BY <1>3
<1>11. p[m] = top
  BY <1>10, Zenon
<1>12. \A i \in 1 .. m - 1 : p[i] = IF q[i] = top THEN m ELSE q[i]
  BY <1>10, Zenon
<1>13. \A i \in 1 .. m - 1 : q[i] \in 1 .. m - 1
  BY <1>8, Zenon
<1>14. p \in [1 .. m -> 1 .. m]
  BY <1>9, <1>10, <1>13, Zenon
<1>15. \A i \in 1 .. m - 1 : p[i] # top /\ w[q[i]] = v[p[i]]
  BY <1>10, <1>12, <1>13, Zenon
<1> HIDE DEF p
<1>16. \A i, j \in 1 .. m : p[i] = p[j] => i = j
  <2> SUFFICES ASSUME NEW i \in 1 .. m, NEW j \in 1 .. m, p[i] = p[j] PROVE i = j
    OBVIOUS
  <2>1. CASE i = m \/ j = m
    BY <1>9, <1>11, <1>15, <2>1, Zenon
  <2>2. CASE i \in 1 .. m - 1 /\ j \in 1 .. m - 1
    <3>1. q[i] = q[j]
      BY <1>10, <1>12, <1>13, <2>2, Zenon
    <3> QED  BY <1>8, <2>2, <3>1, Zenon
  <2> QED  BY <1>9, <2>1, <2>2, Zenon
<1>17. \A y \in 1 .. m : \E i \in 1 .. m : p[i] = y
  <2> TAKE y \in 1 .. m
  <2>1. CASE y = top
    BY <1>10, <1>11, <2>1, Zenon
  <2>2. CASE y # top /\ y \in 1 .. m - 1
    <3>1. PICK i \in 1 .. m - 1 : q[i] = y
      BY <1>8, <2>2, Zenon
    <3> QED  BY <1>10, <1>12, <2>2, <3>1, Zenon
  <2>3. CASE y # top /\ y = m
    <3>1. top \in 1 .. m - 1
      BY <1>9, <2>3, Zenon
    <3>2. PICK i \in 1 .. m - 1 : q[i] = top
      BY <1>8, <3>1, Zenon
    <3> QED  BY <1>10, <1>12, <2>3, <3>2, Zenon
  <2> QED  BY <1>9, <2>1, <2>2, <2>3, Zenon
<1>18. \A i, j \in 1 .. m : i < j => v[p[i]] <= v[p[j]]
  <2> SUFFICES ASSUME NEW i \in 1 .. m, NEW j \in 1 .. m, i < j PROVE v[p[i]] <= v[p[j]]
    OBVIOUS
  <2>1. i \in 1 .. m - 1
    BY <1>3
  <2>2. CASE j = m
    BY <1>5, <1>11, <1>14, <2>2
  <2>3. CASE j \in 1 .. m - 1
    BY <1>8, <1>15, <2>1, <2>3, Zenon
  <2> QED  BY <1>9, <2>2, <2>3, Zenon
<1>19. IsOrder(p, v, m)
  BY <1>14, <1>16, <1>17, <1>18, OrderByElement, Zenon DEF IsOrder
<1> QED  BY <1>2, <1>19

Below(v, x)  == {i \in DOMAIN v : v[i] < x}
AtMost(v, x) == {i \in DOMAIN v : v[i] <= x}

\* x is a k-th smallest of v.
HasRank(v, k, x) == Cardinality(Below(v, x)) < k /\ Cardinality(AtMost(v, x)) >= k

LEMMA PlacesAreFinite ==
    ASSUME NEW v \in Seq(Int), NEW x
    PROVE  IsFiniteSet(Below(v, x)) /\ IsFiniteSet(AtMost(v, x))
<1>1. PICK n \in Nat : n = Len(v) /\ DOMAIN v = 1 .. n
  OBVIOUS
<1>2. IsFiniteSet(1 .. n)
  BY FS_Interval
<1>3. Below(v, x) \in SUBSET (1 .. n) /\ AtMost(v, x) \in SUBSET (1 .. n)
  BY <1>1, Zenon DEF Below, AtMost
<1> QED  BY <1>2, <1>3, FS_Subset, Zenon

(* Sorted permutes the places into a rising order.                         *)
LEMMA SortedOrder ==
    ASSUME NEW v \in Seq(Int)
    PROVE  \E p : /\ IsOrder(p, v, Len(v))
                  /\ \A k \in 1 .. Len(v) : Sorted(v)[k] = v[p[k]]
<1>1. PICK n \in Nat : n = Len(v) /\ DOMAIN v = 1 .. n
  OBVIOUS
<1>2. v \in [1 .. n -> Int]
  BY <1>1, LenProperties, Zenon
<1> DEFINE order == CHOOSE p \in Bijection(DOMAIN v, DOMAIN v) :
                        \A i, j \in DOMAIN v : i < j => v[p[i]] <= v[p[j]]
<1>3. \E p : IsOrder(p, v, n)
  BY <1>2, OrderExists, Zenon
<1>4. IsOrder(order, v, n)
  BY <1>1, <1>3, Zenon DEF IsOrder
<1>5. Sorted(v) = [i \in DOMAIN v |-> v[order[i]]]
  BY Zenon DEF Sorted
<1> HIDE DEF order
<1>6. \A k \in 1 .. n : Sorted(v)[k] = v[order[k]]
  BY <1>1, <1>5, Zenon
<1> QED  BY <1>1, <1>4, <1>6, Zenon

(* The k-th of the sorted latencies has rank k: fewer than k are smaller,  *)
(* at least k are not larger.                                              *)
LEMMA SortedHasRank ==
    ASSUME NEW v \in Seq(Int), NEW k \in 1 .. Len(v)
    PROVE  Sorted(v)[k] \in Range(v) /\ HasRank(v, k, Sorted(v)[k])
<1>1. PICK n \in Nat : n = Len(v) /\ DOMAIN v = 1 .. n
  OBVIOUS
<1>2. v \in [1 .. n -> Int]
  BY <1>1, LenProperties, Zenon
<1>3. PICK p : IsOrder(p, v, n) /\ \A i \in 1 .. n : Sorted(v)[i] = v[p[i]]
  BY <1>1, SortedOrder, Zenon
<1>4. /\ p \in [1 .. n -> 1 .. n]
      /\ \A i, j \in 1 .. n : p[i] = p[j] => i = j
      /\ \A y \in 1 .. n : \E i \in 1 .. n : p[i] = y
      /\ \A i, j \in 1 .. n : i < j => v[p[i]] <= v[p[j]]
  BY <1>3, Zenon DEF IsOrder, Bijection, Injection, Surjection, IsInjective
<1>5. k \in 1 .. n /\ k \in Nat
  BY <1>1
<1>6. PICK x \in Int : x = v[p[k]]
  BY <1>2, <1>4, <1>5
<1>7. Sorted(v)[k] = x
  BY <1>3, <1>5, <1>6, Zenon
<1>8. x \in Range(v)
  BY <1>1, <1>4, <1>5, <1>6, Zenon DEF Range
<1>9. Cardinality(Below(v, x)) < k
  <2> DEFINE f == [j \in 1 .. k - 1 |-> p[j]]
             C == {p[j] : j \in 1 .. k - 1}
  <2>1. \A j \in 1 .. k - 1 : j \in 1 .. n
    BY <1>5
  <2>2. f \in Surjection(1 .. k - 1, C)
    BY Zenon DEF Surjection
  <2>3. IsFiniteSet(1 .. k - 1) /\ Cardinality(1 .. k - 1) = k - 1
    BY <1>5, FS_Interval
  <2>4. ASSUME NEW i \in Below(v, x) PROVE i \in C
    <3>1. i \in 1 .. n /\ v[i] < x
      BY <1>1 DEF Below
    <3>2. PICK j \in 1 .. n : p[j] = i
      BY <1>4, <3>1, Zenon
    <3>3. j < k
      <4>1. k < j => x <= v[i]
        BY <1>4, <1>5, <1>6, <3>2, Zenon
      <4>2. k = j => x = v[i]
        BY <1>6, <3>2, Zenon
      <4>3. v[i] \in Int
        BY <1>2, <3>1
      <4> QED  BY <1>5, <3>1, <4>1, <4>2, <4>3
    <3>4. j \in 1 .. k - 1
      BY <1>5, <3>3
    <3> QED  BY <3>2, <3>4, Zenon
  <2> HIDE DEF f, C
  <2>5. IsFiniteSet(C) /\ Cardinality(C) <= k - 1
    BY <2>2, <2>3, FS_Surjection
  <2>6. Cardinality(Below(v, x)) <= Cardinality(C)
    BY <2>4, <2>5, FS_Subset
  <2>7. Cardinality(C) \in Nat /\ Cardinality(Below(v, x)) \in Nat
    BY <2>5, PlacesAreFinite, FS_CardinalityType
  <2> QED  BY <1>5, <2>5, <2>6, <2>7
<1>10. Cardinality(AtMost(v, x)) >= k
  <2> DEFINE f == [j \in 1 .. k |-> p[j]]
  <2>1. \A j \in 1 .. k : j \in 1 .. n /\ (j < k \/ j = k)
    BY <1>5
  <2>2. \A j \in 1 .. k : p[j] \in AtMost(v, x)
    <3> TAKE j \in 1 .. k
    <3>1. j \in 1 .. n /\ (j < k \/ j = k)
      BY <2>1, Zenon
    <3>2. p[j] \in 1 .. n
      BY <1>4, <3>1, Zenon
    <3>3. v[p[j]] <= x
      <4>1. CASE j < k
        BY <1>4, <1>5, <1>6, <3>1, <4>1, Zenon
      <4>2. CASE j = k
        <5>1. x <= x
          OBVIOUS
        <5> QED  BY <1>6, <4>2, <5>1, Zenon
      <4> QED  BY <3>1, <4>1, <4>2, Zenon
    <3> QED  BY <1>1, <3>2, <3>3, Zenon DEF AtMost
  <2>3. f \in Injection(1 .. k, AtMost(v, x))
    BY <1>4, <2>1, <2>2, Zenon DEF Injection, IsInjective
  <2>4. Cardinality(1 .. k) = k
    BY <1>5, FS_Interval
  <2> HIDE DEF f
  <2>5. Cardinality(1 .. k) <= Cardinality(AtMost(v, x))
    BY <2>3, PlacesAreFinite, FS_Injection
  <2>6. Cardinality(AtMost(v, x)) \in Nat
    BY PlacesAreFinite, FS_CardinalityType
  <2> QED  BY <1>5, <2>4, <2>5, <2>6
<1> QED  BY <1>7, <1>8, <1>9, <1>10, Zenon DEF HasRank

(* No two numbers have the same rank.                                      *)
LEMMA RanksAreOrdered ==
    ASSUME NEW v \in Seq(Int), NEW k \in Nat, NEW x \in Int, NEW y \in Int,
           HasRank(v, k, x), HasRank(v, k, y)
    PROVE  ~(x < y)
<1> SUFFICES ASSUME x < y PROVE FALSE
  OBVIOUS
<1>1. PICK n \in Nat : n = Len(v) /\ DOMAIN v = 1 .. n
  OBVIOUS
<1>2. \A i \in 1 .. n : v[i] \in Int
  BY <1>1
<1>3. AtMost(v, x) \subseteq Below(v, y)
  BY <1>1, <1>2 DEF AtMost, Below
<1>4. Cardinality(AtMost(v, x)) <= Cardinality(Below(v, y))
  BY <1>3, PlacesAreFinite, FS_Subset
<1>5. Cardinality(AtMost(v, x)) \in Nat /\ Cardinality(Below(v, y)) \in Nat
  BY PlacesAreFinite, FS_CardinalityType
<1> QED  BY <1>4, <1>5 DEF HasRank

(* So it is the k-th smallest by counting.                                 *)
LEMMA SortedIsOrderStatistic ==
    ASSUME NEW v \in Seq(Int), NEW k \in 1 .. Len(v)
    PROVE  OrderStatistic(v, k) = Sorted(v)[k] /\ Sorted(v)[k] \in Int
<1>1. \A z \in Range(v) : z \in Int
  BY DEF Range
<1>2. k \in Nat
  OBVIOUS
<1>3. PICK x : x = Sorted(v)[k]
  OBVIOUS
<1>4. x \in Range(v) /\ HasRank(v, k, x)
  BY <1>3, SortedHasRank
<1>5. PICK y : y = OrderStatistic(v, k)
  OBVIOUS
<1>6. y = CHOOSE z \in Range(v) : HasRank(v, k, z)
  BY <1>5 DEF OrderStatistic, HasRank, Below, AtMost
<1>7. y \in Range(v) /\ HasRank(v, k, y)
  BY <1>4, <1>6, Zenon
<1>8. x \in Int /\ y \in Int
  BY <1>1, <1>4, <1>7, Zenon
<1>9. ~(x < y) /\ ~(y < x)
  BY <1>2, <1>4, <1>7, <1>8, RanksAreOrdered, Zenon
<1> QED  BY <1>3, <1>5, <1>8, <1>9

(* us[lo] * (1.0 - frac) + us[hi] * frac, as a line from us[lo].           *)
LEMMA MixIsLinear ==
    ASSUME NEW a \in Int, NEW b \in Int, NEW f \in Int
    PROVE  Mix(a, b, f) = 100 * a + f * (b - a)
BY DEF Mix

\* The line through the order statistics, from rank k on.
FromRank(v, p, k) ==
    100 * OrderStatistic(v, k)
      + (p * (Len(v) - 1) - 100 * (k - 1))
          * (IF k = Len(v) THEN 0 ELSE OrderStatistic(v, k + 1) - OrderStatistic(v, k))

(* The percentile runs along the line through the order statistics, at     *)
(* every hundredth and not only at those the run looks at.                 *)
LEMMA PercentileByRank ==
    ASSUME NEW v \in Seq(Int), v # <<>>, NEW p \in 0 .. 100
    PROVE  LET n == Len(v)
               k == CHOOSE j \in 1 .. n : 100 * (j - 1) <= p * (n - 1) /\ p * (n - 1) < 100 * j
               low == OrderStatistic(v, k)
               rise == IF k = n THEN 0 ELSE OrderStatistic(v, k + 1) - low
           IN  Percentile(v, p) = 100 * low + (p * (n - 1) - 100 * (k - 1)) * rise
<1>1. PICK n \in Nat \ {0} : n = Len(v)
  OBVIOUS
<1>2. PICK idx \in Nat : idx = p * (n - 1) /\ idx <= 100 * (n - 1)
  <2>1. PICK m \in Nat : m = n - 1
    OBVIOUS
  <2>2. p * m \in Nat /\ p * m <= 100 * m
    <3>1. p \in Nat /\ p <= 100
      OBVIOUS
    <3> QED  BY <3>1
  <2> QED  BY <2>1, <2>2
<1>3. PICK lo \in Nat, f \in 0 .. 99 :
          lo = idx \div 100 /\ f = idx % 100 /\ idx = 100 * lo + f
  OBVIOUS
<1>4. lo <= n - 1
  BY <1>2, <1>3
<1>5. PICK k \in 1 .. n : k = lo + 1
  BY <1>3, <1>4
<1>6. k = CHOOSE j \in 1 .. Len(v) :
              100 * (j - 1) <= p * (Len(v) - 1) /\ p * (Len(v) - 1) < 100 * j
  <2>1. \A j \in 1 .. n : (100 * (j - 1) <= idx /\ idx < 100 * j) <=> j = k
    <3> SUFFICES ASSUME NEW j \in 1 .. n
                 PROVE  (100 * (j - 1) <= idx /\ idx < 100 * j) <=> j = k
      OBVIOUS
    <3>1. j \in Int /\ f \in Int /\ 0 <= f /\ f < 100
      BY <1>1
    <3> QED  BY <1>3, <1>5, <3>1
  <2>2. idx = p * (Len(v) - 1)
    BY <1>1, <1>2
  <2> QED  BY <1>1, <2>1, <2>2, Zenon
<1>7. PICK a \in Int : a = Sorted(v)[k] /\ a = OrderStatistic(v, k)
  BY <1>1, SortedIsOrderStatistic, Zenon
<1> SUFFICES Percentile(v, p) = 100 * a + (idx - 100 * (k - 1))
                                  * (IF k = n THEN 0 ELSE OrderStatistic(v, k + 1) - a)
  <2>1. n = Len(v) /\ idx = p * (Len(v) - 1)
    BY <1>1, <1>2
  <2>2. Percentile(v, p) = FromRank(v, p, k)
    BY <2>1, <1>7, Zenon DEF FromRank
  <2>3. Percentile(v, p)
          = FromRank(v, p, CHOOSE j \in 1 .. Len(v) :
                               /\ 100 * (j - 1) <= p * (Len(v) - 1)
                               /\ p * (Len(v) - 1) < 100 * j)
    BY <2>2, <1>6, Zenon
  <2> QED  BY <2>3, Zenon DEF FromRank
<1>8. CASE k = n
  <2>1. (IF lo + 1 < n - 1 THEN lo + 1 ELSE n - 1) + 1 = k
    BY <1>5, <1>8
  <2>2. Percentile(v, p) = Mix(a, a, f)
    BY <1>1, <1>2, <1>3, <1>5, <1>7, <2>1, Zenon DEF Percentile
  <2>3. Mix(a, a, f) = 100 * a + (idx - 100 * (k - 1)) * 0
    <3>1. f \in Int /\ a - a = 0
      OBVIOUS
    <3>2. Mix(a, a, f) = 100 * a + f * 0
      BY <3>1, MixIsLinear
    <3>3. k \in Int
      OBVIOUS
    <3> QED  BY <3>1, <3>2, <3>3
  <2> QED  BY <1>8, <2>2, <2>3, Zenon
<1>9. CASE k # n
  <2>1. k + 1 \in 1 .. n /\ (IF lo + 1 < n - 1 THEN lo + 1 ELSE n - 1) + 1 = k + 1
    BY <1>5, <1>9
  <2>2. PICK b \in Int : b = Sorted(v)[k + 1] /\ b = OrderStatistic(v, k + 1)
    BY <1>1, <2>1, SortedIsOrderStatistic, Zenon
  <2>3. Percentile(v, p) = Mix(a, b, f)
    BY <1>1, <1>2, <1>3, <1>5, <1>7, <2>1, <2>2, Zenon DEF Percentile
  <2>4. idx - 100 * (k - 1) = f
    BY <1>3, <1>5
  <2>5. Mix(a, b, f) = 100 * a + f * (b - a)
    BY <1>3, MixIsLinear
  <2>6. Percentile(v, p) = 100 * a + (idx - 100 * (k - 1)) * (b - a)
    BY <2>3, <2>4, <2>5, Zenon
  <2> QED  BY <1>9, <2>2, <2>6, Zenon
<1> QED  BY <1>8, <1>9

(* The percentile the benches print is the one by counting.                *)
THEOREM PercentileIsByCounting == StatsSpec => []PercentileAgrees
<1>1. StatsInv => PercentileAgrees
  <2> SUFFICES ASSUME StatsInv, lat # <<>> PROVE PercentileAgrees
    BY DEF PercentileAgrees
  <2>1. lat \in Seq(Int)
    BY LatenciesAreNumbers DEF StatsInv
  <2>2. \A p \in Hundredths : p \in 0 .. 100
    BY DEF Hundredths
  <2> QED  BY <2>1, <2>2, PercentileByRank, Zenon DEF PercentileAgrees
<1> QED  BY <1>1, SplitInit, SplitStep, PTL DEF StatsSpec
=============================================================================
