--------------------------- MODULE Fragment_proofs --------------------------
(***************************************************************************)
(* Facts about the geometry of a plan, for every frame size and datagram   *)
(* limit, and about what one step of the FrameTracker returns.             *)
(***************************************************************************)
EXTENDS Fragment, TLAPS

(* In range, size_t arithmetic is exact.                                   *)
LEMMA SizeTExact ==
    ASSUME SizeT \in Nat, NEW a \in Nat \ {0}, NEW b \in Nat \ {0},
           a < SizeT, b < SizeT, a + b - 1 < SizeT
    PROVE  Minus(Plus(a, b), 1) = a + b - 1
BY DEF Minus, Plus

(* A ceiling division is the least multiple that covers.                   *)
LEMMA CeilDivBounds ==
    ASSUME SizeT \in Nat, NEW a \in Nat \ {0}, NEW b \in Nat \ {0},
           a < SizeT, b < SizeT, a + b - 1 < SizeT
    PROVE  /\ CeilDiv(a, b) \in Nat \ {0}
           /\ (CeilDiv(a, b) - 1) * b < a
           /\ a <= CeilDiv(a, b) * b
<1>1. CeilDiv(a, b) = (a + b - 1) \div b
  BY SizeTExact DEF CeilDiv
<1> DEFINE q == (a + b - 1) \div b
<1>2. q \in Nat \ {0} /\ (q - 1) * b < a /\ a <= q * b
  BY SMTT(60)
<1> HIDE DEF q
<1> QED  BY <1>1, <1>2 DEF q

LEMMA CeilDivLeast ==
    ASSUME SizeT \in Nat, NEW a \in Nat \ {0}, NEW b \in Nat \ {0},
           a < SizeT, b < SizeT, a + b - 1 < SizeT,
           NEW k \in Nat, a <= k * b
    PROVE  CeilDiv(a, b) <= k
<1>1. /\ CeilDiv(a, b) \in Nat
      /\ (CeilDiv(a, b) - 1) * b < a
  BY CeilDivBounds
<1>2. SUFFICES ASSUME CeilDiv(a, b) >= k + 1
               PROVE  FALSE
  BY <1>1
<1> DEFINE q == CeilDiv(a, b) - 1
<1>3. q \in Nat /\ q >= k /\ q * b < a
  BY <1>1, <1>2
<1>4. k * b <= q * b
  <2> HIDE DEF q
  <2> QED  BY <1>3
<1> QED
  <2>1. k * b \in Int /\ q * b \in Int  BY <1>3
  <2> QED  BY <1>3, <1>4, <2>1

(* PlanChunks: every chunk fits the budget, the offset of the last chunk   *)
(* lies inside the block (so `block.size() - off` never wraps) and the     *)
(* chunks together cover the block.                                        *)
LEMMA PlanGeometry ==
    ASSUME NEW size \in Nat \ {0}, NEW maxDatagram \in Nat, PlanDefined(size, maxDatagram),
           SizeT \in Nat, 2 * size <= SizeT, maxDatagram < SizeT,
           NEW plan, plan = PlanChunks(size, maxDatagram)
    PROVE  /\ plan.count \in Nat \ {0}
           /\ plan.len \in Nat \ {0}
           /\ plan.len <= maxDatagram - kE2eHeaderBytes
           /\ (plan.count - 1) * plan.len < size
           /\ size <= plan.count * plan.len
           /\ (plan.count - 1) * (maxDatagram - kE2eHeaderBytes) < size
<1> DEFINE budget == maxDatagram - kE2eHeaderBytes
           n      == CeilDiv(size, budget)
           len    == CeilDiv(size, n)
<1>1. budget \in Nat \ {0} /\ budget < SizeT /\ size < SizeT /\ size + budget - 1 < SizeT
  BY DEF PlanDefined, kE2eHeaderBytes
<1>2. Budget(maxDatagram) = budget
  BY DEF PlanDefined, Budget, Minus, kE2eHeaderBytes
<1>3. plan.count = n /\ plan.len = len
  BY <1>2 DEF PlanChunks
<1> HIDE DEF budget
<1>4. n \in Nat \ {0} /\ (n - 1) * budget < size /\ size <= n * budget
  BY <1>1, CeilDivBounds
<1> HIDE DEF n
<1>5. n < SizeT /\ size + n - 1 < SizeT
  <2>1. n - 1 <= (n - 1) * budget
    BY <1>1, <1>4
  <2>2. n <= size
    BY <1>1, <1>4, <2>1
  <2> QED  BY <1>1, <1>4, <2>2
<1>6. len \in Nat \ {0} /\ size <= len * n
  BY <1>1, <1>4, <1>5, CeilDivBounds
<1>7. len <= budget
  <2>1. size <= budget * n  BY <1>1, <1>4
  <2> QED  BY <1>1, <1>4, <1>5, <2>1, CeilDivLeast
<1>8. (n - 1) * len < size
  <2> HIDE DEF len
  <2>1. (n - 1) * len <= (n - 1) * budget
    BY <1>1, <1>4, <1>6, <1>7
  <2> QED  BY <1>1, <1>4, <1>6, <2>1
<1> HIDE DEF len
<1>9. size <= n * len
  BY <1>4, <1>6
<1> QED  BY <1>3, <1>4, <1>6, <1>7, <1>8, <1>9 DEF budget

(* When the arithmetic of PlanChunks is not exact it ends in a division by *)
(* zero: the budget is zero, or rounding the size up wraps to less than a  *)
(* budget.                                                                 *)
LEMMA UndefinedDivides ==
    ASSUME NEW size \in Nat, size >= kMinFrameBytes, NEW maxDatagram \in Nat,
           SizeT \in Nat, 2 * size <= SizeT, maxDatagram < SizeT
    PROVE  DividesByZero(size, maxDatagram) <=> ~PlanDefined(size, maxDatagram)
<1>1. size >= 16 /\ size < SizeT /\ SizeT > 12
  BY DEF kMinFrameBytes, kChunkHeaderBytes
<1>2. CASE PlanDefined(size, maxDatagram)
  <2>1. /\ Budget(maxDatagram) = maxDatagram - kE2eHeaderBytes
        /\ Budget(maxDatagram) \in Nat \ {0} /\ Budget(maxDatagram) < SizeT
        /\ size + Budget(maxDatagram) - 1 < SizeT
    BY <1>2 DEF PlanDefined, Budget, Minus, kE2eHeaderBytes
  <2>2. CeilDiv(size, Budget(maxDatagram)) # 0
    BY <1>1, <2>1, CeilDivBounds
  <2> QED  BY <1>2, <2>1, <2>2 DEF DividesByZero
<1>3. CASE ~PlanDefined(size, maxDatagram) /\ Budget(maxDatagram) # 0
  <2>1. PICK b \in Nat \ {0} : b = Budget(maxDatagram) /\ b < SizeT
    BY <1>1, <1>3 DEF Budget, Minus, kE2eHeaderBytes
  <2>2. size + b - 1 >= SizeT
    <3>1. CASE maxDatagram > 12
      BY <1>3, <2>1, <3>1 DEF PlanDefined, Budget, Minus, kE2eHeaderBytes
    <3>2. CASE maxDatagram <= 12
      <4>1. b = maxDatagram - 12 + SizeT
        BY <1>3, <2>1, <3>2 DEF Budget, Minus, kE2eHeaderBytes
      <4> QED  BY <1>1, <4>1
    <3> QED  BY <3>1, <3>2
  <2>3. /\ Minus(Plus(size, b), 1) = size + b - SizeT - 1
        /\ size + b - SizeT - 1 \in 0 .. (b - 1)
    BY <1>1, <2>1, <2>2 DEF Minus, Plus
  <2>4. \A x \in 0 .. (b - 1) : x \div b = 0
    BY <2>1, SMTT(60)
  <2> QED  BY <1>3, <2>1, <2>3, <2>4 DEF DividesByZero, CeilDiv
<1>4. CASE ~PlanDefined(size, maxDatagram) /\ Budget(maxDatagram) = 0
  BY <1>4 DEF DividesByZero
<1> QED  BY <1>2, <1>3, <1>4

(* Every offset the publish loop computes lies inside the block, and when  *)
(* the headers fit, every slice holds at least its header.                 *)
LEMMA SliceBounds ==
    ASSUME NEW size \in Nat \ {0}, NEW plan, NEW i \in Nat, i < plan.count,
           plan.count \in Nat \ {0}, plan.len \in Nat \ {0},
           (plan.count - 1) * plan.len < size
    PROVE  /\ SliceOff(plan, i) \in Nat
           /\ SliceOff(plan, i) < size
           /\ SliceLen(plan, size, i) \in Nat \ {0}
           /\ SliceLen(plan, size, i) <= plan.len
           /\ i + 1 < plan.count => /\ SliceLen(plan, size, i) = plan.len
                                    /\ SliceOff(plan, i + 1) = SliceOff(plan, i) + plan.len
<1> DEFINE n == plan.count
           l == plan.len
<1>1. n \in Nat /\ l \in Nat \ {0} /\ i <= n - 1 /\ (n - 1) * l < size
  OBVIOUS
<1>2. SliceOff(plan, i) = i * l /\ SliceOff(plan, i + 1) = (i + 1) * l
  BY DEF SliceOff
<1>3. SliceLen(plan, size, i) = IF l <= size - i * l THEN l ELSE size - i * l
  BY <1>2 DEF SliceLen
<1>4. i * l \in Nat /\ (i + 1) * l = i * l + l
  BY <1>1
<1>5. i * l <= (n - 1) * l
  BY <1>1
<1>6. i + 1 < n => (i + 1) * l <= (n - 1) * l
  BY <1>1
<1> HIDE DEF n, l
<1>7. i * l < size
  BY <1>1, <1>4, <1>5
<1>8. i + 1 < n => i * l + l < size
  BY <1>1, <1>4, <1>6
<1>9. i + 1 < n => l <= size - i * l
  BY <1>1, <1>4, <1>8
<1> QED  BY <1>1, <1>2, <1>3, <1>4, <1>7, <1>9 DEF n, l

LEMMA SliceHoldsHeader ==
    ASSUME NEW size \in Nat \ {0}, NEW plan, NEW i \in Nat, i < plan.count,
           plan.count \in Nat \ {0}, plan.len \in Nat \ {0},
           (plan.count - 1) * plan.len < size, HeadersFit(plan, size)
    PROVE  SliceLen(plan, size, i) >= kChunkHeaderBytes
<1>1. CASE i + 1 < plan.count
  BY <1>1, SliceBounds DEF HeadersFit, kMinFrameBytes, kChunkHeaderBytes
<1>2. CASE i = plan.count - 1
  BY <1>2 DEF HeadersFit
<1> QED  BY <1>1, <1>2

-----------------------------------------------------------------------------
(* FrameTracker.                                                           *)

Trackers == [active : BOOLEAN, seq : Nat, next : 0 .. (kU16 - 1), sendNs : Nat]

\* The tracker accepts chunk ch of a frame with stamp ns: it opens the frame, or
\* it is the one the tracker waits for.
Accepts(t, ch, ns) ==
    \/ ch.index = 0 /\ ns = ch.sendNs
    \/ t.active /\ t.seq = ch.seq /\ t.next = ch.index /\ ns = t.sendNs

LEMMA U16Facts ==
    /\ kU16 \in Nat /\ kU16 > 0
    /\ \A x \in Nat : x < kU16 => x % kU16 = x
BY DEF kU16

LEMMA DropResult ==
    ASSUME NEW t \in Trackers
    PROVE  /\ Drop(t).tracker \in Trackers
           /\ ~Drop(t).tracker.active
           /\ Drop(t).frame = NoFrame
<1>1. t \in [active : BOOLEAN, seq : Nat, next : 0 .. (kU16 - 1), sendNs : Nat]
  BY DEF Trackers
<1>2. /\ [t EXCEPT !.active = FALSE] \in [active : BOOLEAN, seq : Nat, next : 0 .. (kU16 - 1), sendNs : Nat]
      /\ [t EXCEPT !.active = FALSE].active = FALSE
  BY <1>1
<1> QED  BY <1>2 DEF Drop, Trackers

LEMMA TakeResult ==
    ASSUME NEW t \in Trackers, NEW ch, NEW i \in Nat, NEW n \in Nat,
           t.next = i, i < n, ch.count = n, n < kU16
    PROVE  /\ Take(t, ch).tracker \in Trackers
           /\ i + 1 < n =>
                 /\ Take(t, ch).frame = NoFrame
                 /\ Take(t, ch).tracker.next = i + 1
                 /\ Take(t, ch).tracker.seq = t.seq
                 /\ Take(t, ch).tracker.sendNs = t.sendNs
                 /\ Take(t, ch).tracker.active = t.active
           /\ i + 1 = n =>
                 /\ Take(t, ch).frame \in [seq : Nat, sendNs : Nat]
                 /\ Take(t, ch).frame.seq = t.seq
                 /\ Take(t, ch).frame.sendNs = t.sendNs
                 /\ ~Take(t, ch).tracker.active
<1> DEFINE m == [t EXCEPT !.next = i + 1]
<1>1. i + 1 \in 0 .. (kU16 - 1) /\ (i + 1) % kU16 = i + 1
  BY U16Facts
<1>2. (t.next + 1) % kU16 = i + 1
  BY <1>1
<1>3. t \in [active : BOOLEAN, seq : Nat, next : 0 .. (kU16 - 1), sendNs : Nat]
  BY DEF Trackers
<1>4. /\ m \in [active : BOOLEAN, seq : Nat, next : 0 .. (kU16 - 1), sendNs : Nat]
      /\ m.next = i + 1 /\ m.seq = t.seq /\ m.sendNs = t.sendNs /\ m.active = t.active
  BY <1>1, <1>3
<1>5. [t EXCEPT !.next = (t.next + 1) % kU16] = m
  BY <1>2
<1> HIDE DEF m
<1>6. Take(t, ch) = IF i + 1 < n
                      THEN [tracker |-> m, frame |-> NoFrame]
                      ELSE [tracker |-> [m EXCEPT !.active = FALSE],
                            frame   |-> [seq |-> t.seq, sendNs |-> t.sendNs]]
  BY <1>4, <1>5 DEF Take
<1>7. /\ [m EXCEPT !.active = FALSE] \in [active : BOOLEAN, seq : Nat, next : 0 .. (kU16 - 1), sendNs : Nat]
      /\ [m EXCEPT !.active = FALSE].active = FALSE
  BY <1>4
<1>8. [seq |-> t.seq, sendNs |-> t.sendNs] \in [seq : Nat, sendNs : Nat]
  BY <1>3
<1>9. CASE i + 1 < n
  BY <1>4, <1>6, <1>9 DEF Trackers
<1>10. CASE i + 1 = n
  <2>1. Take(t, ch) = [tracker |-> [m EXCEPT !.active = FALSE],
                       frame   |-> [seq |-> t.seq, sendNs |-> t.sendNs]]
    BY <1>6, <1>10
  <2>2. /\ Take(t, ch).tracker = [m EXCEPT !.active = FALSE]
        /\ Take(t, ch).frame = [seq |-> t.seq, sendNs |-> t.sendNs]
    BY <2>1
  <2>3. /\ [seq |-> t.seq, sendNs |-> t.sendNs].seq = t.seq
        /\ [seq |-> t.seq, sendNs |-> t.sendNs].sendNs = t.sendNs
    OBVIOUS
  <2>4. Take(t, ch).tracker \in Trackers /\ ~Take(t, ch).tracker.active
    BY <1>7, <2>2 DEF Trackers
  <2>5. ~(i + 1 < n)
    BY <1>10
  <2> QED  BY <1>8, <2>2, <2>3, <2>4, <2>5
<1> QED  BY <1>9, <1>10

(* One chunk does one of three things to a tracker: it is not part of a    *)
(* frame being assembled, it extends that frame, or it completes it.       *)
LEMMA IngestCases ==
    ASSUME NEW t \in Trackers, NEW n \in Nat, n < kU16,
           NEW i \in Nat, i < n, NEW s \in Nat, NEW ns \in Nat, NEW b \in Nat,
           b >= kChunkHeaderBytes,
           NEW ch, ch = [seq |-> s, index |-> i, count |-> n, sendNs |-> ns, bytes |-> b],
           NEW r, r = Ingest(t, ch)
    PROVE  /\ r.tracker \in Trackers
           /\ \/ r.frame = NoFrame /\ ~r.tracker.active
              \/ /\ r.frame = NoFrame
                 /\ i + 1 < n
                 /\ r.tracker.seq = s /\ r.tracker.next = i + 1
                 /\ Accepts(t, ch, r.tracker.sendNs)
              \/ /\ r.frame \in [seq : Nat, sendNs : Nat]
                 /\ ~r.tracker.active
                 /\ i + 1 = n
                 /\ r.frame.seq = s
                 /\ Accepts(t, ch, r.frame.sendNs)
<1>1. ch.seq = s /\ ch.index = i /\ ch.count = n /\ ch.sendNs = ns /\ ch.bytes = b
  OBVIOUS
<1>2. PICK o \in Trackers : /\ o = Opened(t, ch)
                            /\ i = 0 => o.sendNs = ns
                            /\ i # 0 => o = t
  <2>1. CASE i = 0
    <3>1. Opened(t, ch) = [active |-> TRUE, seq |-> s, next |-> 0, sendNs |-> ns]
      BY <1>1, <2>1 DEF Opened
    <3>2. [active |-> TRUE, seq |-> s, next |-> 0, sendNs |-> ns] \in Trackers
      BY U16Facts DEF Trackers
    <3> QED  BY <2>1, <3>1, <3>2
  <2>2. CASE i # 0
    <3>1. Opened(t, ch) = t
      BY <1>1, <2>2 DEF Opened
    <3> QED  BY <2>2, <3>1
  <2> QED  BY <2>1, <2>2
<1>3. r = IF i = 0 /\ b < kMinFrameBytes
            THEN Drop(t)
            ELSE IF Follows(o, ch) THEN Take(o, ch) ELSE Drop(o)
  <2>1. ~(b < kChunkHeaderBytes)
    BY DEF kChunkHeaderBytes
  <2> QED  BY <1>1, <1>2, <2>1 DEF Ingest
<1>4. CASE r = Drop(t) \/ r = Drop(o)
  BY <1>4, DropResult
<1>5. CASE Follows(o, ch) /\ r = Take(o, ch)
  <2>1. o.active /\ o.seq = s /\ o.next = i
    BY <1>1, <1>5 DEF Follows
  <2>2. Accepts(t, ch, o.sendNs)
    BY <1>1, <1>2, <2>1 DEF Accepts
  <2>3. /\ r.tracker \in Trackers
        /\ i + 1 < n =>
              /\ r.frame = NoFrame
              /\ r.tracker.next = i + 1
              /\ r.tracker.seq = o.seq
              /\ r.tracker.sendNs = o.sendNs
        /\ i + 1 = n =>
              /\ r.frame \in [seq : Nat, sendNs : Nat]
              /\ r.frame.seq = o.seq
              /\ r.frame.sendNs = o.sendNs
              /\ ~r.tracker.active
    BY <1>1, <1>5, <2>1, TakeResult
  <2>4. CASE i + 1 < n
    BY <2>1, <2>2, <2>3, <2>4
  <2>5. CASE i + 1 = n
    BY <2>1, <2>2, <2>3, <2>5
  <2> QED  BY <2>4, <2>5
<1> QED  BY <1>3, <1>4, <1>5

(* The chunk a tracker waits for, and a long enough chunk 0 at any time,   *)
(* is taken.                                                               *)
LEMMA IngestTakes ==
    ASSUME NEW t \in Trackers, NEW n \in Nat, n < kU16,
           NEW i \in Nat, i < n, NEW s \in Nat, NEW ns \in Nat, NEW b \in Nat,
           b >= kChunkHeaderBytes, i = 0 => b >= kMinFrameBytes,
           NEW ch, ch = [seq |-> s, index |-> i, count |-> n, sendNs |-> ns, bytes |-> b],
           i = 0 \/ (t.active /\ t.seq = s /\ t.next = i),
           NEW r, r = Ingest(t, ch)
    PROVE  /\ i + 1 < n => /\ r.frame = NoFrame
                           /\ r.tracker.active /\ r.tracker.seq = s /\ r.tracker.next = i + 1
           /\ i + 1 = n => r.frame # NoFrame
<1>1. ch.seq = s /\ ch.index = i /\ ch.count = n /\ ch.sendNs = ns /\ ch.bytes = b
  OBVIOUS
<1>2. PICK o \in Trackers : o = Opened(t, ch) /\ o.active /\ o.seq = s /\ o.next = i
  <2>1. CASE i = 0
    <3>1. Opened(t, ch) = [active |-> TRUE, seq |-> s, next |-> 0, sendNs |-> ns]
      BY <1>1, <2>1 DEF Opened
    <3>2. [active |-> TRUE, seq |-> s, next |-> 0, sendNs |-> ns] \in Trackers
      BY U16Facts DEF Trackers
    <3> QED  BY <2>1, <3>1, <3>2
  <2>2. CASE i # 0
    <3>1. Opened(t, ch) = t
      BY <1>1, <2>2 DEF Opened
    <3> QED  BY <2>2, <3>1
  <2> QED  BY <2>1, <2>2
<1>3. Follows(o, ch)
  BY <1>1, <1>2 DEF Follows
<1>4. ~(b < kChunkHeaderBytes) /\ ~(i = 0 /\ b < kMinFrameBytes)
  BY DEF kChunkHeaderBytes, kMinFrameBytes
<1>5. r = Take(o, ch)
  BY <1>1, <1>2, <1>3, <1>4 DEF Ingest
<1>6. CASE i + 1 < n
  BY <1>1, <1>2, <1>5, <1>6, TakeResult
<1>7. CASE i + 1 = n
  <2>1. r.frame.seq = s
    BY <1>1, <1>2, <1>5, <1>7, TakeResult
  <2>2. NoFrame.seq # s
    BY DEF NoFrame
  <2> QED  BY <1>7, <2>1, <2>2
<1> QED  BY <1>6, <1>7
=============================================================================
