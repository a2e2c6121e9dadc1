------------------------------ MODULE Fragment ------------------------------
(***************************************************************************)
(* Pure part of src/vsomeip/bench/fragment.h: how a frame of `size` bytes  *)
(* is cut into chunks, what each chunk carries on the wire, and how the    *)
(* receiving FrameTracker puts a frame back together.                      *)
(*                                                                         *)
(* Byte counts are the code's.  A clock reading (send_ns) is a natural     *)
(* number; 0 stands for payload bytes that no one stamped.                 *)
(***************************************************************************)
EXTENDS Integers

CONSTANT SizeT     \* 2^64 in the code: size_t is computed modulo SizeT

kChunkHeaderBytes == 8                       \* sizeof(ChunkHeader): u32, u16, u16
kMinFrameBytes    == kChunkHeaderBytes + 8   \* header and send_ns
kE2eHeaderBytes   == 12
kU16              == 65536                   \* ChunkHeader.index, .count, next_

Plus(a, b)  == IF a + b < SizeT THEN a + b ELSE a + b - SizeT
Minus(a, b) == IF a >= b THEN a - b ELSE a - b + SizeT

CeilDiv(a, b) == Minus(Plus(a, b), 1) \div b

\* The budget forgets the E2E header.
BudgetNoE2e(maxDatagram) == maxDatagram

\* The budget never falls below one byte.
BudgetAtLeastOne(maxDatagram) ==
    IF maxDatagram > kE2eHeaderBytes THEN maxDatagram - kE2eHeaderBytes ELSE 1

Budget(maxDatagram) == Minus(maxDatagram, kE2eHeaderBytes)

\* One of the two divisions of PlanChunks is by zero.
DividesByZero(size, maxDatagram) ==
    Budget(maxDatagram) # 0 => CeilDiv(size, Budget(maxDatagram)) = 0

\* The arithmetic of PlanChunks is exact.
PlanDefined(size, maxDatagram) ==
    /\ maxDatagram > kE2eHeaderBytes
    /\ size + (maxDatagram - kE2eHeaderBytes) - 1 < SizeT

-----------------------------------------------------------------------------
(* Faulty variants.  Put in the place of the definition they vary, they    *)
(* and the two budgets above show which property notices the fault; no     *)
(* specification uses them.                                                *)

\* The even split rounds down, so the tail of the frame is cut off.
PlanChunksFloorLen(size, maxDatagram) ==
    LET count == CeilDiv(size, Budget(maxDatagram))
    IN  [count |-> count, len |-> size \div count]

-----------------------------------------------------------------------------
(* The plan.                                                               *)

PlanChunks(size, maxDatagram) ==
    LET count == CeilDiv(size, Budget(maxDatagram))
    IN  [count |-> count, len |-> CeilDiv(size, count)]

\* The Worker's choice of plan: TCP sends the frame whole.
WorkerPlan(transport, size, maxDatagram) ==
    IF transport = "tcp" THEN [count |-> 1, len |-> size]
                         ELSE PlanChunks(size, maxDatagram)

\* Chunk c is the slice [SliceOff, SliceOff + SliceLen) of the block.
SliceOff(plan, c) == c * plan.len

SliceLen(plan, size, c) ==
    LET left == size - SliceOff(plan, c)
    IN  IF plan.len <= left THEN plan.len ELSE left

\* Neither a neighbour's header nor the send stamp lands on a header.
HeadersFit(plan, size) ==
    /\ plan.count > 1 => plan.len >= kMinFrameBytes
    /\ SliceLen(plan, size, plan.count - 1) >= kChunkHeaderBytes

\* What chunk c of frame seq says on the wire; index and count are u16.
WireChunk(plan, size, seq, sendNs, c) ==
    [seq    |-> seq,
     index  |-> c % kU16,
     count  |-> plan.count % kU16,
     sendNs |-> IF c = 0 THEN sendNs ELSE 0,
     bytes  |-> SliceLen(plan, size, c)]

-----------------------------------------------------------------------------
(* FrameTracker.                                                           *)

NoFrame == [seq |-> -1, sendNs |-> 0]

TrackerInit == [active |-> FALSE, seq |-> 0, next |-> 0, sendNs |-> 0]

\* Chunk 0 opens a frame, whatever was being assembled before.
Opened(t, ch) ==
    IF ch.index = 0
      THEN [active |-> TRUE, seq |-> ch.seq, next |-> 0, sendNs |-> ch.sendNs]
      ELSE t

Drop(t) == [tracker |-> [t EXCEPT !.active = FALSE], frame |-> NoFrame]

Follows(t, ch) == t.active /\ ch.seq = t.seq /\ ch.index = t.next

\* The tracker goes on waiting for the last chunk of a complete frame.
TakeKeepsOpen(t, ch) ==
    IF t.next + 1 < ch.count
      THEN [tracker |-> [t EXCEPT !.next = t.next + 1], frame |-> NoFrame]
      ELSE [tracker |-> t, frame |-> [seq |-> t.seq, sendNs |-> t.sendNs]]

\* Takes an accepted chunk: the frame is complete when it was the last one.
Take(t, ch) ==
    LET moved == [t EXCEPT !.next = (t.next + 1) % kU16]
    IN  IF moved.next < ch.count
          THEN [tracker |-> moved, frame |-> NoFrame]
          ELSE [tracker |-> [moved EXCEPT !.active = FALSE],
                frame   |-> [seq |-> t.seq, sendNs |-> t.sendNs]]

\* The sequence number of a continuing chunk is not compared.
IngestAnySeq(t, ch) ==
    IF Opened(t, ch).active /\ ch.index = Opened(t, ch).next
      THEN Take(Opened(t, ch), ch)
      ELSE Drop(Opened(t, ch))

\* Only the first frame after a completed one opens the tracker.
IngestNoReopen(t, ch) ==
    LET o == IF t.active THEN t ELSE Opened(t, ch)
    IN  IF Follows(o, ch) THEN Take(o, ch) ELSE Drop(o)

\* The stamp of the first frame is kept for the next ones.
IngestStaleStamp(t, ch) ==
    LET o == [Opened(t, ch) EXCEPT !.sendNs =
                 IF t.sendNs = 0 THEN Opened(t, ch).sendNs ELSE t.sendNs]
    IN  IF Follows(o, ch) THEN Take(o, ch) ELSE Drop(o)

Ingest(t, ch) ==
    IF ch.bytes < kChunkHeaderBytes
      THEN [tracker |-> t, frame |-> NoFrame]
      ELSE IF ch.index = 0 /\ ch.bytes < kMinFrameBytes
             THEN Drop(t)
             ELSE IF Follows(Opened(t, ch), ch)
                    THEN Take(Opened(t, ch), ch)
                    ELSE Drop(Opened(t, ch))
=============================================================================
