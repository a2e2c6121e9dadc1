------------------------- MODULE EventStream_proofs -------------------------
(***************************************************************************)
(* For every frame size, datagram limit, number of frames and behaviour of *)
(* the network: a frame the tracker reports is whole and carries its own   *)
(* stamp, on an ordered network the stream delivers as FrameDelivery says, *)
(* and a frame counted twice is paid for by copies.  The plan must fit the *)
(* u16 fields of the chunk header (CountFits); without that FrameIntact is *)
(* false.                                                                  *)
(***************************************************************************)
EXTENDS EventStream, Fragment_proofs, SequenceTheorems, FiniteSetTheorems

CountFits == Plan.count < kU16

\* What any chunk under way says: the publisher wrote it.
GenuineChunks ==
    {ch \in [seq : Nat, index : Nat, count : {Plan.count}, sendNs : Nat, bytes : Nat] :
        /\ ch.index < Plan.count
        /\ ch.bytes >= kChunkHeaderBytes
        /\ ch.index = 0 => ch.sendNs = ch.seq + 1 /\ ch.bytes >= kMinFrameBytes}

\* The last n chunks of arr are chunks 0 .. n - 1 of frame s.
EndsWith(arr, s, n) ==
    /\ n <= Len(arr)
    /\ \A i \in 0 .. (n - 1) : IsChunk(arr[Len(arr) - n + i + 1], s, i)

PubInv ==
    /\ pc \in {"frame", "notify", "stopped"}
    /\ seq \in 0 .. Total
    /\ c \in 0 .. Plan.count
    /\ stamp \in Nat
    /\ pc = "notify" => seq < Total /\ c < Plan.count /\ stamp = seq + 1

NetInv == chan \in Seq(GenuineChunks) /\ arrived \in Seq(GenuineChunks)

\* While a frame is being assembled, its chunks so far are the last arrivals.
TrackerInv ==
    /\ tracker \in Trackers
    /\ tracker.active => /\ tracker.next \in 1 .. (Plan.count - 1)
                         /\ EndsWith(arrived, tracker.seq, tracker.next)
                         /\ tracker.sendNs = tracker.seq + 1

ReportInv ==
    /\ reported \in Seq(Reports)
    /\ \A k \in 1 .. Len(reported) : reported[k].at <= Len(arrived)

\* Types of the statistics, of the reporting thread and of the network's bound.
StatInv ==
    /\ net \in Networks /\ dups \in 0 .. MaxDuplicates
    /\ lastSeq \in Nat /\ gapCount \in Nat
    /\ latencies \in Seq(Nat)
    /\ done \in BOOLEAN
    /\ waiter \in {"waiting", "printing", "sized", "exited"}
    /\ row \in [n : Nat, samples : Nat, gaps : Nat, cause : {"none", "done", "timeout"}]

IInv == PubInv /\ NetInv /\ TrackerInv /\ ReportInv /\ StatInv /\ FrameIntact /\ OwnStamp

-----------------------------------------------------------------------------
(* The n places up to place a lie within the first l.                      *)
LEMMA LastPlaces ==
    ASSUME NEW a \in Nat, NEW n \in Nat, NEW l \in Nat, n <= a, a <= l,
           NEW i \in 0 .. (n - 1)
    PROVE  a - n + i + 1 \in 1 .. l
OBVIOUS

LEMMA PlanFacts ==
    /\ Plan.count \in Nat \ {0}
    /\ Plan.len \in Nat \ {0}
    /\ (Plan.count - 1) * Plan.len < Size
    /\ Size \in Nat \ {0}
    /\ HeadersFit(Plan, Size)
    /\ Total \in Nat
<1>1. /\ Size \in Nat \ {0} /\ MaxDatagram \in Nat
      /\ SizeT \in Nat /\ 2 * Size <= SizeT /\ MaxDatagram < SizeT
      /\ HeadersFit(Plan, Size) /\ Total \in Nat /\ Transport \in {"udp", "tcp"}
  BY StreamAssumption DEF kMinFrameBytes, kChunkHeaderBytes, Total
<1>2. CASE Transport = "tcp"
  <2>1. Plan.count = 1 /\ Plan.len = Size
    BY <1>2 DEF Plan, WorkerPlan
  <2> QED  BY <1>1, <2>1
<1>3. CASE Transport = "udp"
  <2>1. Plan = PlanChunks(Size, MaxDatagram) /\ PlanDefined(Size, MaxDatagram)
    BY <1>3, StreamAssumption DEF Plan, WorkerPlan
  <2> QED  BY <1>1, <2>1, PlanGeometry
<1> QED  BY <1>1, <1>2, <1>3

(* A frame of one chunk is sent whole.                                     *)
LEMMA OneChunk == Plan.count = 1 => Plan.len = Size
<1>1. CASE Transport = "tcp"
  BY <1>1 DEF Plan, WorkerPlan
<1>2. CASE Transport = "udp"
  <2> SUFFICES ASSUME Plan.count = 1 PROVE Plan.len = Size
    OBVIOUS
  <2>1. Plan = PlanChunks(Size, MaxDatagram)
    BY <1>2 DEF Plan, WorkerPlan
  <2>2. Plan.len = CeilDiv(Size, 1)
    BY <2>1 DEF PlanChunks
  <2>3. Minus(Plus(Size, 1), 1) = Size /\ Size \in Nat
    BY StreamAssumption, PlanFacts DEF Minus, Plus
  <2> QED  BY <2>2, <2>3 DEF CeilDiv
<1> QED  BY <1>1, <1>2, StreamAssumption

LEMMA NotifiedIsGenuine ==
    ASSUME CountFits, NEW s \in Nat, NEW i \in Nat, i < Plan.count
    PROVE  Chunk(s, s + 1, i) \in GenuineChunks
<1> DEFINE n == Plan.count
           b == SliceLen(Plan, Size, i)
<1>1. n \in Nat /\ i % kU16 = i /\ n % kU16 = n
  BY PlanFacts, U16Facts DEF CountFits
<1>2. b \in Nat /\ b >= kChunkHeaderBytes
  BY PlanFacts, SliceBounds, SliceHoldsHeader
<1>3. Chunk(s, s + 1, i) = [seq |-> s, index |-> i, count |-> n,
                            sendNs |-> IF i = 0 THEN s + 1 ELSE 0, bytes |-> b]
  BY <1>1 DEF Chunk, WireChunk
<1>4. i = 0 => b >= kMinFrameBytes
  <2> SUFFICES ASSUME i = 0 PROVE SliceLen(Plan, Size, 0) >= kMinFrameBytes
    OBVIOUS
  <2>1. CASE n > 1
    <3>1. SliceLen(Plan, Size, 0) = Plan.len
      BY <1>1, <2>1, PlanFacts, SliceBounds
    <3> QED  BY <2>1, <3>1, PlanFacts DEF HeadersFit
  <2>2. CASE n = 1
    <3>1. Plan.len = Size
      BY <2>2, OneChunk
    <3>2. SliceLen(Plan, Size, 0) = Size
      BY <3>1, PlanFacts DEF SliceLen, SliceOff
    <3> QED  BY <3>2, StreamAssumption
  <2> QED  BY <1>1, <2>1, <2>2, PlanFacts
<1> HIDE DEF b
<1> QED  BY <1>1, <1>2, <1>3, <1>4 DEF GenuineChunks

(* What the network does to the chunks under way keeps them genuine.       *)
LEMMA RemoveAtSeq ==
    ASSUME NEW S, NEW s \in Seq(S), NEW k \in 1 .. Len(s)
    PROVE  RemoveAt(s, k) \in Seq(S)
<1>1. SubSeq(s, 1, k - 1) \in Seq(S)
  BY SubSeqProperties
<1>2. SubSeq(s, k + 1, Len(s)) \in Seq(S)
  BY SubSeqProperties
<1> QED  BY <1>1, <1>2, ConcatProperties DEF RemoveAt

LEMMA InsertAtSeq ==
    ASSUME NEW S, NEW s \in Seq(S), NEW k \in 1 .. Len(s), NEW e \in S
    PROVE  InsertAt(s, k, e) \in Seq(S)
<1>1. SubSeq(s, 1, k - 1) \in Seq(S)
  BY SubSeqProperties
<1>2. SubSeq(s, k, Len(s)) \in Seq(S)
  BY SubSeqProperties
<1>3. SubSeq(s, 1, k - 1) \o <<e>> \in Seq(S)
  BY <1>1, ConcatProperties
<1> QED  BY <1>2, <1>3, ConcatProperties DEF InsertAt

(* An arrival that continues what was assembled lengthens it by one.       *)
LEMMA EndsWithStep ==
    ASSUME NEW arr \in Seq(GenuineChunks), NEW ch \in GenuineChunks,
           NEW s \in Nat, NEW n \in Nat, IsChunk(ch, s, n),
           n = 0 \/ EndsWith(arr, s, n)
    PROVE  EndsWith(Append(arr, ch), s, n + 1)
<1> DEFINE l == Len(arr)
           new == Append(arr, ch)
<1>1. l \in Nat /\ Len(new) = l + 1 /\ new[l + 1] = ch /\ \A j \in 1 .. l : new[j] = arr[j]
  OBVIOUS
<1>2. n <= l
  BY <1>1 DEF EndsWith
<1>3. ASSUME NEW i \in 0 .. n
      PROVE  IsChunk(new[(l + 1) - (n + 1) + i + 1], s, i)
  <2>1. CASE i = n
    <3>1. (l + 1) - (n + 1) + i + 1 = l + 1  BY <1>1, <2>1
    <3> QED  BY <1>1, <2>1, <3>1
  <2>2. CASE i \in 0 .. (n - 1)
    <3>1. l - n + i + 1 \in 1 .. l /\ (l + 1) - (n + 1) + i + 1 = l - n + i + 1
      BY <1>1, <1>2, <2>2
    <3>2. IsChunk(arr[l - n + i + 1], s, i)
      BY <2>2 DEF EndsWith
    <3>3. new[(l + 1) - (n + 1) + i + 1] = arr[l - n + i + 1]
      BY <1>1, <3>1
    <3> QED  BY <3>2, <3>3
  <2>3. i = n \/ i \in 0 .. (n - 1)
    OBVIOUS
  <2> QED  BY <2>1, <2>2, <2>3
<1> HIDE DEF l, new
<1>4. n + 1 <= Len(new) /\ (n + 1) - 1 = n
  BY <1>1, <1>2
<1>5. \A i \in 0 .. ((n + 1) - 1) : IsChunk(new[Len(new) - (n + 1) + i + 1], s, i)
  BY <1>1, <1>3, <1>4
<1> QED  BY <1>4, <1>5 DEF EndsWith, new

-----------------------------------------------------------------------------
LEMMA InvInit == Init => IInv
<1> SUFFICES ASSUME Init PROVE IInv
  OBVIOUS
<1> USE DEF Init
<1>1. PubInv
  BY PlanFacts DEF PubInv
<1>2. NetInv
  BY DEF NetInv
<1>3. TrackerInv
  BY U16Facts DEF TrackerInv, TrackerInit, Trackers
<1>4. ReportInv /\ FrameIntact /\ OwnStamp
  BY DEF ReportInv, FrameIntact, OwnStamp
<1>5. StatInv
  <2>1. NoRow \in [n : Nat, samples : Nat, gaps : Nat, cause : {"none", "done", "timeout"}]
    BY DEF NoRow
  <2>2. 0 \in 0 .. MaxDuplicates
    BY StreamAssumption
  <2>3. latencies \in Seq(Nat)
    OBVIOUS
  <2>4. done \in BOOLEAN
    OBVIOUS
  <2> QED  BY <2>1, <2>2, <2>3, <2>4 DEF StatInv
<1> QED  BY <1>1, <1>2, <1>3, <1>4, <1>5 DEF IInv

(* Only OnMessage touches the tracker and the histories.                   *)
LEMMA OthersKeepReports ==
    ASSUME IInv, UNCHANGED <<tracker, arrived, reported>>
    PROVE  TrackerInv' /\ ReportInv' /\ FrameIntact' /\ OwnStamp' /\ arrived' \in Seq(GenuineChunks)
BY DEF IInv, TrackerInv, ReportInv, FrameIntact, OwnStamp, NetInv, EndsWith

LEMMA EarlierReports ==
    ASSUME IInv, NEW k \in 1 .. Len(reported)
    PROVE  reported[k].at \in Nat /\ reported[k].at <= Len(arrived)
<1>1. reported \in Seq(Reports) /\ reported[k].at <= Len(arrived)
  BY DEF IInv, ReportInv
<1>2. reported[k] \in Reports
  BY <1>1, ElementOfSeq
<1> QED  BY <1>1, <1>2 DEF Reports

(* A frame reported now is made of the last Plan.count arrivals; earlier   *)
(* reports look at earlier arrivals.                                       *)
LEMMA ReportStep ==
    ASSUME IInv, NEW ch \in GenuineChunks, arrived' = Append(arrived, ch),
           NEW f \in [seq : Nat, sendNs : Nat],
           EndsWith(arrived', f.seq, Plan.count), f.sendNs = f.seq + 1,
           reported' = Append(reported, [seq |-> f.seq, sendNs |-> f.sendNs, at |-> Len(arrived')])
    PROVE  ReportInv' /\ FrameIntact' /\ OwnStamp'
<1> DEFINE new == [seq |-> f.seq, sendNs |-> f.sendNs, at |-> Len(arrived')]
           l   == Len(arrived)
           m   == Len(reported)
<1>1. /\ arrived \in Seq(GenuineChunks) /\ l \in Nat
      /\ Len(arrived') = l + 1 /\ \A j \in 1 .. l : arrived'[j] = arrived[j]
  BY DEF IInv, NetInv
<1>2. new \in Reports /\ new.seq = f.seq /\ new.sendNs = f.sendNs /\ new.at = Len(arrived')
  BY <1>1 DEF Reports
<1> HIDE DEF new
<1>3. /\ reported \in Seq(Reports) /\ m \in Nat
      /\ reported' = Append(reported, new)
  BY DEF IInv, ReportInv, new
<1>4. /\ reported' \in Seq(Reports) /\ Len(reported') = m + 1
      /\ reported'[m + 1] = new /\ \A k \in 1 .. m : reported'[k] = reported[k]
  BY <1>2, <1>3, AppendProperties
<1>5. \A k \in 1 .. m : reported[k].at \in Nat /\ reported[k].at <= l
  BY EarlierReports
<1>6. \A k \in 1 .. (m + 1) : k = m + 1 \/ k \in 1 .. m
  BY <1>3
<1> HIDE DEF l, m
<1>7. ReportInv'
  <2> SUFFICES ASSUME NEW k \in 1 .. (m + 1)
               PROVE  reported'[k].at <= Len(arrived')
    BY <1>4 DEF ReportInv
  <2>1. CASE k = m + 1
    BY <1>1, <1>2, <1>4, <2>1
  <2>2. CASE k \in 1 .. m
    BY <1>1, <1>4, <1>5, <2>2
  <2> QED  BY <1>6, <2>1, <2>2
<1>8. FrameIntact'
  <2> DEFINE Whole(a, g) ==
        /\ g.at - Plan.count >= 0
        /\ \A i \in 0 .. (Plan.count - 1) : IsChunk(a[g.at - Plan.count + i + 1], g.seq, i)
  <2>1. Whole(arrived', new)
    <3>1. PICK a \in Nat : a = Len(arrived') /\ a = new.at
      BY <1>1, <1>2
    <3>2. PICK n \in Nat : n = Plan.count
      BY PlanFacts
    <3>3. n <= a /\ \A i \in 0 .. (n - 1) : IsChunk(arrived'[a - n + i + 1], f.seq, i)
      BY <3>1, <3>2 DEF EndsWith
    <3>4. a - n >= 0
      BY <3>3
    <3>5. \A i \in 0 .. (n - 1) : IsChunk(arrived'[a - n + i + 1], new.seq, i)
      BY <1>2, <3>3, Zenon
    <3> QED  BY <3>1, <3>2, <3>4, <3>5
  <2>2. ASSUME NEW k \in 1 .. m
        PROVE  Whole(arrived', reported[k])
    <3>1. Whole(arrived, reported[k])
      BY DEF IInv, FrameIntact, m
    <3>2. PICK a \in Nat : a = reported[k].at /\ a <= l
      BY <1>5
    <3>3. PICK n \in Nat : n = Plan.count
      BY PlanFacts
    <3>4. n <= a
      BY <3>1, <3>2, <3>3
    <3>5. ASSUME NEW i \in 0 .. (n - 1)
          PROVE  arrived'[a - n + i + 1] = arrived[a - n + i + 1]
      <4>1. a - n + i + 1 \in 1 .. l
        BY <1>1, <3>2, <3>4, LastPlaces
      <4> QED  BY <1>1, <4>1
    <3>6. \A i \in 0 .. (n - 1) : IsChunk(arrived'[a - n + i + 1], reported[k].seq, i)
      BY <3>1, <3>2, <3>3, <3>5
    <3> QED  BY <3>1, <3>2, <3>3, <3>6
  <2>3. \A k \in 1 .. (m + 1) : Whole(arrived', reported'[k])
    BY <1>4, <1>6, <2>1, <2>2
  <2> QED  BY <1>4, <2>3 DEF FrameIntact
<1>9. OwnStamp'
  <2>1. \A k \in 1 .. (m + 1) : reported'[k].sendNs = reported'[k].seq + 1
    <3>1. \A k \in 1 .. m : reported[k].sendNs = reported[k].seq + 1
      BY DEF IInv, OwnStamp, m
    <3> QED  BY <1>2, <1>4, <1>6, <3>1
  <2> QED  BY <1>4, <2>1 DEF OwnStamp
<1> QED  BY <1>7, <1>8, <1>9

LEMMA NoReportStep ==
    ASSUME IInv, NEW ch \in GenuineChunks, arrived' = Append(arrived, ch),
           reported' = reported
    PROVE  ReportInv' /\ FrameIntact' /\ OwnStamp'
<1> DEFINE l == Len(arrived)
<1>1. /\ arrived \in Seq(GenuineChunks) /\ l \in Nat
      /\ Len(arrived') = l + 1 /\ \A j \in 1 .. l : arrived'[j] = arrived[j]
  BY DEF IInv, NetInv
<1>2. \A k \in 1 .. Len(reported) : reported[k].at \in Nat /\ reported[k].at <= l
  BY EarlierReports
<1> HIDE DEF l
<1>3. ReportInv'
  BY <1>1, <1>2 DEF IInv, ReportInv
<1>4. FrameIntact'
  <2> SUFFICES ASSUME NEW k \in 1 .. Len(reported)
               PROVE  /\ reported[k].at - Plan.count >= 0
                      /\ \A i \in 0 .. (Plan.count - 1) :
                            IsChunk(arrived'[reported[k].at - Plan.count + i + 1], reported[k].seq, i)
    BY DEF FrameIntact
  <2>1. /\ reported[k].at - Plan.count >= 0
        /\ \A i \in 0 .. (Plan.count - 1) :
              IsChunk(arrived[reported[k].at - Plan.count + i + 1], reported[k].seq, i)
    BY DEF IInv, FrameIntact
  <2>2. PICK a \in Nat, n \in Nat : a = reported[k].at /\ a <= l /\ n = Plan.count
    BY <1>2, PlanFacts
  <2>3. n <= a
    BY <2>1, <2>2
  <2>4. ASSUME NEW i \in 0 .. (n - 1)
        PROVE  arrived'[a - n + i + 1] = arrived[a - n + i + 1]
    <3>1. a - n + i + 1 \in 1 .. l
      BY <1>1, <2>2, <2>3, LastPlaces
    <3> QED  BY <1>1, <3>1
  <2> QED  BY <2>1, <2>2, <2>4
<1>5. OwnStamp'
  BY DEF IInv, OwnStamp
<1> QED  BY <1>3, <1>4, <1>5

(* The statistics stay typed whatever frame is counted.                    *)
LEMMA OnFrameTypes ==
    ASSUME IInv, NEW f \in [seq : Nat, sendNs : Nat], OnFrame(f),
           UNCHANGED <<net, dups, rowVars>>
    PROVE  StatInv'
<1>1. f.seq \in Nat
  OBVIOUS
<1>2. gapCount' \in Nat /\ lastSeq' \in Nat
  <2>1. gapCount \in Nat /\ lastSeq \in Nat
    BY DEF IInv, StatInv
  <2>2. gapCount' = gapCount + GapGrows(f.seq) /\ lastSeq' = f.seq
    BY DEF OnFrame
  <2>3. GapGrows(f.seq) \in Nat
    BY <1>1, <2>1 DEF GapGrows, Behind
  <2> QED  BY <1>1, <2>1, <2>2, <2>3
<1>3. latencies \in Seq(Nat) /\ done \in BOOLEAN
  BY DEF IInv, StatInv
<1>4. latencies' \in Seq(Nat)
  <2>1. CASE Measured(f.seq)
    <3>1. latencies' = Append(latencies, f.seq)
      BY <2>1 DEF OnFrame
    <3> QED  BY <1>1, <1>3, <3>1, AppendProperties
  <2>2. CASE ~Measured(f.seq)
    BY <1>3, <2>2 DEF OnFrame
  <2> QED  BY <2>1, <2>2
<1>5. done' \in BOOLEAN
  <2>1. CASE Measured(f.seq)
    <3>1. done' = (done \/ Enough(Len(latencies')))
      BY <2>1 DEF OnFrame
    <3> QED  BY <3>1, Zenon
  <2>2. CASE ~Measured(f.seq)
    BY <1>3, <2>2 DEF OnFrame
  <2> QED  BY <2>1, <2>2
<1> QED  BY <1>2, <1>4, <1>5 DEF IInv, StatInv, rowVars

-----------------------------------------------------------------------------
LEMMA OnMessageInv ==
    ASSUME CountFits, IInv, OnMessage
    PROVE  IInv'
<1>1. PICK k \in 1 .. Len(chan) :
        /\ chan' = RemoveAt(chan, k)
        /\ arrived' = Append(arrived, chan[k])
        /\ LET r == Ingest(tracker, chan[k])
           IN  /\ tracker' = r.tracker
               /\ IF r.frame = NoFrame THEN NoFrameYet ELSE OnFrame(r.frame)
        /\ UNCHANGED <<pubVars, net, dups, rowVars>>
  BY DEF OnMessage
<1>2. chan \in Seq(GenuineChunks) /\ arrived \in Seq(GenuineChunks) /\ tracker \in Trackers
  BY DEF IInv, NetInv, TrackerInv
<1>3. PICK ch \in GenuineChunks : ch = chan[k]
  BY <1>2, ElementOfSeq
<1>4. NetInv'
  <2>1. chan' \in Seq(GenuineChunks)
    BY <1>1, <1>2, RemoveAtSeq
  <2>2. arrived' \in Seq(GenuineChunks)
    BY <1>1, <1>2, <1>3, AppendProperties
  <2> QED  BY <2>1, <2>2 DEF NetInv
<1>5. PubInv'
  BY <1>1 DEF IInv, PubInv, pubVars
<1>6. PICK n \in Nat, i \in Nat, s \in Nat, ns \in Nat, b \in Nat :
        /\ n = Plan.count /\ n < kU16 /\ i < n /\ b >= kChunkHeaderBytes
        /\ i = 0 => ns = s + 1 /\ b >= kMinFrameBytes
        /\ ch = [seq |-> s, index |-> i, count |-> n, sendNs |-> ns, bytes |-> b]
  <2>1. /\ ch \in [seq : Nat, index : Nat, count : {Plan.count}, sendNs : Nat, bytes : Nat]
        /\ ch.index < Plan.count /\ ch.bytes >= kChunkHeaderBytes
        /\ ch.index = 0 => ch.sendNs = ch.seq + 1 /\ ch.bytes >= kMinFrameBytes
    BY DEF GenuineChunks
  <2>2. ch = [seq |-> ch.seq, index |-> ch.index, count |-> ch.count, sendNs |-> ch.sendNs,
              bytes |-> ch.bytes]
    BY <2>1
  <2>3. ch.seq \in Nat /\ ch.index \in Nat /\ ch.count = Plan.count /\ ch.sendNs \in Nat /\ ch.bytes \in Nat
    BY <2>1
  <2> QED  BY <2>1, <2>2, <2>3, PlanFacts DEF CountFits
<1>7. PICK r : r = Ingest(tracker, ch)
  OBVIOUS
<1>8. /\ tracker' = r.tracker /\ arrived' = Append(arrived, ch)
      /\ IF r.frame = NoFrame THEN NoFrameYet ELSE OnFrame(r.frame)
  BY <1>1, <1>3, <1>7
<1>9. /\ r.tracker \in Trackers
      /\ \/ r.frame = NoFrame /\ ~r.tracker.active
         \/ /\ r.frame = NoFrame
            /\ i + 1 < n
            /\ r.tracker.seq = s /\ r.tracker.next = i + 1
            /\ Accepts(tracker, ch, r.tracker.sendNs)
         \/ /\ r.frame \in [seq : Nat, sendNs : Nat]
            /\ ~r.tracker.active
            /\ i + 1 = n
            /\ r.frame.seq = s
            /\ Accepts(tracker, ch, r.frame.sendNs)
  <2>1. n < kU16 /\ i < n /\ b >= kChunkHeaderBytes
    BY <1>6
  <2>2. ch = [seq |-> s, index |-> i, count |-> n, sendNs |-> ns, bytes |-> b]
    BY <1>6
  <2> QED  BY <1>2, <1>7, <2>1, <2>2, IngestCases, SMTT(60)
<1>10. IsChunk(ch, s, i) /\ ch.seq = s /\ ch.index = i /\ ch.sendNs = ns
  BY <1>6 DEF IsChunk
<1>11. ASSUME NEW stp, Accepts(tracker, ch, stp)
       PROVE  stp = s + 1 /\ EndsWith(arrived', s, i + 1)
  <2>1. CASE i = 0
    <3>1. stp = s + 1
      BY <1>6, <1>10, <1>11, <2>1 DEF Accepts, IInv, TrackerInv
    <3> QED  BY <1>2, <1>8, <1>10, <2>1, <3>1, EndsWithStep
  <2>2. CASE i # 0
    <3>1. tracker.active /\ tracker.seq = s /\ tracker.next = i /\ stp = tracker.sendNs
      BY <1>10, <1>11, <2>2 DEF Accepts
    <3>2. EndsWith(arrived, s, i) /\ stp = s + 1
      BY <3>1 DEF IInv, TrackerInv
    <3> QED  BY <1>2, <1>8, <1>10, <3>2, EndsWithStep
  <2> QED  BY <2>1, <2>2
<1>12. CASE r.frame = NoFrame
  <2>1. NoFrameYet  BY <1>8, <1>12
  <2>2. ReportInv' /\ FrameIntact' /\ OwnStamp'
    BY <1>8, <2>1, NoReportStep DEF NoFrameYet
  <2>3. StatInv'
    BY <1>1, <2>1 DEF IInv, StatInv, NoFrameYet, rowVars
  <2>4. TrackerInv'
    <3>1. CASE ~r.tracker.active
      BY <1>8, <1>9, <3>1 DEF TrackerInv
    <3>2. CASE /\ i + 1 < n
               /\ r.tracker.seq = s /\ r.tracker.next = i + 1
               /\ Accepts(tracker, ch, r.tracker.sendNs)
      <4>1. r.tracker.sendNs = s + 1 /\ EndsWith(arrived', s, i + 1)
        BY <1>11, <3>2
      <4>2. i + 1 \in 1 .. (Plan.count - 1)
        BY <1>6, <3>2
      <4> QED  BY <1>8, <1>9, <3>2, <4>1, <4>2 DEF TrackerInv
    <3> QED  BY <1>9, <1>12, <3>1, <3>2 DEF NoFrame
  <2> QED  BY <1>4, <1>5, <2>2, <2>3, <2>4 DEF IInv
<1>13. CASE r.frame # NoFrame
  <2>1. /\ r.frame \in [seq : Nat, sendNs : Nat]
        /\ ~r.tracker.active /\ i + 1 = n /\ r.frame.seq = s
        /\ Accepts(tracker, ch, r.frame.sendNs)
    BY <1>9, <1>13
  <2>2. OnFrame(r.frame)
    BY <1>8, <1>13
  <2>3. PICK f \in [seq : Nat, sendNs : Nat] : f = r.frame
    BY <2>1
  <2>4. f.sendNs = f.seq + 1 /\ EndsWith(arrived', f.seq, Plan.count)
    BY <1>6, <1>11, <2>1, <2>3
  <2>5. reported' = Append(reported, [seq |-> f.seq, sendNs |-> f.sendNs, at |-> Len(arrived')])
    BY <2>2, <2>3 DEF OnFrame
  <2>6. ReportInv' /\ FrameIntact' /\ OwnStamp'
    BY <1>8, <2>4, <2>5, ReportStep
  <2>7. StatInv'
    BY <1>1, <2>2, <2>3, OnFrameTypes
  <2>8. TrackerInv'
    BY <1>8, <1>9, <2>1 DEF TrackerInv
  <2> QED  BY <1>4, <1>5, <2>6, <2>7, <2>8 DEF IInv
<1> QED  BY <1>12, <1>13

LEMMA NotifyInv ==
    ASSUME CountFits, IInv, Notify
    PROVE  IInv'
<1>1. /\ pc = "notify" /\ seq < Total /\ seq \in Nat /\ Total \in Nat
      /\ c \in Nat /\ c < Plan.count /\ Plan.count \in Nat /\ stamp = seq + 1
  BY PlanFacts DEF Notify, IInv, PubInv
<1>2. /\ chan' = Append(chan, Chunk(seq, stamp, c)) /\ c' = c + 1
      /\ IF c + 1 < Plan.count THEN UNCHANGED <<pc, seq>> ELSE pc' = "frame" /\ seq' = seq + 1
      /\ UNCHANGED <<stamp, net, dups, statVars, rowVars, histVars>>
  BY DEF Notify
<1>3. PubInv'
  <2>1. CASE c + 1 < Plan.count
    BY <1>1, <1>2, <2>1 DEF IInv, PubInv
  <2>2. CASE ~(c + 1 < Plan.count)
    BY <1>1, <1>2, <2>2 DEF IInv, PubInv
  <2> QED  BY <2>1, <2>2
<1>4. Chunk(seq, stamp, c) \in GenuineChunks
  BY <1>1, NotifiedIsGenuine
<1>5. NetInv'
  <2>1. chan' \in Seq(GenuineChunks)
    BY <1>2, <1>4, AppendProperties DEF IInv, NetInv
  <2> QED  BY <1>2, <2>1 DEF IInv, NetInv, histVars
<1>6. TrackerInv' /\ ReportInv' /\ FrameIntact' /\ OwnStamp'
  BY <1>2, OthersKeepReports DEF statVars, histVars
<1>7. StatInv'
  BY <1>2 DEF IInv, StatInv, statVars, rowVars
<1> QED  BY <1>3, <1>5, <1>6, <1>7 DEF IInv

(* The publisher between frames leaves the client and the network alone.   *)
LEMMA PublisherInv ==
    ASSUME IInv, StartFrame \/ StopPublisher
    PROVE  IInv'
<1>1. UNCHANGED <<seq, netVars, statVars, rowVars, histVars>>
  BY DEF StartFrame, StopPublisher
<1>2. PubInv'
  <2>1. CASE StartFrame
    <3>1. Plan.count \in Nat \ {0} /\ Total \in Nat
      BY PlanFacts
    <3> QED  BY <2>1, <3>1 DEF StartFrame, IInv, PubInv
  <2>2. CASE StopPublisher
    BY <2>2 DEF StopPublisher, IInv, PubInv
  <2> QED  BY <2>1, <2>2
<1>3. NetInv'
  BY <1>1 DEF IInv, NetInv, netVars, histVars
<1>4. TrackerInv' /\ ReportInv' /\ FrameIntact' /\ OwnStamp'
  BY <1>1, OthersKeepReports DEF statVars, histVars
<1>5. StatInv'
  BY <1>1 DEF IInv, StatInv, netVars, statVars, rowVars
<1> QED  BY <1>2, <1>3, <1>4, <1>5 DEF IInv

LEMMA NetworkInv ==
    ASSUME IInv, Lose \/ Duplicate
    PROVE  IInv'
<1>1. UNCHANGED <<pubVars, net, statVars, rowVars, histVars>>
  BY DEF Lose, Duplicate
<1>2. chan \in Seq(GenuineChunks) /\ dups \in Nat /\ MaxDuplicates \in Nat /\ dups <= MaxDuplicates
  BY StreamAssumption DEF IInv, NetInv, StatInv
<1>3. chan' \in Seq(GenuineChunks) /\ dups' \in 0 .. MaxDuplicates
  <2>1. CASE Lose
    <3>1. PICK k \in 1 .. Len(chan) : chan' = RemoveAt(chan, k) /\ dups' = dups
      BY <2>1 DEF Lose
    <3> QED  BY <1>2, <3>1, RemoveAtSeq
  <2>2. CASE Duplicate
    <3>1. PICK k \in 1 .. Len(chan) : chan' = InsertAt(chan, k, chan[k])
      BY <2>2 DEF Duplicate
    <3>2. chan[k] \in GenuineChunks
      BY <1>2, <3>1, ElementOfSeq
    <3>3. chan' \in Seq(GenuineChunks)
      BY <1>2, <3>1, <3>2, InsertAtSeq
    <3>4. dups < MaxDuplicates /\ dups' = dups + 1
      BY <2>2 DEF Duplicate
    <3> QED  BY <1>2, <3>3, <3>4
  <2> QED  BY <2>1, <2>2
<1>4. NetInv'
  BY <1>1, <1>3 DEF IInv, NetInv, histVars
<1>5. PubInv'
  BY <1>1 DEF IInv, PubInv, pubVars
<1>6. TrackerInv' /\ ReportInv' /\ FrameIntact' /\ OwnStamp'
  BY <1>1, OthersKeepReports DEF statVars, histVars
<1>7. StatInv'
  BY <1>1, <1>3 DEF IInv, StatInv, statVars, rowVars
<1> QED  BY <1>4, <1>5, <1>6, <1>7 DEF IInv

LEMMA ReportingInv ==
    ASSUME IInv, EndWait \/ ReadSize \/ PrintRow
    PROVE  IInv'
<1>1. UNCHANGED <<pubVars, netVars, statVars, histVars>>
  BY DEF EndWait, ReadSize, PrintRow
<1>2. /\ row \in [n : Nat, samples : Nat, gaps : Nat, cause : {"none", "done", "timeout"}]
      /\ latencies \in Seq(Nat) /\ Len(latencies) \in Nat /\ gapCount \in Nat
  BY DEF IInv, StatInv
<1>3. /\ row' \in [n : Nat, samples : Nat, gaps : Nat, cause : {"none", "done", "timeout"}]
      /\ waiter' \in {"waiting", "printing", "sized", "exited"}
  <2>1. CASE EndWait
    BY <1>2, <2>1 DEF EndWait
  <2>2. CASE ReadSize
    BY <1>2, <2>2 DEF ReadSize
  <2>3. CASE PrintRow
    BY <1>2, <2>3 DEF PrintRow
  <2> QED  BY <2>1, <2>2, <2>3
<1>4. PubInv' /\ NetInv'
  BY <1>1 DEF IInv, PubInv, NetInv, pubVars, netVars, histVars
<1>5. TrackerInv' /\ ReportInv' /\ FrameIntact' /\ OwnStamp'
  BY <1>1, OthersKeepReports DEF statVars, histVars
<1>6. StatInv'
  BY <1>1, <1>3 DEF IInv, StatInv, netVars, statVars
<1> QED  BY <1>4, <1>5, <1>6 DEF IInv

LEMMA StutterInv ==
    ASSUME IInv, UNCHANGED vars
    PROVE  IInv'
<1>1. UNCHANGED <<pubVars, netVars, statVars, rowVars, histVars>>
  BY DEF vars
<1>2. PubInv' /\ NetInv' /\ StatInv'
  BY <1>1 DEF IInv, PubInv, NetInv, StatInv, pubVars, netVars, statVars, rowVars, histVars
<1>3. TrackerInv' /\ ReportInv' /\ FrameIntact' /\ OwnStamp'
  BY <1>1, OthersKeepReports DEF statVars, histVars
<1> QED  BY <1>2, <1>3 DEF IInv

(* IInv is inductive: the frames a plan of fewer than 2^16 chunks is made  *)
(* of are followed chunk by chunk.                                         *)
THEOREM IInvHolds == ASSUME CountFits PROVE Spec => []IInv
<1>1. Init => IInv
  BY InvInit
<1>2. IInv /\ [Next]_vars => IInv'
  <2> SUFFICES ASSUME IInv, [Next]_vars
               PROVE  IInv'
    OBVIOUS
  <2>1. CASE StartFrame \/ StopPublisher
    BY <2>1, PublisherInv
  <2>2. CASE Notify
    BY <2>2, NotifyInv
  <2>3. CASE Lose \/ Duplicate
    BY <2>3, NetworkInv
  <2>4. CASE OnMessage
    BY <2>4, OnMessageInv
  <2>5. CASE EndWait \/ ReadSize \/ PrintRow
    BY <2>5, ReportingInv
  <2>6. CASE UNCHANGED vars
    BY <2>6, StutterInv
  <2> QED  BY <2>1, <2>2, <2>3, <2>4, <2>5, <2>6 DEF Next
<1> QED  BY <1>1, <1>2, PTL DEF Spec

(* fragment.h:56: a reported frame is the last Plan.count arrivals, all    *)
(* its own, in order, however the network loses, duplicates or reorders.   *)
THEOREM ReportedFramesAreIntact == ASSUME CountFits PROVE Spec => []FrameIntact
<1>1. IInv => FrameIntact
  BY DEF IInv
<1> QED  BY <1>1, IInvHolds, PTL

(* A latency is never computed from another frame's stamp.                 *)
THEOREM ReportedStampsAreOwn == ASSUME CountFits PROVE Spec => []OwnStamp
<1>1. IInv => OwnStamp
  BY DEF IInv
<1> QED  BY <1>1, IInvHolds, PTL

(* Type correctness of the stream, on any network.                         *)
THEOREM StreamTypes == ASSUME CountFits PROVE Spec => []TypeOK
<1>1. ASSUME IInv PROVE TypeOK
  <2>1. GenuineChunks \subseteq WireChunks
    <3> SUFFICES ASSUME NEW ch \in GenuineChunks
                 PROVE  ch \in WireChunks
      OBVIOUS
    <3>1. ch \in [seq : Nat, index : Nat, count : {Plan.count}, sendNs : Nat, bytes : Nat]
          /\ ch.index < Plan.count
      BY DEF GenuineChunks
    <3>2. PICK n \in Nat : n = Plan.count /\ n < kU16 /\ kU16 \in Nat
      BY PlanFacts, U16Facts DEF CountFits
    <3>3. ch.index \in 0 .. (kU16 - 1) /\ ch.count \in 0 .. (kU16 - 1)
      BY <3>1, <3>2
    <3> QED  BY <3>1, <3>3 DEF WireChunks
  <2>2. chan \in Seq(WireChunks) /\ arrived \in Seq(WireChunks)
    BY <1>1, <2>1, SeqMonotonic DEF IInv, NetInv
  <2>3. tracker \in [active : BOOLEAN, seq : Nat, next : 0 .. (kU16 - 1), sendNs : Nat]
    BY <1>1 DEF IInv, TrackerInv, Trackers
  <2>4. PubInv /\ StatInv /\ reported \in Seq(Reports)
    BY <1>1 DEF IInv, ReportInv
  <2> QED  BY <2>2, <2>3, <2>4 DEF TypeOK, PubInv, StatInv
<1> QED  BY <1>1, IInvHolds, PTL

-----------------------------------------------------------------------------
(***************************************************************************)
(* What an ordered network adds (TCP, or a path that only loses): for      *)
(* every plan, number of frames and pattern of losses the stream           *)
(* implements FrameDelivery, the tracker recovers, gap_count_ is exact and *)
(* done_ hides no loss.                                                    *)
(***************************************************************************)
Before(a, b) == a.seq < b.seq \/ (a.seq = b.seq /\ a.index < b.index)

\* The publisher has notified this chunk.
Sent(ch) == ch.seq < seq \/ (ch.seq = seq /\ pc = "notify" /\ ch.index < c)

Rising(q) == \A j, k \in 1 .. Len(q) : j < k => Before(q[j], q[k])

\* Chunks travel in the order they were notified in.
OrderInv ==
    /\ Rising(chan)
    /\ Rising(arrived)
    /\ \A j \in 1 .. Len(arrived), k \in 1 .. Len(chan) : Before(arrived[j], chan[k])
    /\ \A k \in 1 .. Len(chan) : Sent(chan[k])
    /\ \A j \in 1 .. Len(arrived) : Sent(arrived[j])

-----------------------------------------------------------------------------
LEMMA ChunkFields ==
    ASSUME NEW ch \in GenuineChunks
    PROVE  ch.seq \in Nat /\ ch.index \in Nat /\ ch.index < Plan.count /\ Plan.count \in Nat
BY PlanFacts DEF GenuineChunks

LEMMA BeforeIsOrder ==
    /\ \A x, y, z \in GenuineChunks : Before(x, y) /\ Before(y, z) => Before(x, z)
    /\ \A x, y \in GenuineChunks : Before(x, y) => ~Before(y, x)
BY ChunkFields DEF Before

LEMMA RemoveFirstShape ==
    ASSUME NEW S, NEW q \in Seq(S), Len(q) >= 1
    PROVE  /\ RemoveAt(q, 1) \in Seq(S)
           /\ Len(RemoveAt(q, 1)) = Len(q) - 1
           /\ \A k \in 1 .. (Len(q) - 1) : RemoveAt(q, 1)[k] = q[k + 1]
<1> DEFINE l == Len(q)
           t == SubSeq(q, 2, l)
<1>1. l \in Nat /\ l >= 1 /\ \A i \in 1 .. l : q[i] \in S
  BY ElementOfSeq
<1>2. RemoveAt(q, 1) = t
  <2>1. SubSeq(q, 1, 0) = <<>> /\ t \in Seq(S)
    <3>1. \A i \in 2 .. l : q[i] \in S
      BY <1>1
    <3> QED  BY <1>1, <3>1, SubSeqEmpty, SubSeqProperties
  <2>2. <<>> \o t = t
    BY <2>1, ConcatEmptySeq
  <2>3. 1 - 1 = 0 /\ 1 + 1 = 2
    OBVIOUS
  <2> QED  BY <2>1, <2>2, <2>3 DEF RemoveAt
<1> HIDE DEF l
<1>3. t \in Seq(S) /\ Len(t) = l - 1 /\ \A k \in 1 .. (l - 1) : t[k] = q[k + 1]
  <2>1. \A i \in 2 .. l : q[i] \in S
    BY <1>1
  <2>2. /\ t \in Seq(S) /\ Len(t) = IF 2 <= l THEN l - 2 + 1 ELSE 0
        /\ \A i \in 1 .. l - 2 + 1 : t[i] = q[2 + i - 1]
    BY <1>1, <2>1, SubSeqProperties
  <2> HIDE DEF t
  <2>3. Len(t) = l - 1
    BY <1>1, <2>2
  <2>4. ASSUME NEW k \in 1 .. (l - 1) PROVE t[k] = q[k + 1]
    <3>1. k \in 1 .. l - 2 + 1 /\ 2 + k - 1 = k + 1
      BY <1>1
    <3> QED  BY <2>2, <3>1
  <2> QED  BY <2>2, <2>3, <2>4
<1> HIDE DEF t
<1> QED  BY <1>2, <1>3 DEF l

LEMMA AppendShape ==
    ASSUME NEW S, NEW q \in Seq(S), NEW e \in S
    PROVE  /\ Append(q, e) \in Seq(S)
           /\ Len(q) \in Nat
           /\ Len(Append(q, e)) = Len(q) + 1
           /\ Append(q, e)[Len(q) + 1] = e
           /\ \A k \in 1 .. Len(q) : Append(q, e)[k] = q[k]
BY AppendProperties

LEMMA UpToNext == \A l \in Nat : \A k \in 1 .. (l + 1) : k = l + 1 \/ k \in 1 .. l
OBVIOUS

(* A rising queue stays so when a later chunk joins it, and when its head  *)
(* leaves it.                                                              *)
LEMMA RisingAppend ==
    ASSUME NEW q \in Seq(GenuineChunks), NEW e \in GenuineChunks, Rising(q),
           \A k \in 1 .. Len(q) : Before(q[k], e)
    PROVE  Rising(Append(q, e))
<1> DEFINE r == Append(q, e)
           l == Len(q)
<1>1. l \in Nat /\ Len(r) = l + 1 /\ r[l + 1] = e /\ \A k \in 1 .. l : r[k] = q[k]
  BY AppendShape
<1> HIDE DEF r
<1> SUFFICES ASSUME NEW j \in 1 .. (l + 1), NEW k \in 1 .. (l + 1), j < k
             PROVE  Before(r[j], r[k])
  BY <1>1 DEF Rising, r
<1>2. j \in 1 .. l
  BY <1>1
<1>3. CASE k = l + 1
  BY <1>1, <1>2, <1>3
<1>4. CASE k \in 1 .. l
  BY <1>1, <1>2, <1>4 DEF Rising
<1> QED  BY <1>1, <1>3, <1>4, UpToNext

LEMMA RisingRemove ==
    ASSUME NEW q \in Seq(GenuineChunks), Len(q) >= 1, Rising(q)
    PROVE  Rising(RemoveAt(q, 1))
<1> DEFINE r == RemoveAt(q, 1)
           l == Len(q)
<1>1. l \in Nat /\ Len(r) = l - 1 /\ \A k \in 1 .. (l - 1) : r[k] = q[k + 1]
  BY RemoveFirstShape
<1> HIDE DEF r
<1> SUFFICES ASSUME NEW j \in 1 .. (l - 1), NEW k \in 1 .. (l - 1), j < k
             PROVE  Before(r[j], r[k])
  BY <1>1 DEF Rising, r
<1>2. j + 1 \in 1 .. l /\ k + 1 \in 1 .. l /\ j + 1 < k + 1
  BY <1>1
<1>3. Before(q[j + 1], q[k + 1])
  BY <1>2 DEF Rising
<1> QED  BY <1>1, <1>3

-----------------------------------------------------------------------------
LEMMA OrderInit == Init => OrderInv
BY DEF Init, OrderInv, Rising

(* A notified chunk comes after everything notified before it.             *)
LEMMA OrderNotify ==
    ASSUME CountFits, IInv, OrderInv, Notify
    PROVE  OrderInv'
<1> DEFINE new == Chunk(seq, stamp, c)
           Later(x) == x.seq < seq' \/ (x.seq = seq' /\ pc' = "notify" /\ x.index < c')
<1>1. /\ pc = "notify" /\ seq \in Nat /\ c \in Nat /\ c < Plan.count
      /\ Plan.count \in Nat /\ stamp = seq + 1
  BY PlanFacts DEF Notify, IInv, PubInv
<1>2. /\ chan' = Append(chan, new) /\ arrived' = arrived
      /\ c' = c + 1
      /\ IF c + 1 < Plan.count THEN UNCHANGED <<pc, seq>> ELSE pc' = "frame" /\ seq' = seq + 1
  BY DEF Notify, histVars
<1>17. /\ c' = c + 1
       /\ IF c + 1 < Plan.count THEN UNCHANGED <<pc, seq>> ELSE pc' = "frame" /\ seq' = seq + 1
  BY <1>2
<1>3. new \in GenuineChunks /\ new.seq = seq /\ new.index = c
  <2>1. new \in GenuineChunks
    BY <1>1, NotifiedIsGenuine
  <2>2. c % kU16 = c
    BY <1>1, U16Facts DEF CountFits
  <2> QED  BY <2>1, <2>2 DEF Chunk, WireChunk
<1> HIDE DEF new
<1>4. chan \in Seq(GenuineChunks) /\ arrived \in Seq(GenuineChunks)
  BY DEF IInv, NetInv
<1>5. /\ \A k \in 1 .. Len(chan) : chan[k] \in GenuineChunks
      /\ \A j \in 1 .. Len(arrived) : arrived[j] \in GenuineChunks
  BY <1>4, ElementOfSeq
<1>6. ASSUME NEW x \in GenuineChunks, Sent(x)
      PROVE  Before(x, new) /\ Later(x)
  <2>1. x.seq \in Nat /\ x.index \in Nat
    BY ChunkFields
  <2>2. Before(x, new)
    BY <1>1, <1>3, <1>6, <2>1 DEF Before, Sent
  <2>3. Later(x)
    <3>1. CASE c + 1 < Plan.count
      BY <1>1, <1>6, <1>17, <2>1, <3>1 DEF Sent
    <3>2. CASE ~(c + 1 < Plan.count)
      BY <1>1, <1>6, <1>17, <2>1, <3>2 DEF Sent
    <3> QED  BY <3>1, <3>2
  <2> QED  BY <2>2, <2>3
<1>7. Later(new)
  <2>1. CASE c + 1 < Plan.count
    BY <1>1, <1>3, <1>17, <2>1
  <2>2. CASE ~(c + 1 < Plan.count)
    BY <1>1, <1>3, <1>17, <2>2
  <2> QED  BY <2>1, <2>2
<1>8. /\ Len(chan) \in Nat /\ Len(chan') = Len(chan) + 1 /\ chan'[Len(chan) + 1] = new
      /\ \A k \in 1 .. Len(chan) : chan'[k] = chan[k]
  BY <1>2, <1>3, <1>4, AppendShape
<1>9. Rising(chan')
  <2>1. Rising(chan) /\ \A k \in 1 .. Len(chan) : Before(chan[k], new)
    BY <1>5, <1>6 DEF OrderInv
  <2> QED  BY <1>2, <1>3, <1>4, <2>1, RisingAppend
<1>10. \A j \in 1 .. Len(arrived), k \in 1 .. (Len(chan) + 1) : Before(arrived[j], chan'[k])
  <2>1. \A j \in 1 .. Len(arrived) : Before(arrived[j], new)
    BY <1>5, <1>6 DEF OrderInv
  <2>2. \A j \in 1 .. Len(arrived), k \in 1 .. Len(chan) : Before(arrived[j], chan[k])
    BY DEF OrderInv
  <2> QED  BY <1>8, <2>1, <2>2, UpToNext
<1>11. \A k \in 1 .. (Len(chan) + 1) : Later(chan'[k])
  <2>1. \A k \in 1 .. Len(chan) : Later(chan[k])
    BY <1>5, <1>6 DEF OrderInv
  <2> QED  BY <1>7, <1>8, <2>1, UpToNext
<1>12. \A j \in 1 .. Len(arrived) : Later(arrived[j])
  BY <1>5, <1>6 DEF OrderInv
<1>13. \A k \in 1 .. Len(chan') : Sent(chan[k])'
  BY <1>8, <1>11 DEF Sent
<1>14. \A j \in 1 .. Len(arrived') : Sent(arrived[j])'
  BY <1>2, <1>12 DEF Sent
<1>15. Rising(arrived)'
  BY <1>2 DEF OrderInv, Rising
<1>16. \A j \in 1 .. Len(arrived'), k \in 1 .. Len(chan') : Before(arrived'[j], chan'[k])
  BY <1>2, <1>8, <1>10
<1> QED  BY <1>9, <1>13, <1>14, <1>15, <1>16 DEF OrderInv

(* The head of the queue leaves it: lost, or into arrived.                 *)
LEMMA HeadLeaves ==
    ASSUME IInv, OrderInv, Len(chan) >= 1, chan' = RemoveAt(chan, 1),
           UNCHANGED <<pc, seq, c>>
    PROVE  /\ Rising(chan')
           /\ \A k \in 1 .. Len(chan') : chan'[k] \in GenuineChunks
           /\ \A k \in 1 .. Len(chan') : Sent(chan[k])'
           /\ \A k \in 1 .. Len(chan') : Before(chan[1], chan'[k])
           /\ \A j \in 1 .. Len(arrived), k \in 1 .. Len(chan') : Before(arrived[j], chan'[k])
<1> DEFINE l == Len(chan)
<1>1. chan \in Seq(GenuineChunks)
  BY DEF IInv, NetInv
<1>2. /\ l \in Nat /\ Len(chan') = l - 1
      /\ \A k \in 1 .. (l - 1) : chan'[k] = chan[k + 1]
  BY <1>1, RemoveFirstShape
<1>3. \A k \in 1 .. l : chan[k] \in GenuineChunks /\ Sent(chan[k])
  BY <1>1, ElementOfSeq DEF OrderInv
<1>4. \A j, k \in 1 .. l : j < k => Before(chan[j], chan[k])
  BY DEF OrderInv, Rising
<1>5. \A j \in 1 .. Len(arrived), k \in 1 .. l : Before(arrived[j], chan[k])
  BY DEF OrderInv
<1>6. Rising(chan')
  BY <1>1, RisingRemove DEF OrderInv
<1> HIDE DEF l
<1>7. ASSUME NEW k \in 1 .. Len(chan')
      PROVE  k + 1 \in 1 .. l /\ 1 < k + 1 /\ 1 \in 1 .. l /\ chan'[k] = chan[k + 1]
  BY <1>2
<1>8. \A k \in 1 .. Len(chan') : Sent(chan[k])'
  <2> SUFFICES ASSUME NEW k \in 1 .. Len(chan') PROVE Sent(chan[k])'
    OBVIOUS
  <2>1. Sent(chan[k + 1]) /\ chan'[k] = chan[k + 1]
    BY <1>3, <1>7
  <2> QED  BY <2>1 DEF Sent
<1>9. \A k \in 1 .. Len(chan') : Before(chan[1], chan'[k]) /\ chan'[k] \in GenuineChunks
  BY <1>3, <1>4, <1>7
<1>10. \A j \in 1 .. Len(arrived), k \in 1 .. Len(chan') : Before(arrived[j], chan'[k])
  BY <1>5, <1>7
<1> QED  BY <1>6, <1>8, <1>9, <1>10

LEMMA OrderLose ==
    ASSUME IInv, OrderInv, Ordered, Lose
    PROVE  OrderInv'
<1>1. Len(chan) >= 1 /\ chan' = RemoveAt(chan, 1) /\ UNCHANGED <<pc, seq, c, arrived>>
  <2>1. PICK k \in 1 .. Len(chan) : k <= Window /\ chan' = RemoveAt(chan, k)
    BY DEF Lose
  <2>2. k = 1 /\ Len(chan) >= 1
    BY <2>1 DEF Window
  <2> QED  BY <2>1, <2>2 DEF Lose, pubVars, histVars
<1>2. Rising(arrived)' /\ \A j \in 1 .. Len(arrived') : Sent(arrived[j])'
  BY <1>1 DEF OrderInv, Rising, Sent
<1> QED  BY <1>1, <1>2, HeadLeaves DEF OrderInv

LEMMA OrderArrival ==
    ASSUME IInv, OrderInv, Len(chan) >= 1, chan' = RemoveAt(chan, 1),
           arrived' = Append(arrived, chan[1]), UNCHANGED <<pc, seq, c>>
    PROVE  OrderInv'
<1> DEFINE l == Len(arrived)
<1>1. chan \in Seq(GenuineChunks) /\ arrived \in Seq(GenuineChunks)
  BY DEF IInv, NetInv
<1>2. PICK ch \in GenuineChunks : ch = chan[1] /\ Sent(ch) /\ \A j \in 1 .. l : Before(arrived[j], ch)
  <2>1. 1 \in 1 .. Len(chan)
    BY <1>1
  <2> QED  BY <1>1, <2>1, ElementOfSeq DEF OrderInv
<1>3. /\ l \in Nat /\ Len(arrived') = l + 1 /\ arrived'[l + 1] = ch
      /\ \A j \in 1 .. l : arrived'[j] = arrived[j]
  BY <1>1, <1>2, AppendShape
<1>4. Rising(arrived')
  BY <1>1, <1>2, RisingAppend DEF OrderInv
<1>5. \A j \in 1 .. l : Sent(arrived[j])
  BY DEF OrderInv
<1> HIDE DEF l
<1>6. \A j \in 1 .. Len(arrived') : Sent(arrived[j])'
  <2> SUFFICES ASSUME NEW j \in 1 .. (l + 1) PROVE Sent(arrived[j])'
    BY <1>3
  <2>1. Sent(arrived'[j])
    BY <1>2, <1>3, <1>5, UpToNext
  <2> QED  BY <2>1 DEF Sent
<1>7. \A j \in 1 .. Len(arrived'), k \in 1 .. Len(chan') : Before(arrived'[j], chan'[k])
  <2>1. \A j \in 1 .. l, k \in 1 .. Len(chan') : Before(arrived[j], chan'[k])
    BY HeadLeaves DEF l
  <2>2. \A k \in 1 .. Len(chan') : Before(ch, chan'[k])
    BY <1>2, HeadLeaves
  <2> QED  BY <1>3, <2>1, <2>2, UpToNext
<1>8. Rising(chan') /\ \A k \in 1 .. Len(chan') : Sent(chan[k])'
  BY HeadLeaves
<1> QED  BY <1>4, <1>6, <1>7, <1>8 DEF OrderInv

LEMMA OrderOthers ==
    ASSUME IInv, OrderInv, UNCHANGED <<chan, arrived, seq>>,
           pc # "notify" \/ UNCHANGED <<pc, c>>
    PROVE  OrderInv'
<1>1. ASSUME NEW x, Sent(x)
      PROVE  x.seq < seq' \/ (x.seq = seq' /\ pc' = "notify" /\ x.index < c')
  BY <1>1 DEF Sent
<1>2. (\A k \in 1 .. Len(chan') : Sent(chan[k])') /\ \A j \in 1 .. Len(arrived') : Sent(arrived[j])'
  BY <1>1 DEF OrderInv, Sent
<1>3. Rising(chan)' /\ Rising(arrived)'
  BY DEF OrderInv, Rising
<1>4. \A j \in 1 .. Len(arrived'), k \in 1 .. Len(chan') : Before(arrived'[j], chan'[k])
  BY DEF OrderInv
<1> QED  BY <1>2, <1>3, <1>4 DEF OrderInv

-----------------------------------------------------------------------------
(* What one arrival does.                                                  *)

\* The tracker takes this chunk.
Expects(ch) ==
    ch.index = 0 \/ (tracker.active /\ tracker.seq = ch.seq /\ tracker.next = ch.index)

LEMMA Arrival ==
    ASSUME CountFits, IInv, OnMessage
    PROVE  \E k \in 1 .. Len(chan), ch \in GenuineChunks :
             /\ k <= Window /\ ch = chan[k]
             /\ chan' = RemoveAt(chan, k)
             /\ arrived' = Append(arrived, ch)
             /\ UNCHANGED <<pubVars, net, dups, rowVars>>
             /\ \/ /\ NoFrameYet
                   /\ tracker'.active <=> Expects(ch)
                   /\ Expects(ch) => /\ ch.index + 1 < Plan.count
                                     /\ tracker'.seq = ch.seq
                                     /\ tracker'.next = ch.index + 1
                \/ /\ ch.index + 1 = Plan.count /\ Expects(ch) /\ ~tracker'.active
                   /\ \E f \in [seq : Nat, sendNs : Nat] : f.seq = ch.seq /\ OnFrame(f)
<1>1. PICK k \in 1 .. Len(chan) :
        /\ k <= Window
        /\ chan' = RemoveAt(chan, k)
        /\ arrived' = Append(arrived, chan[k])
        /\ LET r == Ingest(tracker, chan[k])
           IN  /\ tracker' = r.tracker
               /\ IF r.frame = NoFrame THEN NoFrameYet ELSE OnFrame(r.frame)
        /\ UNCHANGED <<pubVars, net, dups, rowVars>>
  BY DEF OnMessage
<1>2. chan \in Seq(GenuineChunks) /\ tracker \in Trackers
  BY DEF IInv, NetInv, TrackerInv
<1>4. PICK ch \in GenuineChunks : ch = chan[k]
  BY <1>2, ElementOfSeq
<1>5. PICK n \in Nat, i \in Nat, s \in Nat, ns \in Nat, b \in Nat :
        /\ n = Plan.count /\ n < kU16 /\ i < n /\ b >= kChunkHeaderBytes
        /\ i = 0 => b >= kMinFrameBytes
        /\ ch = [seq |-> s, index |-> i, count |-> n, sendNs |-> ns, bytes |-> b]
  <2>1. /\ ch \in [seq : Nat, index : Nat, count : {Plan.count}, sendNs : Nat, bytes : Nat]
        /\ ch.index < Plan.count /\ ch.bytes >= kChunkHeaderBytes
        /\ ch.index = 0 => ch.bytes >= kMinFrameBytes
    BY DEF GenuineChunks
  <2>2. ch = [seq |-> ch.seq, index |-> ch.index, count |-> ch.count, sendNs |-> ch.sendNs,
              bytes |-> ch.bytes]
    BY <2>1
  <2>3. ch.seq \in Nat /\ ch.index \in Nat /\ ch.count = Plan.count /\ ch.sendNs \in Nat /\ ch.bytes \in Nat
    BY <2>1
  <2> QED  BY <2>1, <2>2, <2>3, PlanFacts DEF CountFits
<1>6. ch.seq = s /\ ch.index = i
  BY <1>5
<1>7. PICK r : r = Ingest(tracker, ch)
  OBVIOUS
<1>8. tracker' = r.tracker /\ IF r.frame = NoFrame THEN NoFrameYet ELSE OnFrame(r.frame)
  BY <1>1, <1>4, <1>7
<1>9. /\ n < kU16 /\ i < n /\ b >= kChunkHeaderBytes /\ (i = 0 => b >= kMinFrameBytes)
      /\ ch = [seq |-> s, index |-> i, count |-> n, sendNs |-> ns, bytes |-> b]
  BY <1>5
<1>10. CASE r.frame = NoFrame
  <2>1. NoFrameYet
    BY <1>8, <1>10
  <2>2. ASSUME Expects(ch)
        PROVE  i + 1 < n /\ tracker'.active /\ tracker'.seq = s /\ tracker'.next = i + 1
    <3>1. i = 0 \/ (tracker.active /\ tracker.seq = s /\ tracker.next = i)
      BY <1>6, <2>2 DEF Expects
    <3>2. /\ i + 1 < n => r.tracker.active /\ r.tracker.seq = s /\ r.tracker.next = i + 1
          /\ i + 1 = n => r.frame # NoFrame
      BY <1>2, <1>7, <1>9, <3>1, IngestTakes
    <3>3. i + 1 < n
      BY <1>9, <1>10, <3>2
    <3> QED  BY <1>8, <3>2, <3>3
  <2>3. ASSUME tracker'.active PROVE Expects(ch)
    <3>1. \E x : Accepts(tracker, ch, x)
      BY <1>2, <1>7, <1>8, <1>9, <1>10, <2>3, IngestCases DEF NoFrame
    <3> QED  BY <3>1 DEF Accepts, Expects
  <2> QED  BY <1>1, <1>4, <1>5, <1>6, <2>1, <2>2, <2>3
<1>11. CASE r.frame # NoFrame
  <2>1. /\ r.frame \in [seq : Nat, sendNs : Nat] /\ i + 1 = n /\ r.frame.seq = s
        /\ ~r.tracker.active /\ Accepts(tracker, ch, r.frame.sendNs)
    BY <1>2, <1>7, <1>9, <1>11, IngestCases
  <2>2. OnFrame(r.frame)
    BY <1>8, <1>11
  <2>3. Expects(ch)
    BY <2>1 DEF Accepts, Expects
  <2> QED  BY <1>1, <1>4, <1>5, <1>6, <1>8, <2>1, <2>2, <2>3
<1> QED  BY <1>10, <1>11

-----------------------------------------------------------------------------
(* The last of the n places up to place a is a itself.                     *)
LEMMA LastPlace ==
    ASSUME NEW a \in Nat, NEW n \in Nat, NEW l \in Nat, n >= 1, a - n >= 0, a <= l
    PROVE  n - 1 \in 0 .. (n - 1) /\ a - n + (n - 1) + 1 = a /\ a \in 1 .. l
OBVIOUS

(* On an ordered network frames are reported in publishing order.          *)
LEMMA NewReport ==
    ASSUME IInv, OrderInv, Len(chan) >= 1,
           NEW ch \in GenuineChunks, ch = chan[1], ch.index + 1 = Plan.count
    PROVE  /\ ch.seq < seq
           /\ \A k \in 1 .. Len(reported) : reported[k].seq \in Nat /\ reported[k].seq < ch.seq
<1>1. ch.seq \in Nat /\ ch.index \in Nat /\ Plan.count \in Nat
  BY ChunkFields
<1>2. chan \in Seq(GenuineChunks) /\ arrived \in Seq(GenuineChunks) /\ reported \in Seq(Reports)
  BY DEF IInv, NetInv, ReportInv
<1>3. ch.seq < seq
  <2>1. 1 \in 1 .. Len(chan)
    BY <1>2
  <2>2. Sent(ch)
    BY <2>1 DEF OrderInv
  <2>3. pc = "notify" => c < Plan.count /\ c \in Nat
    BY <1>1 DEF IInv, PubInv
  <2> QED  BY <1>1, <2>2, <2>3 DEF Sent
<1>4. ASSUME NEW k \in 1 .. Len(reported)
      PROVE  reported[k].seq \in Nat /\ reported[k].seq < ch.seq
  <2>1. reported[k] \in Reports
    BY <1>2, ElementOfSeq
  <2>2. PICK r \in Nat, a \in Nat, n \in Nat :
          r = reported[k].seq /\ a = reported[k].at /\ a <= Len(arrived) /\ n = Plan.count /\ n >= 1
    <3>1. reported[k].seq \in Nat
      BY <2>1 DEF Reports
    <3>2. reported[k].at \in Nat /\ reported[k].at <= Len(arrived)
      BY EarlierReports
    <3>3. Plan.count \in Nat /\ Plan.count >= 1
      BY PlanFacts
    <3> QED  BY <3>1, <3>2, <3>3, Zenon
  <2>3. /\ a - n >= 0
        /\ \A i \in 0 .. (n - 1) : IsChunk(arrived[a - n + i + 1], r, i)
    BY <2>2 DEF IInv, FrameIntact
  <2>4. n - 1 \in 0 .. (n - 1) /\ a - n + (n - 1) + 1 = a /\ a \in 1 .. Len(arrived)
    <3>1. a - n >= 0 /\ Len(arrived) \in Nat
      BY <1>2, <2>3
    <3> QED  BY <2>2, <3>1, LastPlace
  <2>5. IsChunk(arrived[a], r, n - 1)
    BY <2>3, <2>4
  <2>6. Before(arrived[a], ch)
    <3>1. 1 \in 1 .. Len(chan)
      BY <1>2
    <3> QED  BY <2>4, <3>1 DEF OrderInv
  <2> QED  BY <1>1, <2>2, <2>5, <2>6 DEF Before, IsChunk
<1> QED  BY <1>3, <1>4

LEMMA ReportedGrows ==
    ASSUME NEW r \in Reports, reported \in Seq(Reports), reported' = Append(reported, r)
    PROVE  Reported' = Reported \cup {r.seq}
<1> DEFINE m == Len(reported)
<1>1. /\ m \in Nat /\ Len(reported') = m + 1 /\ reported'[m + 1] = r
      /\ \A k \in 1 .. m : reported'[k] = reported[k]
  BY AppendShape
<1>2. Reported' = {reported'[k].seq : k \in 1 .. (m + 1)}
  BY <1>1 DEF Reported
<1>3. Reported = {reported[k].seq : k \in 1 .. m}
  BY DEF Reported
<1> HIDE DEF m
<1>4. m + 1 \in 1 .. (m + 1) /\ \A k \in 1 .. m : k \in 1 .. (m + 1)
  BY <1>1
<1> QED  BY <1>1, <1>2, <1>3, <1>4, UpToNext

\* f comes after every frame reported so far, and joins them.
Joins(f) ==
    /\ f.seq < seq
    /\ \A r \in Reported : r \in Nat /\ r < f.seq
    /\ Reported' = Reported \cup {f.seq}

LEMMA ArrivalReports ==
    ASSUME CountFits, IInv, OrderInv, Ordered, OnMessage
    PROVE  \E ch \in GenuineChunks :
             /\ Len(chan) >= 1 /\ ch = chan[1]
             /\ chan' = RemoveAt(chan, 1)
             /\ arrived' = Append(arrived, ch)
             /\ UNCHANGED <<pubVars, net, dups, rowVars>>
             /\ \/ /\ NoFrameYet
                   /\ Expects(ch) => /\ ch.index + 1 < Plan.count
                                     /\ tracker'.active /\ tracker'.seq = ch.seq
                                     /\ tracker'.next = ch.index + 1
                \/ /\ ch.index + 1 = Plan.count
                   /\ \E f \in [seq : Nat, sendNs : Nat] : f.seq = ch.seq /\ OnFrame(f) /\ Joins(f)
<1>1. PICK ch \in GenuineChunks :
             /\ Len(chan) >= 1 /\ ch = chan[1]
             /\ chan' = RemoveAt(chan, 1)
             /\ arrived' = Append(arrived, ch)
             /\ UNCHANGED <<pubVars, net, dups, rowVars>>
             /\ \/ /\ NoFrameYet
                   /\ Expects(ch) => /\ ch.index + 1 < Plan.count
                                     /\ tracker'.active /\ tracker'.seq = ch.seq
                                     /\ tracker'.next = ch.index + 1
                \/ /\ ch.index + 1 = Plan.count
                   /\ \E f \in [seq : Nat, sendNs : Nat] : f.seq = ch.seq /\ OnFrame(f)
  <2>1. PICK k \in 1 .. Len(chan), ch \in GenuineChunks :
             /\ k <= Window /\ ch = chan[k]
             /\ chan' = RemoveAt(chan, k)
             /\ arrived' = Append(arrived, ch)
             /\ UNCHANGED <<pubVars, net, dups, rowVars>>
             /\ \/ /\ NoFrameYet
                   /\ tracker'.active <=> Expects(ch)
                   /\ Expects(ch) => /\ ch.index + 1 < Plan.count
                                     /\ tracker'.seq = ch.seq
                                     /\ tracker'.next = ch.index + 1
                \/ /\ ch.index + 1 = Plan.count /\ Expects(ch) /\ ~tracker'.active
                   /\ \E f \in [seq : Nat, sendNs : Nat] : f.seq = ch.seq /\ OnFrame(f)
    BY Arrival
  <2>2. k = 1 /\ Len(chan) >= 1
    <3>1. chan \in Seq(GenuineChunks)
      BY DEF IInv, NetInv
    <3> QED  BY <2>1, <3>1 DEF Window
  <2> QED  BY <2>1, <2>2
<1>2. ASSUME ch.index + 1 = Plan.count,
             NEW f \in [seq : Nat, sendNs : Nat], f.seq = ch.seq, OnFrame(f)
      PROVE  Joins(f)
  <2>1. Len(chan) >= 1 /\ ch = chan[1]
    BY <1>1
  <2>2. /\ f.seq < seq
        /\ \A k \in 1 .. Len(reported) : reported[k].seq \in Nat /\ reported[k].seq < f.seq
    BY <1>2, <2>1, NewReport
  <2>3. \A r \in Reported : r \in Nat /\ r < f.seq
    BY <2>2 DEF Reported
  <2>4. reported \in Seq(Reports) /\ arrived \in Seq(GenuineChunks)
    BY DEF IInv, ReportInv, NetInv
  <2>5. Len(arrived') \in Nat
    <3>1. Len(arrived') = Len(arrived) + 1 /\ Len(arrived) \in Nat
      BY <1>1, <2>4, AppendShape
    <3> QED  BY <3>1
  <2>6. reported' = Append(reported, [seq |-> f.seq, sendNs |-> f.sendNs, at |-> Len(arrived')])
    BY <1>2 DEF OnFrame
  <2>7. PICK r \in Reports : r = [seq |-> f.seq, sendNs |-> f.sendNs, at |-> Len(arrived')]
    BY <2>5 DEF Reports
  <2>8. r.seq = f.seq /\ reported' = Append(reported, r)
    BY <2>6, <2>7
  <2>9. Reported' = Reported \cup {f.seq}
    BY <2>4, <2>8, ReportedGrows
  <2> QED  BY <2>2, <2>3, <2>9 DEF Joins
<1> QED  BY <1>1, <1>2

-----------------------------------------------------------------------------
(* The measured latencies: of reported frames, at least one frame number   *)
(* apart, so that Count of them leave no hole.                             *)
LatencyInv ==
    /\ \A r \in Reported : r \in Nat /\ r < seq
    /\ \A k \in 1 .. Len(latencies) : latencies[k] \in Reported /\ latencies[k] >= Warmup
    /\ \A j, k \in 1 .. Len(latencies) : j <= k => latencies[k] - latencies[j] >= k - j
    /\ done <=> Len(latencies) >= Count

LEMMA OnlyChoice ==
    ASSUME NEW w \in Nat, NEW n \in Nat, NEW k \in Nat, NEW x \in Nat, k = x - w + 1,
           NEW a \in Nat, NEW b \in Nat, NEW e \in Nat,
           a >= w, e < w + n, b - a >= k - 1, e - b >= n - k
    PROVE  b = x
OBVIOUS

LEMMA LatenciesFull ==
    ASSUME IInv, LatencyInv
    PROVE  /\ Len(latencies) \in Nat /\ Len(latencies) <= Count
           /\ done => Warmup .. (Total - 1) \subseteq Reported
<1> DEFINE l == Len(latencies)
<1>1. /\ Warmup \in Nat /\ Count \in Nat /\ Count >= 1 /\ Total = Warmup + Count
      /\ seq \in Nat /\ seq <= Total
  BY StreamAssumption, PlanFacts DEF Total, IInv, PubInv
<1>2. l \in Nat
  BY DEF IInv, StatInv
<1>3. \A k \in 1 .. l : latencies[k] \in Reported /\ latencies[k] \in Nat
                        /\ latencies[k] >= Warmup /\ latencies[k] < Warmup + Count
  <2> SUFFICES ASSUME NEW k \in 1 .. l
               PROVE  latencies[k] \in Reported /\ latencies[k] \in Nat
                      /\ latencies[k] >= Warmup /\ latencies[k] < Warmup + Count
    OBVIOUS
  <2>1. latencies[k] \in Reported /\ latencies[k] >= Warmup
    BY DEF LatencyInv
  <2>2. latencies[k] \in Nat /\ latencies[k] < seq
    BY <2>1 DEF LatencyInv
  <2> QED  BY <1>1, <2>1, <2>2
<1>4. \A j, k \in 1 .. l : j <= k => latencies[k] - latencies[j] >= k - j
  BY DEF LatencyInv
<1> HIDE DEF l
<1>5. l <= Count
  <2> SUFFICES ASSUME l > Count PROVE FALSE
    BY <1>1, <1>2
  <2>1. 1 \in 1 .. l /\ l \in 1 .. l /\ 1 <= l
    BY <1>1, <1>2
  <2>2. latencies[l] - latencies[1] >= l - 1
    BY <1>4, <2>1
  <2>3. latencies[l] \in Nat /\ latencies[1] \in Nat /\ latencies[1] >= Warmup /\ latencies[l] < Warmup + Count
    BY <1>3, <2>1
  <2> QED  BY <1>1, <1>2, <2>2, <2>3
<1>6. ASSUME done, NEW x \in Warmup .. (Total - 1)
      PROVE  x \in Reported
  <2>1. l = Count
    BY <1>1, <1>2, <1>5, <1>6 DEF LatencyInv, l
  <2>2. PICK k \in 1 .. l : k = x - Warmup + 1
    BY <1>1, <2>1
  <2>3. 1 \in 1 .. l /\ l \in 1 .. l /\ 1 <= k /\ k <= l
    BY <1>1, <2>1, <2>2
  <2>4. latencies[k] - latencies[1] >= k - 1 /\ latencies[l] - latencies[k] >= l - k
    BY <1>4, <2>3
  <2>5. /\ latencies[1] \in Nat /\ latencies[1] >= Warmup
        /\ latencies[l] \in Nat /\ latencies[l] < Warmup + Count
        /\ latencies[k] \in Nat /\ latencies[k] \in Reported
    BY <1>3, <2>3
  <2>6. latencies[k] = x
    <3>1. PICK a \in Nat, b \in Nat, e \in Nat :
            a = latencies[1] /\ b = latencies[k] /\ e = latencies[l]
      BY <2>5
    <3>2. a >= Warmup /\ e < Warmup + Count /\ b - a >= k - 1 /\ e - b >= Count - k
      BY <2>1, <2>4, <2>5, <3>1
    <3> QED  BY <1>1, <1>2, <2>1, <2>2, <3>1, <3>2, OnlyChoice
  <2> QED  BY <2>5, <2>6
<1> QED  BY <1>2, <1>5, <1>6 DEF l

LEMMA LatencyInit == Init => LatencyInv
<1> SUFFICES ASSUME Init PROVE LatencyInv
  OBVIOUS
<1>1. Reported = {}
  BY DEF Init, Reported
<1>2. Len(latencies) = 0 /\ ~done /\ ~(0 >= Count)
  BY StreamAssumption DEF Init
<1> QED  BY <1>1, <1>2 DEF LatencyInv

LEMMA LatencyFrame ==
    ASSUME IInv, LatencyInv, NEW f \in [seq : Nat, sendNs : Nat], OnFrame(f), Joins(f), seq' = seq
    PROVE  LatencyInv'
<1> DEFINE l == Len(latencies)
<1>1. /\ f.seq \in Nat /\ f.seq < seq /\ Reported' = Reported \cup {f.seq}
      /\ \A r \in Reported : r \in Nat /\ r < f.seq
  BY DEF Joins
<1>2. \A r \in Reported' : r \in Nat /\ r < seq
  BY <1>1 DEF LatencyInv
<1>3. latencies \in Seq(Nat) /\ l \in Nat
  BY DEF IInv, StatInv
<1>4. /\ \A k \in 1 .. l : latencies[k] \in Reported /\ latencies[k] >= Warmup
      /\ \A j, k \in 1 .. l : j <= k => latencies[k] - latencies[j] >= k - j
      /\ done <=> l >= Count
  BY DEF LatencyInv
<1>5. CASE ~Measured(f.seq)
  <2>1. latencies' = latencies /\ done' = done
    BY <1>5 DEF OnFrame
  <2> QED  BY <1>1, <1>2, <1>4, <2>1 DEF LatencyInv
<1>6. CASE Measured(f.seq)
  <2>1. latencies' = Append(latencies, f.seq) /\ done' = (done \/ Len(latencies') >= Count)
    BY <1>6 DEF OnFrame, Enough
  <2>2. /\ Len(latencies') = l + 1 /\ latencies'[l + 1] = f.seq
        /\ \A k \in 1 .. l : latencies'[k] = latencies[k]
    BY <1>1, <1>3, <2>1, AppendShape
  <2>3. \A k \in 1 .. l : latencies[k] \in Nat /\ latencies[k] < f.seq
    BY <1>1, <1>4
  <2> HIDE DEF l
  <2>4. \A k \in 1 .. (l + 1) : latencies'[k] \in Reported' /\ latencies'[k] >= Warmup
    <3>1. f.seq >= Warmup
      BY <1>6 DEF Measured
    <3> QED  BY <1>1, <1>3, <1>4, <2>2, <3>1, UpToNext
  <2>5. ASSUME NEW j \in 1 .. (l + 1), NEW k \in 1 .. (l + 1), j <= k
        PROVE  latencies'[k] - latencies'[j] >= k - j
    <3>1. CASE k \in 1 .. l
      <4>1. j \in 1 .. l
        BY <1>3, <2>5, <3>1
      <4> QED  BY <1>4, <2>2, <2>5, <3>1, <4>1
    <3>2. CASE k = l + 1 /\ j = l + 1
      BY <1>1, <1>3, <2>2, <3>2
    <3>3. CASE k = l + 1 /\ j \in 1 .. l
      <4>1. l \in 1 .. l /\ j <= l
        BY <1>3, <3>3
      <4>2. latencies[l] - latencies[j] >= l - j
        BY <1>4, <3>3, <4>1
      <4>3. latencies[l] \in Nat /\ latencies[l] < f.seq /\ latencies[j] \in Nat
        BY <2>3, <3>3, <4>1
      <4>4. f.seq - latencies[j] >= (l + 1) - j
        BY <1>1, <1>3, <4>2, <4>3
      <4> QED  BY <2>2, <3>3, <4>4
    <3> QED  BY <1>3, <3>1, <3>2, <3>3, UpToNext
  <2>6. done' <=> l + 1 >= Count
    <3>1. Count \in Nat /\ (l >= Count => l + 1 >= Count)
      BY <1>3, StreamAssumption
    <3>2. done' <=> done \/ Len(latencies') >= Count
      BY <2>1, Zenon
    <3> QED  BY <1>4, <2>2, <3>1, <3>2, Zenon
  <2> QED  BY <1>2, <2>2, <2>4, <2>5, <2>6 DEF LatencyInv
<1> QED  BY <1>5, <1>6

LEMMA LatencyOthers ==
    ASSUME IInv, LatencyInv, UNCHANGED <<latencies, done, reported>>, seq' \in Nat, seq' >= seq
    PROVE  LatencyInv'
<1>1. Reported' = Reported
  BY DEF Reported
<1>2. seq \in Nat
  BY DEF IInv, PubInv
<1>3. \A r \in Reported : r \in Nat /\ r < seq'
  BY <1>2 DEF LatencyInv
<1> QED  BY <1>1, <1>3 DEF LatencyInv

-----------------------------------------------------------------------------
(* The row a done_ released is the row of a complete measurement.          *)
RowInv ==
    row.cause = "done" =>
        /\ done
        /\ waiter \in {"sized", "exited"} => row.n = Count
        /\ waiter = "exited" => row.samples = Count

LEMMA RowStep ==
    ASSUME IInv, LatencyInv, RowInv,
           \/ EndWait \/ ReadSize \/ PrintRow
           \/ UNCHANGED rowVars /\ (done => done')
    PROVE  RowInv'
<1>1. done => Len(latencies) = Count
  <2>1. Len(latencies) \in Nat /\ Len(latencies) <= Count /\ Count \in Nat
    BY LatenciesFull, StreamAssumption
  <2>2. done => Len(latencies) >= Count
    BY DEF LatencyInv
  <2> QED  BY <2>1, <2>2
<1>2. row \in [n : Nat, samples : Nat, gaps : Nat, cause : {"none", "done", "timeout"}]
  BY DEF IInv, StatInv
<1>3. CASE EndWait
  BY <1>2, <1>3 DEF EndWait, RowInv, statVars
<1>4. CASE ReadSize
  BY <1>1, <1>2, <1>4 DEF ReadSize, RowInv, statVars
<1>5. CASE PrintRow
  BY <1>1, <1>2, <1>5 DEF PrintRow, RowInv, statVars
<1>6. CASE UNCHANGED rowVars /\ (done => done')
  BY <1>6 DEF RowInv, rowVars
<1> QED  BY <1>3, <1>4, <1>5, <1>6

-----------------------------------------------------------------------------
(* The gap count.                                                          *)

Counted == Reported \ {0}

\* The unreported frames between two counted ones.
Missing == {s \in 0 .. Total : s \notin Reported /\ \E a, b \in Counted : a < s /\ s < b}

GapInv ==
    /\ gapCount = Cardinality(Missing)
    /\ lastSeq = 0 => Counted = {}
    /\ lastSeq # 0 => lastSeq \in Counted /\ \A r \in Counted : r <= lastSeq

LEMMA GapInit == Init => GapInv
<1> SUFFICES ASSUME Init PROVE GapInv
  OBVIOUS
<1>1. Reported = {}
  BY DEF Init, Reported
<1>2. Missing = {} /\ Counted = {}
  BY <1>1 DEF Missing, Counted
<1> QED  BY <1>2, FS_EmptySet DEF Init, GapInv

LEMMA GapFrame ==
    ASSUME IInv, LatencyInv, GapInv,
           NEW f \in [seq : Nat, sendNs : Nat], OnFrame(f), Joins(f)
    PROVE  GapInv'
<1>1. PICK s \in Nat : s = f.seq
  OBVIOUS
<1>2. /\ s < seq /\ Reported' = Reported \cup {s}
      /\ \A r \in Reported : r \in Nat /\ r < s
  BY <1>1 DEF Joins
<1>3. seq \in Nat /\ Total \in Nat /\ seq <= Total /\ lastSeq \in Nat /\ gapCount \in Nat
  BY PlanFacts DEF IInv, PubInv, StatInv
<1>4. gapCount' = gapCount + GapGrows(s) /\ lastSeq' = s
  BY <1>1 DEF OnFrame
<1>5. \A r \in Counted : r \in Nat /\ r # 0 /\ r < s
  BY <1>2 DEF Counted
<1>6. CASE s = 0
  <2>1. Reported = {} /\ Counted = {}
    BY <1>2, <1>6 DEF Counted
  <2>2. Counted' = {}
    BY <1>2, <1>6, <2>1 DEF Counted
  <2>3. Missing = {} /\ Missing' = {}
    BY <2>1, <2>2 DEF Missing
  <2>4. GapGrows(s) = 0
    BY <1>3, <1>6 DEF GapGrows, Behind
  <2> QED  BY <1>3, <1>4, <1>6, <2>2, <2>3, <2>4 DEF GapInv
<1>7. CASE s # 0 /\ lastSeq = 0
  <2>1. Counted = {}
    BY <1>7 DEF GapInv
  <2>2. Counted' = {s}
    BY <1>2, <1>7, <2>1 DEF Counted
  <2>3. Missing = {}
    BY <2>1 DEF Missing
  <2>4. Missing' = {}
    <3> SUFFICES ASSUME NEW x \in Missing' PROVE FALSE
      OBVIOUS
    <3>1. x \in Nat /\ s < x /\ x < s
      BY <1>3, <2>2 DEF Missing
    <3> QED  BY <3>1
  <2>5. GapGrows(s) = 0
    BY <1>7 DEF GapGrows, Behind
  <2> QED  BY <1>3, <1>4, <1>7, <2>2, <2>3, <2>4, <2>5 DEF GapInv
<1>8. CASE s # 0 /\ lastSeq # 0
  <2> DEFINE new == (lastSeq + 1) .. (s - 1)
  <2>1. lastSeq \in Counted /\ (\A r \in Counted : r <= lastSeq) /\ lastSeq < s
    BY <1>5, <1>8 DEF GapInv
  <2>2. Counted' = Counted \cup {s}
    BY <1>2, <1>8 DEF Counted
  <2>3. \A x \in new : x \in 0 .. Total /\ lastSeq < x /\ x < s
    BY <1>2, <1>3
  <2>4. \A x \in new : x \notin Reported'
    <3> SUFFICES ASSUME NEW x \in new, x \in Reported' PROVE FALSE
      OBVIOUS
    <3>1. x \in Nat /\ lastSeq < x /\ x < s
      BY <2>3
    <3>2. x \in Reported /\ x # 0
      BY <1>2, <1>3, <3>1
    <3>3. x \in Counted
      BY <3>2 DEF Counted
    <3> QED  BY <1>3, <2>1, <3>1, <3>3
  <2>5. ASSUME NEW x \in Missing
        PROVE  x \in Missing' /\ x \notin new
    <3>1. x \in 0 .. Total /\ x \notin Reported
      BY DEF Missing
    <3>2. PICK a \in Counted, b \in Counted : a < x /\ x < b
      BY DEF Missing
    <3>3. x < lastSeq /\ x # s
      BY <1>3, <1>5, <2>1, <3>1, <3>2
    <3>4. x \notin Reported'
      BY <1>2, <3>1, <3>3
    <3>5. x \notin new
      BY <1>3, <2>3, <3>1, <3>3
    <3> QED  BY <2>2, <3>1, <3>2, <3>4, <3>5, <1>3 DEF Missing
  <2>6. ASSUME NEW x \in new
        PROVE  x \in Missing'
    <3>1. lastSeq \in Counted' /\ s \in Counted' /\ lastSeq < x /\ x < s /\ x \in 0 .. Total
      BY <2>1, <2>2, <2>3
    <3>2. x \notin Reported'
      BY <2>4
    <3> QED  BY <3>1, <3>2 DEF Missing
  <2>7. ASSUME NEW x \in Missing', x \notin new
        PROVE  x \in Missing
    <3>1. x \in 0 .. Total /\ x \notin Reported'
      BY DEF Missing
    <3>2. PICK a \in Counted', b \in Counted' : a < x /\ x < b
      BY DEF Missing
    <3>3. x \notin Reported /\ x # s
      BY <1>2, <3>1
    <3>4. \A y \in Counted' : y \in Nat /\ (y \in Counted \/ y = s) /\ y <= s
      BY <1>5, <2>2
    <3>5. x < s /\ x \in Nat
      BY <1>3, <3>1, <3>2, <3>4
    <3>6. x <= lastSeq
      <4>1. ~(x >= lastSeq + 1 /\ x <= s - 1)
        BY <1>3, <2>7, <3>5
      <4> QED  BY <1>3, <3>5, <4>1
    <3>7. x < lastSeq
      <4>1. x # lastSeq
        BY <2>1, <3>3 DEF Counted
      <4> QED  BY <1>3, <3>5, <3>6, <4>1
    <3>8. a \in Counted
      <4>1. a # s
        BY <3>2, <3>4, <3>5
      <4> QED  BY <3>4, <4>1
    <3> QED  BY <2>1, <3>1, <3>2, <3>3, <3>7, <3>8 DEF Missing
  <2>8. Missing' = Missing \cup new /\ Missing \cap new = {}
    BY <2>5, <2>6, <2>7
  <2>9. IsFiniteSet(new) /\ Cardinality(new) = s - lastSeq - 1
    <3>1. lastSeq + 1 \in Int /\ s - 1 \in Int
      BY <1>3
    <3>2. IsFiniteSet(new) /\ Cardinality(new) = IF lastSeq + 1 > s - 1 THEN 0 ELSE (s - 1) - (lastSeq + 1) + 1
      BY <3>1, FS_Interval
    <3>3. (IF lastSeq + 1 > s - 1 THEN 0 ELSE (s - 1) - (lastSeq + 1) + 1) = s - lastSeq - 1
      BY <1>3, <2>1
    <3> QED  BY <3>2, <3>3
  <2>10. IsFiniteSet(Missing)
    <3>1. 0 \in Int /\ Total \in Int
      BY <1>3
    <3>2. IsFiniteSet(0 .. Total)
      BY <3>1, FS_Interval
    <3>3. Missing \in SUBSET (0 .. Total)
      BY DEF Missing
    <3> QED  BY <3>2, <3>3, FS_Subset
  <2> HIDE DEF new
  <2>11. Cardinality(Missing') = Cardinality(Missing) + Cardinality(new)
    <3>1. Cardinality(Missing \cup new)
            = Cardinality(Missing) + Cardinality(new) - Cardinality(Missing \cap new)
      BY <2>9, <2>10, FS_Union
    <3>2. Cardinality(Missing \cap new) = 0
      BY <2>8, FS_EmptySet
    <3>3. Cardinality(Missing) \in Nat /\ Cardinality(new) \in Nat
      BY <2>9, <2>10, FS_CardinalityType
    <3> QED  BY <2>8, <3>1, <3>2, <3>3
  <2>12. GapGrows(s) = s - lastSeq - 1
    BY <1>3, <1>8, <2>1 DEF GapGrows, Behind
  <2>13. gapCount' = Cardinality(Missing')
    BY <1>4, <2>9, <2>11, <2>12 DEF GapInv
  <2>14. s \in Counted' /\ \A r \in Counted' : r <= s
    BY <1>5, <2>2
  <2> QED  BY <1>4, <1>8, <2>13, <2>14 DEF GapInv
<1> QED  BY <1>6, <1>7, <1>8

LEMMA GapOthers ==
    ASSUME GapInv, UNCHANGED <<gapCount, lastSeq, reported>>
    PROVE  GapInv'
<1>1. Reported' = Reported
  BY DEF Reported
<1>2. Counted' = Counted /\ Missing' = Missing
  BY <1>1 DEF Counted, Missing
<1> QED  BY <1>2 DEF GapInv

-----------------------------------------------------------------------------
(* Recovery: while the chunks of a frame arrive one after the other from   *)
(* chunk 0 on, the tracker follows, whatever it was doing before.          *)

Got(s, i) == \E k \in 1 .. Len(arrived) : IsChunk(arrived[k], s, i)

FollowInv ==
    /\ \A s, i \in Nat :
          (/\ i + 1 < Plan.count
           /\ Len(arrived) >= 1 /\ IsChunk(arrived[Len(arrived)], s, i)
           /\ \A j \in 0 .. i : Got(s, j))
          => tracker.active /\ tracker.seq = s /\ tracker.next = i + 1
    /\ \A s \in Nat : (\A i \in 0 .. (Plan.count - 1) : Got(s, i)) => s \in Reported

LEMMA FollowInit == Init => FollowInv
<1> SUFFICES ASSUME Init PROVE FollowInv
  OBVIOUS
<1>1. Len(arrived) = 0 /\ \A s, i \in Nat : ~Got(s, i)
  BY DEF Init, Got
<1>2. 0 \in 0 .. (Plan.count - 1)
  BY PlanFacts
<1> QED  BY <1>1, <1>2 DEF FollowInv

LEMMA FollowOthers ==
    ASSUME FollowInv, UNCHANGED <<arrived, tracker, reported>>
    PROVE  FollowInv'
<1>1. Reported' = Reported /\ \A s, i \in Nat : Got(s, i)' <=> Got(s, i)
  BY DEF Reported, Got
<1> QED  BY <1>1 DEF FollowInv, Got

LEMMA FollowArrival ==
    ASSUME IInv, OrderInv, FollowInv, Len(chan) >= 1,
           NEW ch \in GenuineChunks, ch = chan[1], arrived' = Append(arrived, ch),
           \/ /\ reported' = reported
              /\ Expects(ch) => /\ ch.index + 1 < Plan.count
                                /\ tracker'.active /\ tracker'.seq = ch.seq
                                /\ tracker'.next = ch.index + 1
           \/ /\ ch.index + 1 = Plan.count
              /\ Reported' = Reported \cup {ch.seq}
    PROVE  FollowInv'
<1> DEFINE l == Len(arrived)
           Here(s, i) == \E k \in 1 .. l : IsChunk(arrived[k], s, i)
           Then(s, i) == \E k \in 1 .. (l + 1) : IsChunk(arrived'[k], s, i)
<1>1. chan \in Seq(GenuineChunks) /\ arrived \in Seq(GenuineChunks)
  BY DEF IInv, NetInv
<1>2. /\ l \in Nat /\ Len(arrived') = l + 1 /\ arrived'[l + 1] = ch
      /\ \A k \in 1 .. l : arrived'[k] = arrived[k]
  BY <1>1, AppendShape
<1>3. \A k \in 1 .. l : Before(arrived[k], ch) /\ arrived[k] \in GenuineChunks
  <2>1. 1 \in 1 .. Len(chan)
    BY <1>1
  <2> QED  BY <1>1, <2>1, ElementOfSeq DEF OrderInv
<1>4. \A j, k \in 1 .. l : j < k => Before(arrived[j], arrived[k])
  BY DEF OrderInv, Rising
<1>5. PICK s \in Nat, i \in Nat, n \in Nat :
        s = ch.seq /\ i = ch.index /\ n = Plan.count /\ i < n
  BY ChunkFields
<1>6. \/ /\ Reported' = Reported
         /\ Expects(ch) => /\ i + 1 < n
                           /\ tracker'.active /\ tracker'.seq = s /\ tracker'.next = i + 1
      \/ i + 1 = n /\ Reported' = Reported \cup {s}
  BY <1>5 DEF Reported
<1>7. (\A t, j \in Nat : Here(t, j) <=> Got(t, j)) /\ (\A t, j \in Nat : Then(t, j) <=> Got(t, j)')
  BY <1>2 DEF Got
<1>8. /\ \A t, j \in Nat : (j + 1 < n /\ l >= 1 /\ IsChunk(arrived[l], t, j) /\ \A m \in 0 .. j : Here(t, m))
                              => tracker.active /\ tracker.seq = t /\ tracker.next = j + 1
      /\ \A t \in Nat : (\A j \in 0 .. (n - 1) : Here(t, j)) => t \in Reported
  BY <1>5, <1>7 DEF FollowInv
<1> HIDE DEF l
<1>9. \A t, j \in Nat : Then(t, j) => Here(t, j) \/ (t = s /\ j = i)
  <2> SUFFICES ASSUME NEW t \in Nat, NEW j \in Nat, Then(t, j), ~(t = s /\ j = i)
               PROVE  Here(t, j)
    OBVIOUS
  <2>1. PICK k \in 1 .. (l + 1) : IsChunk(arrived'[k], t, j)
    OBVIOUS
  <2>2. k # l + 1
    BY <1>2, <1>5, <2>1 DEF IsChunk
  <2> QED  BY <1>2, <2>1, <2>2, UpToNext
<1>10. ASSUME \A j \in 0 .. i : Then(s, j)
       PROVE  Expects(ch)
  <2>1. CASE i = 0
    BY <1>5, <2>1 DEF Expects
  <2>2. CASE i # 0
    <3>1. \A j \in 0 .. (i - 1) : Here(s, j)
      <4> SUFFICES ASSUME NEW j \in 0 .. (i - 1) PROVE Here(s, j)
        OBVIOUS
      <4>1. j \in Nat /\ j \in 0 .. i /\ j # i
        BY <2>2
      <4> QED  BY <1>9, <1>10, <4>1
    <3>2. i - 1 \in Nat /\ i - 1 \in 0 .. (i - 1) /\ (i - 1) + 1 = i
      BY <2>2
    <3>3. PICK k \in 1 .. l : IsChunk(arrived[k], s, i - 1)
      BY <3>1, <3>2
    <3>4. l >= 1 /\ l \in 1 .. l
      BY <1>2, <3>3
    <3>5. k = l
      <4> SUFFICES ASSUME k < l PROVE FALSE
        BY <1>2, <3>3
      <4>1. Before(arrived[k], arrived[l]) /\ Before(arrived[l], ch)
        BY <1>3, <1>4, <3>4
      <4>2. arrived[l].seq \in Nat /\ arrived[l].index \in Nat
        BY <1>3, <3>4, ChunkFields
      <4> QED  BY <1>5, <3>2, <3>3, <4>1, <4>2 DEF Before, IsChunk
    <3>6. tracker.active /\ tracker.seq = s /\ tracker.next = (i - 1) + 1
      <4>1. (i - 1) + 1 < n
        BY <1>5, <3>2
      <4> QED  BY <1>8, <3>1, <3>2, <3>3, <3>4, <3>5, <4>1
    <3> QED  BY <1>5, <3>2, <3>6 DEF Expects
  <2> QED  BY <2>1, <2>2
<1>11. ASSUME NEW t \in Nat, NEW j \in Nat, j + 1 < n, IsChunk(arrived'[l + 1], t, j),
              \A m \in 0 .. j : Then(t, m)
       PROVE  tracker'.active /\ tracker'.seq = t /\ tracker'.next = j + 1
  <2>1. t = s /\ j = i
    BY <1>2, <1>5, <1>11 DEF IsChunk
  <2>2. Expects(ch)
    BY <1>10, <1>11, <2>1
  <2>3. i + 1 # n
    BY <1>11, <2>1
  <2> QED  BY <1>6, <2>1, <2>2, <2>3
<1>12. ASSUME NEW t \in Nat, \A j \in 0 .. (n - 1) : Then(t, j)
       PROVE  t \in Reported'
  <2>1. CASE t # s
    <3>1. \A j \in 0 .. (n - 1) : Here(t, j)
      <4> SUFFICES ASSUME NEW j \in 0 .. (n - 1) PROVE Here(t, j)
        OBVIOUS
      <4>1. j \in Nat
        OBVIOUS
      <4>2. Then(t, j)
        BY <1>12, Zenon
      <4> QED  BY <1>9, <2>1, <4>1, <4>2, Zenon
    <3> QED  BY <1>6, <1>8, <3>1
  <2>2. CASE t = s /\ i + 1 = n
    <3>1. \A j \in 0 .. i : Then(s, j)
      <4>1. \A j \in 0 .. i : j \in 0 .. (n - 1)
        BY <2>2
      <4> QED  BY <1>12, <2>2, <4>1
    <3>2. Expects(ch)
      BY <1>10, <3>1
    <3>3. ~(i + 1 < n)
      BY <2>2
    <3> QED  BY <1>6, <2>2, <3>2, <3>3
  <2>3. CASE t = s /\ i + 1 < n
    <3>1. n - 1 \in Nat /\ n - 1 \in 0 .. (n - 1) /\ n - 1 # i
      BY <2>3
    <3>2. Here(s, n - 1)
      BY <1>9, <1>12, <2>3, <3>1
    <3>3. PICK k \in 1 .. l : IsChunk(arrived[k], s, n - 1)
      BY <3>2
    <3>4. Before(arrived[k], ch)
      BY <1>3
    <3> QED  BY <1>5, <2>3, <3>1, <3>3, <3>4 DEF Before, IsChunk
  <2>4. i + 1 = n \/ i + 1 < n
    BY <1>5
  <2> QED  BY <2>1, <2>2, <2>3, <2>4
<1> HIDE DEF Here, Then
<1>13. \A t, j \in Nat :
          (j + 1 < n /\ IsChunk(arrived'[l + 1], t, j) /\ \A m \in 0 .. j : Got(t, m)')
          => tracker'.active /\ tracker'.seq = t /\ tracker'.next = j + 1
  <2> SUFFICES ASSUME NEW t \in Nat, NEW j \in Nat, j + 1 < n, IsChunk(arrived'[l + 1], t, j),
                      \A m \in 0 .. j : Got(t, m)'
               PROVE  tracker'.active /\ tracker'.seq = t /\ tracker'.next = j + 1
    OBVIOUS
  <2>1. \A m \in 0 .. j : m \in Nat
    OBVIOUS
  <2>2. \A m \in 0 .. j : Then(t, m)
    BY <1>7, <2>1, Zenon
  <2> QED  BY <1>11, <2>2
<1>14. ASSUME NEW t \in Nat, \A j \in 0 .. (n - 1) : Got(t, j)'
       PROVE  t \in Reported'
  <2>1. \A j \in 0 .. (n - 1) : j \in Nat
    OBVIOUS
  <2>2. \A j \in 0 .. (n - 1) : Then(t, j)
    BY <1>7, <1>14, <2>1, Zenon
  <2> QED  BY <1>12, <2>2
<1> QED  BY <1>2, <1>5, <1>13, <1>14 DEF FollowInv

-----------------------------------------------------------------------------
StreamInv == OrderInv /\ LatencyInv /\ RowInv /\ GapInv /\ FollowInv

LEMMA StreamInit == Init => StreamInv
<1>1. Init => RowInv
  BY DEF Init, RowInv, NoRow
<1> QED  BY <1>1, OrderInit, LatencyInit, GapInit, FollowInit DEF StreamInv

LEMMA StreamOnMessage ==
    ASSUME CountFits, IInv, StreamInv, Ordered, OnMessage
    PROVE  StreamInv'
<1> USE DEF StreamInv
<1>1. PICK ch \in GenuineChunks :
             /\ Len(chan) >= 1 /\ ch = chan[1]
             /\ chan' = RemoveAt(chan, 1)
             /\ arrived' = Append(arrived, ch)
             /\ UNCHANGED <<pubVars, net, dups, rowVars>>
             /\ \/ /\ NoFrameYet
                   /\ Expects(ch) => /\ ch.index + 1 < Plan.count
                                     /\ tracker'.active /\ tracker'.seq = ch.seq
                                     /\ tracker'.next = ch.index + 1
                \/ /\ ch.index + 1 = Plan.count
                   /\ \E f \in [seq : Nat, sendNs : Nat] : f.seq = ch.seq /\ OnFrame(f) /\ Joins(f)
  BY ArrivalReports
<1>2. UNCHANGED <<pc, seq, c>> /\ UNCHANGED rowVars
  BY <1>1 DEF pubVars
<1>3. OrderInv'
  BY <1>1, <1>2, OrderArrival
<1>4. seq' \in Nat /\ seq' >= seq
  BY <1>2 DEF IInv, PubInv
<1>5. CASE /\ NoFrameYet
           /\ Expects(ch) => /\ ch.index + 1 < Plan.count
                             /\ tracker'.active /\ tracker'.seq = ch.seq
                             /\ tracker'.next = ch.index + 1
  <2>1. UNCHANGED <<gapCount, lastSeq, latencies, done, reported>>
    BY <1>5 DEF NoFrameYet
  <2>2. LatencyInv' /\ RowInv' /\ GapInv'
    BY <1>2, <1>4, <2>1, LatencyOthers, RowStep, GapOthers
  <2>3. FollowInv'
    BY <1>1, <1>5, <2>1, FollowArrival
  <2> QED  BY <1>3, <2>2, <2>3
<1>6. CASE /\ ch.index + 1 = Plan.count
           /\ \E f \in [seq : Nat, sendNs : Nat] : f.seq = ch.seq /\ OnFrame(f) /\ Joins(f)
  <2>1. PICK f \in [seq : Nat, sendNs : Nat] : f.seq = ch.seq /\ OnFrame(f) /\ Joins(f)
    BY <1>6
  <2>2. LatencyInv' /\ GapInv'
    BY <1>2, <2>1, LatencyFrame, GapFrame
  <2>3. done => done'
    BY <2>1 DEF OnFrame
  <2>4. RowInv'
    BY <1>2, <2>3, RowStep
  <2>5. Reported' = Reported \cup {ch.seq}
    BY <2>1 DEF Joins
  <2>6. FollowInv'
    BY <1>1, <1>6, <2>5, FollowArrival
  <2> QED  BY <1>3, <2>2, <2>4, <2>6
<1> QED  BY <1>1, <1>5, <1>6

(* No other action touches the tracker, the histories or the statistics.   *)
LEMMA StreamOthers ==
    ASSUME CountFits, IInv, StreamInv, Ordered, [Next]_vars, ~OnMessage
    PROVE  StreamInv'
<1> USE DEF StreamInv
<1>1. UNCHANGED <<statVars, histVars>>
  BY DEF Next, StartFrame, Notify, StopPublisher, Lose, Duplicate, EndWait, ReadSize, PrintRow, vars
<1>2. seq \in Nat /\ seq' \in Nat /\ seq' >= seq
  <2>1. seq \in Nat
    BY DEF IInv, PubInv
  <2>2. seq' = seq \/ seq' = seq + 1
    BY DEF Next, StartFrame, Notify, StopPublisher, Lose, Duplicate, EndWait, ReadSize, PrintRow,
           vars, pubVars
  <2> QED  BY <2>1, <2>2
<1>3. LatencyInv' /\ GapInv' /\ FollowInv'
  BY <1>1, <1>2, LatencyOthers, GapOthers, FollowOthers DEF statVars, histVars
<1>4. RowInv'
  <2>1. (EndWait \/ ReadSize \/ PrintRow) \/ UNCHANGED rowVars
    BY DEF Next, StartFrame, Notify, StopPublisher, Lose, Duplicate, vars
  <2>2. done' = done
    BY <1>1 DEF statVars
  <2> QED  BY <2>1, <2>2, RowStep
<1>5. OrderInv'
  <2>1. CASE Notify
    BY <2>1, OrderNotify
  <2>2. CASE Lose
    BY <2>2, OrderLose
  <2>3. CASE StartFrame \/ StopPublisher
    <3>1. UNCHANGED <<chan, arrived, seq>> /\ pc # "notify"
      BY <2>3 DEF StartFrame, StopPublisher, netVars, histVars
    <3> QED  BY <3>1, OrderOthers
  <2>4. CASE EndWait \/ ReadSize \/ PrintRow \/ UNCHANGED vars
    <3>1. UNCHANGED <<chan, arrived, seq, pc, c>>
      BY <2>4 DEF EndWait, ReadSize, PrintRow, vars, pubVars, netVars, histVars
    <3> QED  BY <3>1, OrderOthers
  <2>5. ~Duplicate
    BY DEF Duplicate
  <2> QED  BY <2>1, <2>2, <2>3, <2>4, <2>5 DEF Next
<1> QED  BY <1>3, <1>4, <1>5

LEMMA StreamHolds == ASSUME CountFits PROVE Spec => [](IInv /\ (Ordered => StreamInv))
<1>1. Init => (Ordered => StreamInv)
  BY StreamInit
<1>2. IInv /\ (Ordered => StreamInv) /\ [Next]_vars => (Ordered => StreamInv)'
  <2> SUFFICES ASSUME IInv, Ordered => StreamInv, [Next]_vars, Ordered'
               PROVE  StreamInv'
    OBVIOUS
  <2>1. net' = net
    BY DEF Next, StartFrame, Notify, StopPublisher, Lose, Duplicate, OnMessage, EndWait, ReadSize,
           PrintRow, vars, netVars
  <2>2. Ordered /\ StreamInv
    BY <2>1 DEF Ordered
  <2> QED  BY <2>2, StreamOnMessage, StreamOthers
<1> QED  BY <1>1, <1>2, IInvHolds, PTL DEF Spec

-----------------------------------------------------------------------------
(* The tracker recovers: a frame all of whose chunks came in is reported,  *)
(* whatever was lost before it.                                            *)
THEOREM ArrivedFramesAreReported == ASSUME CountFits PROVE Spec => []ArrivedIsReported
<1>1. ASSUME Ordered => StreamInv PROVE ArrivedIsReported
  <2> SUFFICES ASSUME Ordered, NEW s \in 0 .. (Total - 1),
                      \A i \in 0 .. (Plan.count - 1) : \E k \in 1 .. Len(arrived) : IsChunk(arrived[k], s, i)
               PROVE  s \in Reported
    BY DEF ArrivedIsReported
  <2>1. s \in Nat /\ \A i \in 0 .. (Plan.count - 1) : Got(s, i)
    BY PlanFacts DEF Got
  <2> QED  BY <1>1, <2>1 DEF StreamInv, FollowInv
<1> QED  BY <1>1, StreamHolds, PTL

(* gap_count_ is the number of frames missing between the first and the    *)
(* last counted one.                                                       *)
THEOREM GapsAreExact == ASSUME CountFits PROVE Spec => []GapExact
<1>1. (Ordered => StreamInv) => GapExact
  BY DEF StreamInv, GapInv, GapExact, Missing, Counted
<1> QED  BY <1>1, StreamHolds, PTL

(* done_ is raised only when every measured frame was reported, and the    *)
(* row it releases has Count latencies, read without the mutex or not.     *)
THEOREM DoneIsComplete == ASSUME CountFits PROVE Spec => []DoneMeansComplete
<1>1. ASSUME IInv, Ordered => StreamInv PROVE DoneMeansComplete
  BY <1>1, LatenciesFull DEF DoneMeansComplete, StreamInv, RowInv
<1> QED  BY <1>1, StreamHolds, PTL

-----------------------------------------------------------------------------
\* What the refinement mapping makes of the reports.
Delivered == [k \in 1 .. Len(reported) |->
                 [seq |-> reported[k].seq, sendNs |-> reported[k].sendNs]]

(* A completed frame is one delivery, of a frame published before.         *)
LEMMA ReportDelivers ==
    ASSUME CountFits, IInv, StreamInv, Ordered, OnMessage, seq' = seq
    PROVE  Delivery!Deliver \/ UNCHANGED Delivery!dvars
<1>1. PICK ch \in GenuineChunks :
             /\ arrived' = Append(arrived, ch)
             /\ \/ NoFrameYet
                \/ \E f \in [seq : Nat, sendNs : Nat] : OnFrame(f) /\ Joins(f)
  BY ArrivalReports DEF StreamInv
<1>2. CASE NoFrameYet
  BY <1>2 DEF NoFrameYet, Delivery!dvars
<1>3. ASSUME NEW f \in [seq : Nat, sendNs : Nat], OnFrame(f), Joins(f)
      PROVE  Delivery!Deliver
  <2> DEFINE m == Len(reported)
             s == f.seq
             new == [seq |-> s, sendNs |-> s + 1]
  <2>1. reported \in Seq(Reports) /\ m \in Nat /\ arrived \in Seq(GenuineChunks)
    BY DEF IInv, ReportInv, NetInv
  <2>2. Len(arrived') \in Nat
    <3>1. Len(arrived') = Len(arrived) + 1 /\ Len(arrived) \in Nat
      BY <1>1, <2>1, AppendShape
    <3> QED  BY <3>1
  <2>3. PICK r \in Reports : r.seq = s /\ r.sendNs = f.sendNs /\ reported' = Append(reported, r)
    <3>1. reported' = Append(reported, [seq |-> s, sendNs |-> f.sendNs, at |-> Len(arrived')])
      BY <1>3 DEF OnFrame
    <3>2. PICK r \in Reports : r = [seq |-> s, sendNs |-> f.sendNs, at |-> Len(arrived')]
      BY <2>2 DEF Reports
    <3> QED  BY <3>1, <3>2
  <2>4. /\ Len(reported') = m + 1 /\ reported'[m + 1] = r
        /\ \A k \in 1 .. m : reported'[k] = reported[k]
    BY <2>1, <2>3, AppendShape
  <2>5. r.sendNs = s + 1
    <3>1. OwnStamp'
      BY OnMessageInv DEF IInv
    <3>2. reported'[m + 1].sendNs = reported'[m + 1].seq + 1
      BY <2>1, <2>4, <3>1 DEF OwnStamp
    <3> QED  BY <2>3, <2>4, <3>2
  <2>6. s \in 0 .. (seq - 1) /\ \A k \in 1 .. m : reported[k].seq < s
    <3>1. s \in Nat /\ s < seq /\ seq \in Nat
      BY <1>3 DEF Joins, IInv, PubInv
    <3>2. \A k \in 1 .. m : reported[k].seq \in Reported
      BY DEF Reported
    <3> QED  BY <1>3, <3>1, <3>2 DEF Joins
  <2>7. /\ DOMAIN Delivered = 1 .. m /\ Len(Delivered) = m
        /\ Delivered \in Seq([seq : Nat, sendNs : Nat])
        /\ \A k \in 1 .. m : Delivered[k].seq = reported[k].seq
    <3>1. \A k \in 1 .. m : reported[k].seq \in Nat /\ reported[k].sendNs \in Nat
      <4>1. \A k \in 1 .. m : reported[k] \in Reports
        BY <2>1, ElementOfSeq
      <4> QED  BY <4>1 DEF Reports
    <3> QED  BY <2>1, <3>1 DEF Delivered
  <2> HIDE DEF m
  <2>8. Delivered' = Append(Delivered, new)
    <3> DEFINE T == [seq : Nat, sendNs : Nat]
    <3>1. new \in T
      OBVIOUS
    <3>2. Delivered' = [k \in 1 .. (m + 1) |-> [seq |-> reported'[k].seq, sendNs |-> reported'[k].sendNs]]
      BY <2>4 DEF Delivered
    <3>3. \A k \in 1 .. (m + 1) : [seq |-> reported'[k].seq, sendNs |-> reported'[k].sendNs] \in T
      <4>1. \A k \in 1 .. (m + 1) : reported'[k] \in Reports
        <5>1. \A k \in 1 .. m : reported[k] \in Reports
          BY <2>1, ElementOfSeq DEF m
        <5> QED  BY <2>1, <2>4, <5>1, UpToNext
      <4> QED  BY <4>1 DEF Reports
    <3>4. Delivered' \in Seq(T) /\ Len(Delivered') = m + 1
      BY <2>1, <3>2, <3>3
    <3>5. /\ Append(Delivered, new) \in Seq(T) /\ Len(Append(Delivered, new)) = m + 1
          /\ Append(Delivered, new)[m + 1] = new
          /\ \A k \in 1 .. m : Append(Delivered, new)[k] = Delivered[k]
      BY <2>7, <3>1, AppendShape
    <3>6. ASSUME NEW k \in 1 .. (m + 1)
          PROVE  Delivered'[k] = Append(Delivered, new)[k]
      <4>1. Delivered'[k] = [seq |-> reported'[k].seq, sendNs |-> reported'[k].sendNs]
        BY <3>2
      <4>2. CASE k = m + 1
        BY <2>3, <2>4, <2>5, <3>5, <4>1, <4>2
      <4>3. CASE k \in 1 .. m
        <5>1. Delivered[k] = [seq |-> reported[k].seq, sendNs |-> reported[k].sendNs]
          BY <4>3 DEF Delivered, m
        <5> QED  BY <2>4, <3>5, <4>1, <4>3, <5>1
      <4> QED  BY <2>1, <4>2, <4>3, UpToNext
    <3> HIDE DEF T
    <3> QED  BY <3>4, <3>5, <3>6, SeqEqual
  <2>9. \A k \in 1 .. Len(Delivered) : Delivered[k].seq < s
    BY <2>6, <2>7
  <2> HIDE DEF s
  <2> QED  BY <2>6, <2>8, <2>9 DEF Delivery!Deliver, Delivery!StampOf, Delivered
<1> QED  BY <1>1, <1>2, <1>3

(* The last chunk of a frame publishes it.                                 *)
LEMMA OthersPublish ==
    ASSUME IInv, [Next]_vars, ~OnMessage
    PROVE  Delivery!Publish \/ UNCHANGED Delivery!dvars
<1>1. reported' = reported
  BY DEF Next, StartFrame, Notify, StopPublisher, Lose, Duplicate, EndWait, ReadSize, PrintRow,
         vars, histVars
<1>2. CASE seq' = seq
  BY <1>1, <1>2 DEF Delivery!dvars
<1>3. CASE seq' # seq
  <2>1. Notify
    BY <1>3 DEF Next, StartFrame, StopPublisher, Lose, Duplicate, EndWait, ReadSize, PrintRow,
                vars, pubVars
  <2>2. seq' = seq + 1 /\ seq < Total
    BY <1>3, <2>1 DEF Notify, IInv, PubInv
  <2> QED  BY <1>1, <2>2 DEF Delivery!Publish
<1> QED  BY <1>2, <1>3

(* On an ordered network the stream implements FrameDelivery: every step   *)
(* is a publication, a delivery or invisible to it.                        *)
THEOREM DeliveryIsImplemented == ASSUME CountFits PROVE Spec => ImplementsDelivery
<1>1. Init => Delivery!Init
  <2> SUFFICES ASSUME Init PROVE Delivery!Init
    OBVIOUS
  <2>1. seq = 0 /\ Delivered = <<>>
    BY DEF Init, Delivered
  <2> QED  BY <2>1 DEF Delivery!Init, Delivered
<1>2. IInv /\ (Ordered => StreamInv) /\ [Next]_vars
        => [Ordered => Delivery!Next]_(Delivery!dvars)
  <2> SUFFICES ASSUME IInv, Ordered => StreamInv, [Next]_vars, Ordered
               PROVE  Delivery!Next \/ UNCHANGED Delivery!dvars
    OBVIOUS
  <2>1. CASE OnMessage
    <3>1. seq' = seq
      BY <2>1 DEF OnMessage, pubVars
    <3> QED  BY <2>1, <3>1, ReportDelivers DEF Delivery!Next
  <2>2. CASE ~OnMessage
    BY <2>2, OthersPublish DEF Delivery!Next
  <2> QED  BY <2>1, <2>2
<1> QED  BY <1>1, <1>2, StreamHolds, PTL DEF Spec, ImplementsDelivery

-----------------------------------------------------------------------------
(***************************************************************************)
(* What an unordered network can do to the count of latencies: the chunks  *)
(* that were duplicated are counted, those under way and those that        *)
(* arrived against the different ones among them.                          *)
(***************************************************************************)
Key(ch) == <<ch.seq, ch.index>>

Keys(q) == {Key(q[k]) : k \in 1 .. Len(q)}

Traffic == Keys(chan) \cup Keys(arrived)

\* A chunk beyond the first of its kind was duplicated.
CopyInv ==
    /\ \A x \in Traffic : x[1] < seq \/ (x[1] = seq /\ pc = "notify" /\ x[2] < c)
    /\ Len(chan) + Len(arrived) <= Cardinality(Traffic) + dups

\* Chunks of a frame that is being assembled once more.
Reassembled == IF tracker.active /\ tracker.seq \in Reported THEN tracker.next ELSE 0

Repeats == Len(reported) - Cardinality(Reported)

\* Each report beyond a frame's first, and the one being made, costs arrivals
\* that were there before.
CostInv ==
    Repeats * Plan.count + Reassembled + Cardinality(Keys(arrived)) <= Len(arrived)

-----------------------------------------------------------------------------
LEMMA KeysCount ==
    ASSUME NEW S, NEW q \in Seq(S)
    PROVE  /\ IsFiniteSet(Keys(q))
           /\ Cardinality(Keys(q)) \in Nat /\ Cardinality(Keys(q)) <= Len(q)
           /\ Len(q) \in Nat
<1> DEFINE n == Len(q)
           f == [k \in 1 .. n |-> Key(q[k])]
<1>1. n \in Nat
  OBVIOUS
<1>2. f \in Surjection(1 .. n, Keys(q))
  BY DEF Keys, Surjection
<1>3. IsFiniteSet(1 .. n) /\ Cardinality(1 .. n) = n
  BY <1>1, FS_Interval
<1> HIDE DEF f, n
<1>4. IsFiniteSet(Keys(q)) /\ Cardinality(Keys(q)) <= n
  BY <1>2, <1>3, FS_Surjection
<1>5. Cardinality(Keys(q)) \in Nat
  BY <1>4, FS_CardinalityType
<1> QED  BY <1>1, <1>4, <1>5 DEF n

LEMMA KeysAppend ==
    ASSUME NEW S, NEW q \in Seq(S), NEW e \in S
    PROVE  Keys(Append(q, e)) = Keys(q) \cup {Key(e)}
<1> DEFINE r == Append(q, e)
           n == Len(q)
<1>1. n \in Nat /\ Len(r) = n + 1 /\ r[n + 1] = e /\ \A k \in 1 .. n : r[k] = q[k]
  BY AppendShape
<1> HIDE DEF r
<1>2. Keys(r) = {Key(r[k]) : k \in 1 .. (n + 1)}
  BY <1>1 DEF Keys
<1>3. Keys(q) = {Key(q[k]) : k \in 1 .. n}
  BY DEF Keys
<1> HIDE DEF n
<1>4. n + 1 \in 1 .. (n + 1) /\ \A k \in 1 .. n : k \in 1 .. (n + 1)
  BY <1>1
<1>5. Keys(r) = Keys(q) \cup {Key(e)}
  BY <1>1, <1>2, <1>3, <1>4, UpToNext
<1> QED  BY <1>5 DEF r

(* A chunk that leaves the queue, from whatever place.                     *)
LEMMA RemoveShape ==
    ASSUME NEW S, NEW q \in Seq(S), NEW k \in 1 .. Len(q)
    PROVE  /\ RemoveAt(q, k) \in Seq(S)
           /\ Len(RemoveAt(q, k)) = Len(q) - 1
           /\ \A j \in 1 .. (Len(q) - 1) : RemoveAt(q, k)[j] = q[IF j < k THEN j ELSE j + 1]
<1> DEFINE l == Len(q)
           a == SubSeq(q, 1, k - 1)
           z == SubSeq(q, k + 1, l)
<1>1. l \in Nat /\ k \in 1 .. l
  OBVIOUS
<1>2. \A i \in 1 .. (k - 1) : q[i] \in S
  BY <1>1, ElementOfSeq
<1>3. \A i \in (k + 1) .. l : q[i] \in S
  BY <1>1, ElementOfSeq
<1>4. a \in Seq(S) /\ Len(a) = k - 1 /\ \A i \in 1 .. (k - 1) : a[i] = q[i]
  <2>1. /\ a \in Seq(S) /\ Len(a) = (IF 1 <= k - 1 THEN k - 1 - 1 + 1 ELSE 0)
        /\ \A i \in 1 .. k - 1 - 1 + 1 : a[i] = q[1 + i - 1]
    BY <1>1, <1>2, SubSeqProperties
  <2> HIDE DEF a
  <2>2. Len(a) = k - 1
    BY <1>1, <2>1
  <2>3. ASSUME NEW i \in 1 .. (k - 1) PROVE a[i] = q[i]
    <3>1. i \in 1 .. k - 1 - 1 + 1 /\ 1 + i - 1 = i
      BY <1>1
    <3> QED  BY <2>1, <3>1
  <2> QED  BY <2>1, <2>2, <2>3
<1>5. z \in Seq(S) /\ Len(z) = l - k /\ \A i \in 1 .. (l - k) : z[i] = q[k + i]
  <2>1. /\ z \in Seq(S) /\ Len(z) = (IF k + 1 <= l THEN l - (k + 1) + 1 ELSE 0)
        /\ \A i \in 1 .. l - (k + 1) + 1 : z[i] = q[(k + 1) + i - 1]
    BY <1>1, <1>3, SubSeqProperties
  <2> HIDE DEF z
  <2>2. Len(z) = l - k
    BY <1>1, <2>1
  <2>3. ASSUME NEW i \in 1 .. (l - k) PROVE z[i] = q[k + i]
    <3>1. i \in 1 .. l - (k + 1) + 1 /\ (k + 1) + i - 1 = k + i
      BY <1>1
    <3> QED  BY <2>1, <3>1
  <2> QED  BY <2>1, <2>2, <2>3
<1>6. RemoveAt(q, k) = a \o z
  BY DEF RemoveAt
<1> HIDE DEF a, z, l
<1>7. /\ a \o z \in Seq(S) /\ Len(a \o z) = Len(a) + Len(z)
      /\ \A i \in 1 .. Len(a) + Len(z) : (a \o z)[i] = IF i <= Len(a) THEN a[i] ELSE z[i - Len(a)]
  BY <1>4, <1>5, ConcatProperties
<1>8. Len(a) + Len(z) = l - 1
  BY <1>1, <1>4, <1>5
<1>9. ASSUME NEW j \in 1 .. (l - 1)
      PROVE  (a \o z)[j] = q[IF j < k THEN j ELSE j + 1]
  <2>1. (a \o z)[j] = IF j <= k - 1 THEN a[j] ELSE z[j - (k - 1)]
    BY <1>4, <1>7, <1>8
  <2>2. CASE j < k
    <3>1. j <= k - 1 /\ j \in 1 .. (k - 1)
      BY <1>1, <2>2
    <3> QED  BY <1>4, <2>1, <2>2, <3>1
  <2>3. CASE ~(j < k)
    <3>1. /\ ~(j <= k - 1) /\ j - (k - 1) \in 1 .. (l - k) /\ k + (j - (k - 1)) = j + 1
      BY <1>1, <2>3
    <3> QED  BY <1>5, <2>1, <2>3, <3>1
  <2> QED  BY <2>2, <2>3
<1> QED  BY <1>6, <1>7, <1>8, <1>9 DEF l

LEMMA KeysRemove ==
    ASSUME NEW S, NEW q \in Seq(S), NEW k \in 1 .. Len(q)
    PROVE  Keys(q) = Keys(RemoveAt(q, k)) \cup {Key(q[k])}
<1> DEFINE r == RemoveAt(q, k)
           l == Len(q)
<1>1. /\ l \in Nat /\ k \in 1 .. l /\ Len(r) = l - 1
      /\ \A j \in 1 .. (l - 1) : r[j] = q[IF j < k THEN j ELSE j + 1]
  BY RemoveShape
<1> HIDE DEF r, l
<1>2. ASSUME NEW j \in 1 .. (l - 1)
      PROVE  \E i \in 1 .. l : r[j] = q[i]
  <2>1. (IF j < k THEN j ELSE j + 1) \in 1 .. l
    BY <1>1
  <2> QED  BY <1>1, <2>1
<1>3. ASSUME NEW i \in 1 .. l, i # k
      PROVE  \E j \in 1 .. (l - 1) : r[j] = q[i]
  <2>1. CASE i < k
    <3>1. i \in 1 .. (l - 1)
      BY <1>1, <2>1
    <3> QED  BY <1>1, <2>1, <3>1
  <2>2. CASE i > k
    <3>1. i - 1 \in 1 .. (l - 1) /\ ~(i - 1 < k) /\ (i - 1) + 1 = i
      BY <1>1, <2>2
    <3> QED  BY <1>1, <3>1
  <2> QED  BY <1>1, <1>3, <2>1, <2>2
<1>4. Keys(r) = {Key(r[j]) : j \in 1 .. (l - 1)} /\ Keys(q) = {Key(q[i]) : i \in 1 .. l}
  BY <1>1 DEF Keys, l
<1>5. Keys(q) = Keys(r) \cup {Key(q[k])}
  BY <1>1, <1>2, <1>3, <1>4
<1> QED  BY <1>5 DEF r

(* A datagram that comes twice.                                            *)
LEMMA KeysInsert ==
    ASSUME NEW S, NEW q \in Seq(S), NEW k \in 1 .. Len(q)
    PROVE  LET r == InsertAt(q, k, q[k])
           IN  Len(r) = Len(q) + 1 /\ Keys(r) = Keys(q)
<1> DEFINE r == InsertAt(q, k, q[k])
           l == Len(q)
           a == SubSeq(q, 1, k - 1)
           b == a \o <<q[k]>>
           z == SubSeq(q, k, l)
<1>1. l \in Nat /\ k \in 1 .. l /\ q[k] \in S
  BY ElementOfSeq
<1>2. \A i \in 1 .. (k - 1) : q[i] \in S
  BY <1>1, ElementOfSeq
<1>3. \A i \in k .. l : q[i] \in S
  BY <1>1, ElementOfSeq
<1>4. a \in Seq(S) /\ Len(a) = k - 1 /\ \A i \in 1 .. (k - 1) : a[i] = q[i]
  <2>1. /\ a \in Seq(S) /\ Len(a) = (IF 1 <= k - 1 THEN k - 1 - 1 + 1 ELSE 0)
        /\ \A i \in 1 .. k - 1 - 1 + 1 : a[i] = q[1 + i - 1]
    BY <1>1, <1>2, SubSeqProperties
  <2> HIDE DEF a
  <2>2. Len(a) = k - 1
    BY <1>1, <2>1
  <2>3. ASSUME NEW i \in 1 .. (k - 1) PROVE a[i] = q[i]
    <3>1. i \in 1 .. k - 1 - 1 + 1 /\ 1 + i - 1 = i
      BY <1>1
    <3> QED  BY <2>1, <3>1
  <2> QED  BY <2>1, <2>2, <2>3
<1>5. z \in Seq(S) /\ Len(z) = l - k + 1 /\ \A i \in 1 .. (l - k + 1) : z[i] = q[k + i - 1]
  <2>1. /\ z \in Seq(S) /\ Len(z) = (IF k <= l THEN l - k + 1 ELSE 0)
        /\ \A i \in 1 .. l - k + 1 : z[i] = q[k + i - 1]
    BY <1>1, <1>3, SubSeqProperties
  <2> HIDE DEF z
  <2> QED  BY <1>1, <2>1
<1>6. r = b \o z
  BY DEF InsertAt
<1> HIDE DEF r, a, z, l
<1>7. b \in Seq(S) /\ Len(b) = k /\ \A i \in 1 .. k : b[i] = q[i]
  <2>1. <<q[k]>> \in Seq(S) /\ Len(<<q[k]>>) = 1 /\ <<q[k]>>[1] = q[k]
    BY <1>1
  <2>2. PICK e : e = <<q[k]>>
    OBVIOUS
  <2>3. /\ a \o e \in Seq(S) /\ Len(a \o e) = Len(a) + Len(e)
        /\ \A i \in 1 .. Len(a) + Len(e) : (a \o e)[i] = IF i <= Len(a) THEN a[i] ELSE e[i - Len(a)]
    BY <1>4, <2>1, <2>2, ConcatProperties
  <2>4. b = a \o e
    BY <2>2
  <2> HIDE DEF b
  <2>5. Len(a) + Len(e) = k
    BY <1>1, <1>4, <2>1, <2>2
  <2>6. ASSUME NEW i \in 1 .. k PROVE b[i] = q[i]
    <3>1. b[i] = IF i <= k - 1 THEN a[i] ELSE e[i - (k - 1)]
      BY <1>4, <2>3, <2>4, <2>5
    <3>2. CASE i <= k - 1
      <4>1. i \in 1 .. (k - 1)
        BY <3>2
      <4> QED  BY <1>4, <3>1, <3>2, <4>1
    <3>3. CASE ~(i <= k - 1)
      <4>1. i = k /\ i - (k - 1) = 1
        BY <1>1, <3>3
      <4> QED  BY <2>1, <2>2, <3>1, <3>3, <4>1
    <3> QED  BY <3>2, <3>3
  <2> QED  BY <2>3, <2>4, <2>5, <2>6
<1> HIDE DEF b
<1>8. /\ Len(b \o z) = Len(b) + Len(z)
      /\ \A i \in 1 .. Len(b) + Len(z) : (b \o z)[i] = IF i <= Len(b) THEN b[i] ELSE z[i - Len(b)]
  BY <1>5, <1>7, ConcatProperties
<1>9. Len(r) = l + 1
  BY <1>1, <1>5, <1>6, <1>7, <1>8
<1>10. ASSUME NEW j \in 1 .. (l + 1)
       PROVE  r[j] = q[IF j <= k THEN j ELSE j - 1]
  <2>1. r[j] = IF j <= k THEN b[j] ELSE z[j - k]
    BY <1>1, <1>5, <1>6, <1>7, <1>8
  <2>2. CASE j <= k
    <3>1. j \in 1 .. k
      BY <1>1, <2>2
    <3> QED  BY <1>7, <2>1, <2>2, <3>1
  <2>3. CASE ~(j <= k)
    <3>1. j - k \in 1 .. (l - k + 1) /\ k + (j - k) - 1 = j - 1
      BY <1>1, <2>3
    <3> QED  BY <1>5, <2>1, <2>3, <3>1
  <2> QED  BY <2>2, <2>3
<1>11. \A j \in 1 .. (l + 1) : \E i \in 1 .. l : r[j] = q[i]
  <2> SUFFICES ASSUME NEW j \in 1 .. (l + 1) PROVE \E i \in 1 .. l : r[j] = q[i]
    OBVIOUS
  <2>1. (IF j <= k THEN j ELSE j - 1) \in 1 .. l
    BY <1>1
  <2> QED  BY <1>10, <2>1
<1>12. \A i \in 1 .. l : \E j \in 1 .. (l + 1) : r[j] = q[i]
  <2> SUFFICES ASSUME NEW i \in 1 .. l PROVE \E j \in 1 .. (l + 1) : r[j] = q[i]
    OBVIOUS
  <2>1. CASE i <= k
    <3>1. i \in 1 .. (l + 1)
      BY <1>1
    <3> QED  BY <1>10, <2>1, <3>1
  <2>2. CASE ~(i <= k)
    <3>1. i + 1 \in 1 .. (l + 1) /\ ~(i + 1 <= k) /\ (i + 1) - 1 = i
      BY <1>1, <2>2
    <3> QED  BY <1>10, <3>1
  <2> QED  BY <2>1, <2>2
<1>13. Keys(r) = {Key(r[j]) : j \in 1 .. (l + 1)} /\ Keys(q) = {Key(q[i]) : i \in 1 .. l}
  BY <1>9 DEF Keys, l
<1>14. Keys(r) = Keys(q)
  BY <1>11, <1>12, <1>13
<1> QED  BY <1>9, <1>14 DEF r, l

LEMMA TrafficFacts ==
    ASSUME IInv
    PROVE  /\ chan \in Seq(GenuineChunks) /\ arrived \in Seq(GenuineChunks)
           /\ Len(chan) \in Nat /\ Len(arrived) \in Nat /\ dups \in Nat
           /\ IsFiniteSet(Traffic) /\ Cardinality(Traffic) \in Nat
           /\ \A x \in Traffic : x[1] \in Nat /\ x[2] \in Nat
           /\ Cardinality(Keys(arrived)) \in Nat /\ IsFiniteSet(Keys(arrived))
           /\ Cardinality(Traffic) <= Len(chan) + Cardinality(Keys(arrived))
<1>1. chan \in Seq(GenuineChunks) /\ arrived \in Seq(GenuineChunks) /\ dups \in Nat
  BY StreamAssumption DEF IInv, NetInv, StatInv
<1>2. /\ IsFiniteSet(Keys(chan)) /\ Cardinality(Keys(chan)) \in Nat
      /\ Cardinality(Keys(chan)) <= Len(chan) /\ Len(chan) \in Nat
  BY <1>1, KeysCount
<1>3. /\ IsFiniteSet(Keys(arrived)) /\ Cardinality(Keys(arrived)) \in Nat
      /\ Len(arrived) \in Nat
  BY <1>1, KeysCount
<1>4. /\ IsFiniteSet(Traffic)
      /\ Cardinality(Traffic) =
           Cardinality(Keys(chan)) + Cardinality(Keys(arrived)) - Cardinality(Keys(chan) \cap Keys(arrived))
  BY <1>2, <1>3, FS_Union DEF Traffic
<1>5. Cardinality(Keys(chan) \cap Keys(arrived)) \in Nat
  BY <1>2, FS_Intersection, FS_CardinalityType
<1>6. Cardinality(Traffic) \in Nat
  BY <1>4, FS_CardinalityType
<1>7. ASSUME NEW x \in Traffic PROVE x[1] \in Nat /\ x[2] \in Nat
  <2>1. PICK ch \in GenuineChunks : x = Key(ch)
    BY <1>1, ElementOfSeq DEF Traffic, Keys
  <2> QED  BY <2>1, ChunkFields DEF Key
<1> QED  BY <1>1, <1>2, <1>3, <1>4, <1>5, <1>6, <1>7

LEMMA ReportedCount ==
    ASSUME IInv
    PROVE  /\ IsFiniteSet(Reported) /\ Cardinality(Reported) \in Nat
           /\ reported \in Seq(Reports) /\ Len(reported) \in Nat
<1> DEFINE n == Len(reported)
           f == [k \in 1 .. n |-> reported[k].seq]
<1>1. reported \in Seq(Reports) /\ n \in Nat
  BY DEF IInv, ReportInv
<1>2. f \in Surjection(1 .. n, Reported)
  BY DEF Reported, Surjection
<1>3. IsFiniteSet(1 .. n)
  BY <1>1, FS_Interval
<1> HIDE DEF f, n
<1>4. IsFiniteSet(Reported)
  BY <1>2, <1>3, FS_Surjection
<1> QED  BY <1>1, <1>4, FS_CardinalityType DEF n

(* A repeated frame is paid for by copies.                                 *)
LEMMA CopiesPay ==
    ASSUME IInv, CopyInv, CostInv
    PROVE  RepeatsCostCopies
<1>1. Reassembled \in Nat
  BY U16Facts DEF Reassembled, IInv, TrackerInv, Trackers
<1>2. PICK x \in Int : x = Repeats * Plan.count
  BY ReportedCount, PlanFacts DEF Repeats
<1>3. x <= dups
  BY <1>1, <1>2, TrafficFacts DEF CopyInv, CostInv
<1> QED  BY <1>2, <1>3 DEF RepeatsCostCopies, Repeats

LEMMA CopyInit == Init => CopyInv /\ CostInv
<1> SUFFICES ASSUME Init PROVE CopyInv /\ CostInv
  OBVIOUS
<1>1. chan = <<>> /\ arrived = <<>> /\ reported = <<>> /\ dups = 0 /\ ~tracker.active
  BY DEF Init, TrackerInit
<1>2. Len(chan) = 0 /\ Len(arrived) = 0 /\ Len(reported) = 0
  BY <1>1
<1>3. Keys(chan) = {} /\ Keys(arrived) = {} /\ Reported = {}
  BY <1>2 DEF Keys, Reported
<1>4. Traffic = {} /\ Cardinality({}) = 0
  BY <1>3, FS_EmptySet DEF Traffic
<1>5. Reassembled = 0 /\ Repeats = 0
  BY <1>1, <1>2, <1>3, <1>4 DEF Reassembled, Repeats
<1>6. 0 * Plan.count = 0
  BY PlanFacts
<1>7. CopyInv
  <2>1. Cardinality(Traffic) = 0 /\ \A x \in Traffic : FALSE
    BY <1>4
  <2> QED  BY <1>1, <1>2, <2>1 DEF CopyInv
<1>8. CostInv
  <2>1. Cardinality(Keys(arrived)) = 0 /\ Repeats * Plan.count = 0
    BY <1>3, <1>4, <1>5, <1>6
  <2> QED  BY <1>2, <1>5, <2>1 DEF CostInv
<1> QED  BY <1>7, <1>8

(* A notified chunk is the first of its kind.                              *)
LEMMA CopyNotify ==
    ASSUME CountFits, IInv, CopyInv, Notify
    PROVE  CopyInv'
<1> DEFINE new == Chunk(seq, stamp, c)
<1>1. /\ pc = "notify" /\ seq \in Nat /\ c \in Nat /\ c < Plan.count
      /\ Plan.count \in Nat /\ stamp = seq + 1
  BY PlanFacts DEF Notify, IInv, PubInv
<1>2. chan' = Append(chan, new) /\ arrived' = arrived /\ dups' = dups
  BY DEF Notify, histVars
<1>3. /\ c' = c + 1
      /\ \/ c + 1 < Plan.count /\ pc' = "notify" /\ seq' = seq
         \/ seq' = seq + 1
  BY <1>1 DEF Notify
<1>4. new \in GenuineChunks /\ Key(new) = <<seq, c>>
  <2>1. new \in GenuineChunks
    BY <1>1, NotifiedIsGenuine
  <2>2. c % kU16 = c
    BY <1>1, U16Facts DEF CountFits
  <2> QED  BY <2>1, <2>2 DEF Chunk, WireChunk, Key
<1> HIDE DEF new
<1>5. Len(chan') = Len(chan) + 1 /\ Keys(chan') = Keys(chan) \cup {<<seq, c>>}
  <2>1. chan \in Seq(GenuineChunks)
    BY TrafficFacts
  <2>2. Len(Append(chan, new)) = Len(chan) + 1
    BY <1>4, <2>1, AppendShape
  <2>3. Keys(Append(chan, new)) = Keys(chan) \cup {Key(new)}
    BY <1>4, <2>1, KeysAppend
  <2> QED  BY <1>2, <1>4, <2>2, <2>3
<1>6. Traffic' = Traffic \cup {<<seq, c>>}
  <2>1. Traffic' = Keys(chan') \cup Keys(arrived')
    BY DEF Traffic, Keys
  <2> QED  BY <1>2, <1>5, <2>1 DEF Traffic
<1>7. <<seq, c>> \notin Traffic
  BY <1>1 DEF CopyInv
<1>8. Cardinality(Traffic') = Cardinality(Traffic) + 1
  BY <1>6, <1>7, TrafficFacts, FS_AddElement
<1>9. Len(chan') + Len(arrived') <= Cardinality(Traffic') + dups'
  BY <1>2, <1>5, <1>8, TrafficFacts DEF CopyInv
<1>10. ASSUME NEW x \in Traffic'
       PROVE  x[1] < seq' \/ (x[1] = seq' /\ pc' = "notify" /\ x[2] < c')
  <2>1. CASE x \in Traffic
    <3>1. /\ x[1] \in Nat /\ x[2] \in Nat
          /\ x[1] < seq \/ (x[1] = seq /\ x[2] < c)
      BY <2>1, TrafficFacts DEF CopyInv
    <3> QED  BY <1>1, <1>3, <3>1
  <2>2. CASE x = <<seq, c>>
    BY <1>1, <1>3, <2>2
  <2> QED  BY <1>6, <2>1, <2>2
<1> QED  BY <1>9, <1>10 DEF CopyInv

(* A copy or a chunk less in the traffic.                                  *)
LEMMA CopyNetwork ==
    ASSUME IInv, CopyInv, Lose \/ Duplicate
    PROVE  CopyInv'
<1>1. arrived' = arrived /\ UNCHANGED <<seq, pc, c>>
  BY DEF Lose, Duplicate, histVars, pubVars
<1>2. Traffic' = Keys(chan') \cup Keys(arrived)
  BY <1>1 DEF Traffic, Keys
<1>3. CASE Lose
  <2>1. PICK k \in 1 .. Len(chan) : chan' = RemoveAt(chan, k) /\ dups' = dups
    BY <1>3 DEF Lose
  <2>2. Len(chan') = Len(chan) - 1 /\ Keys(chan) = Keys(chan') \cup {Key(chan[k])}
    BY <2>1, TrafficFacts, RemoveShape, KeysRemove
  <2>3. Traffic = Traffic' \cup {Key(chan[k])} /\ Traffic' \subseteq Traffic
    BY <1>2, <2>2 DEF Traffic
  <2>4. IsFiniteSet(Traffic') /\ Cardinality(Traffic') \in Nat
    BY <2>3, TrafficFacts, FS_Subset, FS_CardinalityType
  <2>5. Cardinality(Traffic) <= Cardinality(Traffic') + 1
    <3>1. PICK x : Traffic = Traffic' \cup {x}
      BY <2>3
    <3>2. Cardinality(Traffic' \cup {x}) =
            IF x \in Traffic' THEN Cardinality(Traffic') ELSE Cardinality(Traffic') + 1
      BY <2>4, FS_AddElement
    <3> QED  BY <2>4, <3>1, <3>2
  <2>6. Len(chan') + Len(arrived') <= Cardinality(Traffic') + dups'
    BY <1>1, <2>1, <2>2, <2>4, <2>5, TrafficFacts DEF CopyInv
  <2> QED  BY <1>1, <2>3, <2>6 DEF CopyInv
<1>4. CASE Duplicate
  <2>1. PICK k \in 1 .. Len(chan) : chan' = InsertAt(chan, k, chan[k])
    BY <1>4 DEF Duplicate
  <2>2. dups' = dups + 1
    BY <1>4 DEF Duplicate
  <2>3. Len(chan') = Len(chan) + 1 /\ Keys(chan') = Keys(chan)
    BY <2>1, TrafficFacts, KeysInsert
  <2>4. Traffic' = Traffic
    BY <1>2, <2>3 DEF Traffic
  <2>5. Len(chan') + Len(arrived') <= Cardinality(Traffic') + dups'
    BY <1>1, <2>2, <2>3, <2>4, TrafficFacts DEF CopyInv
  <2> QED  BY <1>1, <2>4, <2>5 DEF CopyInv
<1> QED  BY <1>3, <1>4

LEMMA CopyArrival ==
    ASSUME IInv, CopyInv, NEW k \in 1 .. Len(chan), chan' = RemoveAt(chan, k),
           arrived' = Append(arrived, chan[k]), UNCHANGED <<seq, pc, c, dups>>
    PROVE  CopyInv'
<1>1. chan[k] \in GenuineChunks
  BY TrafficFacts, ElementOfSeq
<1>2. Len(chan') = Len(chan) - 1 /\ Keys(chan) = Keys(chan') \cup {Key(chan[k])}
  BY TrafficFacts, RemoveShape, KeysRemove
<1>3. Len(arrived') = Len(arrived) + 1 /\ Keys(arrived') = Keys(arrived) \cup {Key(chan[k])}
  BY <1>1, TrafficFacts, AppendShape, KeysAppend
<1>4. Traffic' = Traffic
  <2>1. Traffic' = Keys(chan') \cup Keys(arrived')
    BY DEF Traffic, Keys
  <2> QED  BY <1>2, <1>3, <2>1 DEF Traffic
<1>5. Len(chan') + Len(arrived') <= Cardinality(Traffic') + dups'
  BY <1>2, <1>3, <1>4, TrafficFacts DEF CopyInv
<1> QED  BY <1>4, <1>5 DEF CopyInv

LEMMA CopyOthers ==
    ASSUME IInv, CopyInv, UNCHANGED <<chan, arrived, dups, seq>>,
           pc # "notify" \/ UNCHANGED <<pc, c>>
    PROVE  CopyInv'
<1>1. Traffic' = Traffic
  BY DEF Traffic, Keys
<1> QED  BY <1>1 DEF CopyInv

(* All chunks of a reported frame have arrived.                            *)
LEMMA ReportedArrived ==
    ASSUME IInv, NEW s \in Reported, NEW i \in 0 .. (Plan.count - 1)
    PROVE  <<s, i>> \in Keys(arrived)
<1>1. PICK k \in 1 .. Len(reported) : s = reported[k].seq
  BY DEF Reported
<1>2. PICK a \in Nat, n \in Nat : a = reported[k].at /\ a <= Len(arrived) /\ n = Plan.count
  BY EarlierReports, PlanFacts
<1>3. a - n >= 0 /\ \A j \in 0 .. (n - 1) : IsChunk(arrived[a - n + j + 1], s, j)
  BY <1>1, <1>2 DEF IInv, FrameIntact
<1>4. a - n + i + 1 \in 1 .. Len(arrived)
  <2>1. n <= a /\ Len(arrived) \in Nat /\ i \in 0 .. (n - 1)
    BY <1>2, <1>3, TrafficFacts
  <2> QED  BY <1>2, <2>1, LastPlaces
<1>5. IsChunk(arrived[a - n + i + 1], s, i)
  BY <1>2, <1>3
<1>6. Key(arrived[a - n + i + 1]) = <<s, i>>
  BY <1>5 DEF IsChunk, Key
<1> QED  BY <1>4, <1>6 DEF Keys

(* An arrival of a frame that was reported is a copy.                      *)
LEMMA CostArrival ==
    ASSUME CountFits, IInv, CostInv, OnMessage
    PROVE  CostInv'
<1>1. PICK k \in 1 .. Len(chan), ch \in GenuineChunks :
             /\ k <= Window /\ ch = chan[k]
             /\ chan' = RemoveAt(chan, k)
             /\ arrived' = Append(arrived, ch)
             /\ UNCHANGED <<pubVars, net, dups, rowVars>>
             /\ \/ /\ NoFrameYet
                   /\ tracker'.active <=> Expects(ch)
                   /\ Expects(ch) => /\ ch.index + 1 < Plan.count
                                     /\ tracker'.seq = ch.seq
                                     /\ tracker'.next = ch.index + 1
                \/ /\ ch.index + 1 = Plan.count /\ Expects(ch) /\ ~tracker'.active
                   /\ \E f \in [seq : Nat, sendNs : Nat] : f.seq = ch.seq /\ OnFrame(f)
  BY Arrival
<1>2. PICK s \in Nat, i \in Nat : s = ch.seq /\ i = ch.index /\ i < Plan.count
  BY ChunkFields
<1>3. Plan.count \in Nat
  BY PlanFacts
<1>4. Len(arrived') = Len(arrived) + 1 /\ Keys(arrived') = Keys(arrived) \cup {<<s, i>>}
  BY <1>1, <1>2, TrafficFacts, AppendShape, KeysAppend DEF Key
<1> DEFINE ka == Cardinality(Keys(arrived))
           kb == Cardinality(Keys(arrived'))
<1>5. /\ ka \in Nat /\ kb \in Nat /\ kb <= ka + 1
      /\ s \in Reported => kb = ka
  <2>1. kb = IF <<s, i>> \in Keys(arrived) THEN ka ELSE ka + 1
    BY <1>4, TrafficFacts, FS_AddElement
  <2>2. ka \in Nat
    BY TrafficFacts
  <2>3. s \in Reported => <<s, i>> \in Keys(arrived)
    BY <1>2, <1>3, ReportedArrived
  <2> HIDE DEF ka, kb
  <2> QED  BY <2>1, <2>2, <2>3
<1>6. Cardinality(Keys(arrived))' = kb
  BY DEF Keys
<1> HIDE DEF ka, kb
<1>7. Reassembled \in Nat /\ (Expects(ch) /\ s \in Reported => Reassembled >= i)
  <2>1. Reassembled \in Nat
    BY U16Facts DEF Reassembled, IInv, TrackerInv, Trackers
  <2> QED  BY <1>2, <2>1 DEF Expects, Reassembled
<1>8. PICK p \in Int, a \in Nat :
        /\ p = Repeats * Plan.count /\ a = Len(arrived) /\ Len(arrived') = a + 1
        /\ p + Reassembled + ka <= a
  BY <1>4, ReportedCount, TrafficFacts, PlanFacts DEF CostInv, Repeats, ka
<1>9. PICK m \in Nat, n \in Nat, l \in Nat, u \in Nat :
         m = Reassembled /\ n = Plan.count /\ l = ka /\ u = kb
  BY <1>3, <1>5, <1>7
<1>10. /\ p + m + l <= a /\ u <= l + 1
       /\ s \in Reported => u = l
       /\ Expects(ch) /\ s \in Reported => m >= i
  BY <1>5, <1>7, <1>8, <1>9
<1>11. CASE /\ NoFrameYet
            /\ tracker'.active <=> Expects(ch)
            /\ Expects(ch) => tracker'.seq = ch.seq /\ tracker'.next = ch.index + 1
  <2>1. Repeats' = Repeats /\ Reported' = Reported
    BY <1>11 DEF NoFrameYet, Repeats, Reported
  <2>2. Reassembled' = IF Expects(ch) /\ s \in Reported THEN i + 1 ELSE 0
    BY <1>2, <1>11, <2>1 DEF Reassembled
  <2>3. p + Reassembled' + kb <= a + 1
    <3>1. CASE Expects(ch) /\ s \in Reported
      <4>1. p + (i + 1) + u <= a + 1
        BY <1>10, <3>1
      <4> QED  BY <1>9, <2>2, <3>1, <4>1
    <3>2. CASE ~(Expects(ch) /\ s \in Reported)
      <4>1. p + 0 + u <= a + 1
        BY <1>10
      <4> QED  BY <1>9, <2>2, <3>2, <4>1
    <3> QED  BY <3>1, <3>2
  <2> QED  BY <1>6, <1>8, <2>1, <2>3 DEF CostInv
<1>12. CASE /\ ch.index + 1 = Plan.count /\ Expects(ch) /\ ~tracker'.active
            /\ \E f \in [seq : Nat, sendNs : Nat] : f.seq = ch.seq /\ OnFrame(f)
  <2>1. PICK f \in [seq : Nat, sendNs : Nat] : f.seq = s /\ OnFrame(f)
    BY <1>2, <1>12
  <2>2. PICK r \in Reports : r.seq = s /\ reported' = Append(reported, r)
    <3>1. reported' = Append(reported, [seq |-> f.seq, sendNs |-> f.sendNs, at |-> Len(arrived')])
      BY <2>1 DEF OnFrame
    <3>2. Len(arrived') \in Nat
      BY <1>4, TrafficFacts
    <3>3. [seq |-> f.seq, sendNs |-> f.sendNs, at |-> Len(arrived')] \in Reports
      BY <3>2 DEF Reports
    <3> QED  BY <2>1, <3>1, <3>3
  <2>3. Len(reported') = Len(reported) + 1 /\ Reported' = Reported \cup {s}
    BY <2>2, ReportedCount, AppendShape, ReportedGrows
  <2>4. Cardinality(Reported') =
          IF s \in Reported THEN Cardinality(Reported) ELSE Cardinality(Reported) + 1
    BY <2>3, ReportedCount, FS_AddElement
  <2>5. Reassembled' = 0
    BY <1>12 DEF Reassembled
  <2>6. Repeats' = IF s \in Reported THEN Repeats + 1 ELSE Repeats
    BY <2>3, <2>4, ReportedCount DEF Repeats
  <2>7. Repeats' * Plan.count = IF s \in Reported THEN p + Plan.count ELSE p
    <3>1. Repeats \in Int
      BY ReportedCount DEF Repeats
    <3>2. (Repeats + 1) * Plan.count = Repeats * Plan.count + Plan.count
      BY <1>3, <3>1
    <3> QED  BY <1>8, <2>6, <3>2
  <2>8. Repeats' * Plan.count + 0 + kb <= Len(arrived')
    <3>1. CASE s \in Reported
      <4>1. p + Plan.count + 0 + kb <= Len(arrived')
        <5>1. i + 1 = Plan.count /\ Expects(ch)
          BY <1>2, <1>12
        <5>2. n = i + 1 /\ m >= i /\ u = l
          BY <1>9, <1>10, <3>1, <5>1
        <5>3. p + n + 0 + u <= a + 1
          BY <1>10, <5>2
        <5> QED  BY <1>8, <1>9, <5>3
      <4> QED  BY <2>7, <3>1, <4>1
    <3>2. CASE s \notin Reported
      <4>1. p + 0 + kb <= Len(arrived')
        <5>1. p + 0 + u <= a + 1
          BY <1>10
        <5> QED  BY <1>8, <1>9, <5>1
      <4> QED  BY <2>7, <3>2, <4>1
    <3> QED  BY <3>1, <3>2
  <2> QED  BY <1>6, <2>5, <2>8 DEF CostInv
<1> QED  BY <1>1, <1>11, <1>12

LEMMA CopyStep ==
    ASSUME CountFits, IInv, CopyInv, CostInv, [Next]_vars
    PROVE  CopyInv' /\ CostInv'
<1>1. ASSUME UNCHANGED <<tracker, reported, arrived>> PROVE CostInv'
  BY <1>1 DEF CostInv, Repeats, Reassembled, Reported, Keys
<1>2. CASE Notify
  <2>1. UNCHANGED <<tracker, reported, arrived>>
    BY <1>2 DEF Notify, statVars, histVars
  <2> QED  BY <1>1, <1>2, <2>1, CopyNotify
<1>3. CASE Lose \/ Duplicate
  <2>1. UNCHANGED <<tracker, reported, arrived>>
    BY <1>3 DEF Lose, Duplicate, statVars, histVars
  <2> QED  BY <1>1, <1>3, <2>1, CopyNetwork
<1>4. CASE OnMessage
  <2>1. PICK k \in 1 .. Len(chan) : chan' = RemoveAt(chan, k) /\ arrived' = Append(arrived, chan[k])
    BY <1>4 DEF OnMessage
  <2>2. UNCHANGED <<seq, pc, c, dups>>
    BY <1>4 DEF OnMessage, pubVars
  <2> QED  BY <1>4, <2>1, <2>2, CopyArrival, CostArrival
<1>5. CASE StartFrame \/ StopPublisher
  <2>1. pc = "frame" /\ UNCHANGED <<chan, arrived, dups, seq, tracker, reported>>
    BY <1>5 DEF StartFrame, StopPublisher, netVars, statVars, histVars
  <2> QED  BY <1>1, <2>1, CopyOthers
<1>6. CASE EndWait \/ ReadSize \/ PrintRow \/ UNCHANGED vars
  <2>1. UNCHANGED <<pc, c, chan, arrived, dups, seq, tracker, reported>>
    BY <1>6 DEF EndWait, ReadSize, PrintRow, vars, pubVars, netVars, statVars, histVars
  <2> QED  BY <1>1, <2>1, CopyOthers
<1> QED  BY <1>2, <1>3, <1>4, <1>5, <1>6 DEF Next

(* A frame is measured twice only when every one of its chunks was         *)
(* duplicated, whatever the network reorders and loses: each report beyond *)
(* a frame's first is paid for by Plan.count copies.                       *)
THEOREM RepeatsArePaidFor == ASSUME CountFits PROVE Spec => []RepeatsCostCopies
<1>1. IInv /\ CopyInv /\ CostInv /\ [Next]_vars => (CopyInv /\ CostInv)'
  BY CopyStep
<1> QED  BY <1>1, CopyInit, CopiesPay, IInvHolds, PTL DEF Spec
=============================================================================
