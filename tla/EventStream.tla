----------------------------- MODULE EventStream ----------------------------
(***************************************************************************)
(* The measured path of the vsomeip event bench: EventService::Worker      *)
(* stamps a frame and notifies its chunks, the network carries them,       *)
(* EventClient::OnMessage feeds them to the FrameTracker and keeps the     *)
(* statistics, and the WaitAndReport thread prints one CSV row when enough *)
(* latencies are in or its wait times out.                                 *)
(*                                                                         *)
(* The network is the sequence of chunks under way.  What it may do is     *)
(* chosen once, in Init: over TCP nothing, over UDP lose, duplicate and    *)
(* reorder.                                                                *)
(* NowNs() at the stamp of frame s is s + 1: the properties only ask whose *)
(* stamp a report carries.                                                 *)
(***************************************************************************)
EXTENDS Fragment, SequencesExt

CONSTANTS Size, MaxDatagram, Transport,    \* options of both programs
          Warmup, Count,
          Networks,      \* the networks to choose from
          MaxDuplicates, MaxLosses, \* bounds on the chunks an unordered network
                         \* duplicates and loses
          Reach          \* bound on the places down the queue it looks at

Plan  == WorkerPlan(Transport, Size, MaxDatagram)
Total == Warmup + Count

ASSUME StreamAssumption ==
    /\ Transport \in {"udp", "tcp"}
    /\ Size \in Nat /\ Size >= kMinFrameBytes
    /\ SizeT \in Nat /\ 2 * Size <= SizeT
    /\ MaxDatagram \in Nat /\ MaxDatagram < SizeT
    /\ Transport = "udp" => PlanDefined(Size, MaxDatagram)
    /\ HeadersFit(Plan, Size)
    /\ Warmup \in Nat
    /\ Count \in Nat \ {0}
    /\ MaxDuplicates \in Nat /\ MaxLosses \in Nat
    /\ Reach \in Nat \ {0}
    /\ Networks \subseteq {"unordered", "lossy", "reliable", "patient"}
    /\ Transport = "tcp" => Networks \subseteq {"reliable", "patient"}

VARIABLES
    pc,         \* publisher: "frame", "notify", "stopped"
    seq,        \* publisher: frame number
    c,          \* publisher: next chunk
    stamp,      \* publisher: send_ns written in the block
    net,        \* the network; "patient" is reliable and the wait outlasts the stream
    chan,       \* chunks under way
    dups,       \* chunks duplicated so far
    tracker,    \* client: FrameTracker
    lastSeq, gapCount,      \* client: last_seq_, gap_count_
    latencies,  \* client: latencies_us_, as the frame numbers measured
    done,       \* client: done_
    waiter,     \* client: WaitAndReport: "waiting", "printing", "sized", "exited"
    row,        \* the CSV row
    arrived,    \* history: chunks handed to OnMessage
    reported    \* history: frames the tracker completed, with their place in arrived

pubVars  == <<pc, seq, c, stamp>>
netVars  == <<net, chan, dups>>
statVars == <<tracker, lastSeq, gapCount, latencies, done>>
rowVars  == <<waiter, row>>
histVars == <<arrived, reported>>
vars     == <<pubVars, netVars, statVars, rowVars, histVars>>

NoRow == [n |-> 0, samples |-> 0, gaps |-> 0, cause |-> "none"]

Chunk(s, ns, i) == WireChunk(Plan, Size, s, ns, i)

Init ==
    /\ pc = "frame" /\ seq = 0 /\ c = 0 /\ stamp = 0
    /\ net \in Networks /\ chan = <<>> /\ dups = 0
    /\ tracker = TrackerInit
    /\ lastSeq = 0 /\ gapCount = 0
    /\ latencies = <<>> /\ done = FALSE
    /\ waiter = "waiting" /\ row = NoRow
    /\ arrived = <<>> /\ reported = <<>>

-----------------------------------------------------------------------------
(* Publisher.                                                              *)

\* The stamp is taken once, for the first frame.
StartFrameStampOnce ==
    /\ pc = "frame"
    /\ seq < Total
    /\ stamp' = IF stamp = 0 THEN seq + 1 ELSE stamp
    /\ c' = 0
    /\ pc' = "notify"
    /\ UNCHANGED <<seq, netVars, statVars, rowVars, histVars>>

StartFrame ==
    /\ pc = "frame"
    /\ seq < Total
    /\ stamp' = seq + 1
    /\ c' = 0
    /\ pc' = "notify"
    /\ UNCHANGED <<seq, netVars, statVars, rowVars, histVars>>

\* The last chunk is left unsent.
NotifyShort ==
    /\ pc = "notify"
    /\ chan' = IF c + 1 < Plan.count \/ Plan.count = 1
                 THEN Append(chan, Chunk(seq, stamp, c)) ELSE chan
    /\ c' = c + 1
    /\ IF c + 1 < Plan.count THEN UNCHANGED <<pc, seq>> ELSE pc' = "frame" /\ seq' = seq + 1
    /\ UNCHANGED <<stamp, net, dups, statVars, rowVars, histVars>>

\* One notify(); the last chunk of a frame ends it (++seq).
Notify ==
    /\ pc = "notify"
    /\ chan' = Append(chan, Chunk(seq, stamp, c))
    /\ c' = c + 1
    /\ IF c + 1 < Plan.count THEN UNCHANGED <<pc, seq>> ELSE pc' = "frame" /\ seq' = seq + 1
    /\ UNCHANGED <<stamp, net, dups, statVars, rowVars, histVars>>

StopPublisher ==
    /\ pc = "frame"
    /\ seq = Total
    /\ pc' = "stopped"
    /\ UNCHANGED <<seq, c, stamp, netVars, statVars, rowVars, histVars>>

-----------------------------------------------------------------------------
(* Network.                                                                *)

Ordered == net # "unordered"

\* The places down the queue at which a chunk's fate is decided: delivered next,
\* lost or duplicated.
Window == IF Ordered THEN 1 ELSE Reach

\* The chunks lost so far.
Lost ==
    seq * Plan.count + (IF pc = "notify" THEN c ELSE 0) + dups - Len(chan) - Len(arrived)

Lose ==
    /\ net = "lossy" \/ (net = "unordered" /\ Lost < MaxLosses)
    /\ \E k \in 1 .. Len(chan) : k <= Window /\ chan' = RemoveAt(chan, k)
    /\ UNCHANGED <<pubVars, net, dups, statVars, rowVars, histVars>>

\* A second copy of a datagram comes right behind the first; an unordered
\* network may then deliver it at any later time.
Duplicate ==
    /\ ~Ordered
    /\ dups < MaxDuplicates
    /\ \E k \in 1 .. Len(chan) : k <= Window /\ chan' = InsertAt(chan, k, chan[k])
    /\ dups' = dups + 1
    /\ UNCHANGED <<pubVars, net, statVars, rowVars, histVars>>

-----------------------------------------------------------------------------
(* Client: the dispatcher thread.                                          *)

Behind(s) == lastSeq # 0 /\ s > lastSeq + 1

\* The distance is taken without asking whether frames are missing.
GapGrowsUnguarded(s) == s - lastSeq - 1

\* The gap counts the frame that closes it too.
GapGrowsByDistance(s) == IF Behind(s) THEN s - lastSeq ELSE 0

GapGrows(s) == IF Behind(s) THEN s - lastSeq - 1 ELSE 0

Measured(s) == s >= Warmup

\* done_ is raised one latency early.
EnoughEarly(n) == n + 1 >= Count

Enough(n) == n >= Count

\* The tail of OnMessage, under mutex_, for a completed frame.
OnFrame(f) ==
    /\ gapCount' = gapCount + GapGrows(f.seq)
    /\ lastSeq' = f.seq
    /\ IF Measured(f.seq)
         THEN /\ latencies' = Append(latencies, f.seq)
              /\ done' = (done \/ Enough(Len(latencies')))
         ELSE UNCHANGED <<latencies, done>>
    /\ reported' = Append(reported, [seq |-> f.seq, sendNs |-> f.sendNs, at |-> Len(arrived')])

NoFrameYet == UNCHANGED <<gapCount, lastSeq, latencies, done, reported>>

OnMessage ==
    /\ waiter # "exited"
    /\ \E k \in 1 .. Len(chan) :
         /\ k <= Window
         /\ chan' = RemoveAt(chan, k)
         /\ arrived' = Append(arrived, chan[k])
         /\ LET r == Ingest(tracker, chan[k])
            IN  /\ tracker' = r.tracker
                /\ IF r.frame = NoFrame THEN NoFrameYet ELSE OnFrame(r.frame)
    /\ UNCHANGED <<pubVars, net, dups, rowVars>>

-----------------------------------------------------------------------------
(* Client: the WaitAndReport thread.                                       *)

\* The wait ends without done_: with "patient" only when nothing else will come.
TimedOut == net = "patient" => pc = "stopped" /\ chan = <<>>

\* cv_.wait_for(..., done_) under mutex_.
EndWait ==
    /\ waiter = "waiting"
    /\ done \/ TimedOut
    /\ waiter' = "printing"
    /\ row' = [row EXCEPT !.cause = IF done THEN "done" ELSE "timeout"]
    /\ UNCHANGED <<pubVars, netVars, statVars, histVars>>

\* PrintCsv, without mutex_: the arguments of one printf read latencies_us_
\* (its size, then its contents) and gap_count_ while OnMessage may append.
ReadSize ==
    /\ waiter = "printing"
    /\ row' = [row EXCEPT !.n = Len(latencies), !.gaps = gapCount]
    /\ waiter' = "sized"
    /\ UNCHANGED <<pubVars, netVars, statVars, histVars>>

PrintRow ==
    /\ waiter = "sized"
    /\ row' = [row EXCEPT !.samples = Len(latencies)]
    /\ waiter' = "exited"
    /\ UNCHANGED <<pubVars, netVars, statVars, histVars>>

-----------------------------------------------------------------------------
Next ==
    \/ StartFrame \/ Notify \/ StopPublisher
    \/ Lose \/ Duplicate
    \/ OnMessage
    \/ EndWait \/ ReadSize \/ PrintRow

Spec == Init /\ [][Next]_vars

\* The publisher's loop, the dispatcher and the reporting thread each run on.
Fairness ==
    /\ WF_vars(StartFrame \/ Notify \/ StopPublisher)
    /\ WF_vars(OnMessage)
    /\ WF_vars(EndWait \/ ReadSize \/ PrintRow)

FairSpec == Spec /\ Fairness

-----------------------------------------------------------------------------
WireChunks == [seq : Nat, index : 0 .. (kU16 - 1), count : 0 .. (kU16 - 1),
               sendNs : Nat, bytes : Int]
Reports    == [seq : Nat, sendNs : Nat, at : Nat]

(* Type correctness: counters stay in range, the tracker's next_ is a u16, *)
(* every frame it reports has a real sequence number, the row has one of   *)
(* the two causes.                                                         *)
TypeOK ==
    /\ pc \in {"frame", "notify", "stopped"}
    /\ seq \in 0 .. Total
    /\ c \in 0 .. Plan.count
    /\ stamp \in Nat
    /\ net \in Networks
    /\ chan \in Seq(WireChunks)
    /\ dups \in 0 .. MaxDuplicates
    /\ tracker \in [active : BOOLEAN, seq : Nat, next : 0 .. (kU16 - 1), sendNs : Nat]
    /\ lastSeq \in Nat /\ gapCount \in Nat
    /\ latencies \in Seq(Nat)
    /\ done \in BOOLEAN
    /\ waiter \in {"waiting", "printing", "sized", "exited"}
    /\ row \in [n : Nat, samples : Nat, gaps : Nat, cause : {"none", "done", "timeout"}]
    /\ arrived \in Seq(WireChunks)
    /\ reported \in Seq(Reports)

IsChunk(ch, s, i) == ch.seq = s /\ ch.index = i

(* fragment.h:56: the tracker "reports a frame when its last chunk arrives *)
(* and none were missed".  When it reports a frame, the chunks that        *)
(* arrived last are that frame's, all of them, in order and with nothing   *)
(* in between, whatever the network lost, repeated or reordered.           *)
FrameIntact ==
    \A k \in 1 .. Len(reported) :
        LET f     == reported[k]
            start == f.at - Plan.count
        IN  /\ start >= 0
            /\ \A i \in 0 .. (Plan.count - 1) : IsChunk(arrived[start + i + 1], f.seq, i)

(* The latency of a frame is computed from the frame's own send stamp,     *)
(* never from one an abandoned frame left in the tracker.                  *)
OwnStamp == \A k \in 1 .. Len(reported) : reported[k].sendNs = reported[k].seq + 1

Reported == {reported[k].seq : k \in 1 .. Len(reported)}

(* A frame is measured twice only when every one of its chunks was         *)
(* duplicated: each report beyond a frame's first costs Plan.count copies, *)
(* so that fewer copies than chunks per frame cannot make n count a frame  *)
(* twice.                                                                  *)
RepeatsCostCopies == (Len(reported) - Cardinality(Reported)) * Plan.count <= dups

(* On an ordered network gap_count_ is the number of unreported frames     *)
(* between the first and the last counted one.  Frame 0 is not counted:    *)
(* last_seq_ = 0 also means "nothing yet".                                 *)
GapExact == Ordered =>
    gapCount = Cardinality({s \in 0 .. Total :
                   /\ s \notin Reported
                   /\ \E a, b \in Reported \ {0} : a < s /\ s < b})

(* On an ordered network that duplicates nothing, a frame all of whose     *)
(* chunks arrived has been reported: the tracker recovers from any earlier *)
(* loss as soon as the next chunk 0 arrives.                               *)
ArrivedIsReported == Ordered =>
    \A s \in 0 .. (Total - 1) :
        (\A i \in 0 .. (Plan.count - 1) : \E k \in 1 .. Len(arrived) : IsChunk(arrived[k], s, i))
            => s \in Reported

(* On an ordered network done_ hides no loss: once it is up, every         *)
(* measured frame was reported, and the row it releases describes one set  *)
(* of Count latencies, although PrintCsv reads the vector without the      *)
(* mutex while OnMessage may append to it.                                 *)
DoneMeansComplete == Ordered =>
    /\ done => Warmup .. (Total - 1) \subseteq Reported
    /\ waiter = "exited" /\ row.cause = "done" => row.n = Count /\ row.samples = Count

(* The stream implements FrameDelivery.                                    *)
Delivery == INSTANCE FrameDelivery WITH
    published <- seq,
    delivered <- [k \in 1 .. Len(reported) |->
                     [seq |-> reported[k].seq, sendNs |-> reported[k].sendNs]]

(* On an ordered network frames are delivered at most once, in publishing  *)
(* order, after their last chunk was notified and with their own stamp.    *)
ImplementsDelivery == Delivery!Init /\ [][Ordered => Delivery!Next]_(Delivery!dvars)

(* Without loss, and with a wait longer than the stream, the benchmark     *)
(* always ends with a row of Count latencies and no gap.                   *)
CompleteRow ==
    net = "patient" => <>(waiter = "exited" /\ row.n = Count /\ row.samples = Count /\ row.gaps = 0)
=============================================================================
