---------------------------- MODULE ChunkedBlock ----------------------------
(***************************************************************************)
(* The publisher of the event bench from its command line to the end of    *)
(* its stream: ParseOptions reads the arguments, main() checks them,       *)
(* EventService::Worker makes the plan and notifies the frames.            *)
(*                                                                         *)
(* The publish loop is modelled byte by byte: one block of `size` bytes is *)
(* reused for every frame, headers and send stamp are written into it, and *)
(* it is notified slice by slice.  A byte of the block is modelled by who  *)
(* wrote it last.                                                          *)
(*                                                                         *)
(* The value of an argument is what strtoull, atoi or atof makes of its    *)
(* text: a size_t, an int (count, warmup) or a whole rate.                 *)
(***************************************************************************)
EXTENDS Fragment, Sequences, FiniteSetsExt

CONSTANTS Argvs,       \* command lines
          SeqT         \* 2^32 in the code: u32 frame numbers; an int has half of it on each side of 0

Ints == (-(SeqT \div 2)) .. (SeqT \div 2 - 1)

\* "other" is any text that is neither transport.
Texts == {"udp", "tcp", "other"}

\* No allocation gives a block of half the address space.
Options ==
    [size : 0 .. (SizeT \div 2), count : Ints, warmup : Ints, rate_hz : Int,
     max_datagram : 0 .. (SizeT - 1), transport : Texts]

DefaultOptions ==
    [size |-> 4096, count |-> 1000, warmup |-> 50, rate_hz |-> 1000,
     max_datagram |-> 1400, transport |-> "udp"]

\* One argument.  stack and rpc_calls are stored too, but the worker does not
\* look at them.
Args ==
    [key : {"size"}, value : 0 .. (SizeT \div 2)] \cup
    [key : {"max_datagram"}, value : 0 .. (SizeT - 1)] \cup
    [key : {"count", "warmup"}, value : Ints] \cup
    [key : {"rate_hz"}, value : Int] \cup
    [key : {"transport", "stack", "rpc_calls", "help", "unknown"}, value : Texts]

ASSUME BlockAssumption ==
    /\ SizeT \in Nat /\ SizeT >= 8192
    /\ SeqT \in Nat /\ SeqT >= 2002
    /\ SeqT % 2 = 0
    /\ Argvs \subseteq Seq(Args)

VARIABLES args,     \* arguments not looked at yet
          opt,      \* Options
          pc,       \* "parse", "usage" (exit status 2), "plan", "frame", "notify", "stopped";
                    \* "trapped": integer division by zero
          plan,
          seq,      \* frame number, also the loop counter i
          c,        \* next chunk of the frame
          block,    \* byte -> writer
          sent      \* slices of the current frame handed to notify()

vars == <<args, opt, pc, plan, seq, c, block, sent>>

size        == opt.size
maxDatagram == opt.max_datagram
transport   == opt.transport

kBenchHeaderBytes == 12

\* The publisher counts the measured frames only.
TotalMeasured == opt.count

\* warmup + count as an int: a sum past its range comes out negative.
Total ==
    IF opt.warmup + opt.count \in Ints
      THEN opt.warmup + opt.count
      ELSE (opt.warmup + opt.count) - SeqT

\* The client's test, on u32: a negative warmup is a huge one.
Measured(s) == s >= IF opt.warmup >= 0 THEN opt.warmup ELSE opt.warmup + SeqT

NoPlan == [count |-> 1, len |-> 0]

\* Writers of a byte.
Fill         == <<"fill">>
Header(s, i) == <<"header", s, i>>
Stamp(s)     == <<"stamp", s>>

HeaderBytes(p, i) == SliceOff(p, i) .. (SliceOff(p, i) + kChunkHeaderBytes - 1)
StampBytes        == kChunkHeaderBytes .. (kMinFrameBytes - 1)

HeadersOver(p, x) == {i \in 0 .. (p.count - 1) : x \in HeaderBytes(p, i)}

\* Headers go in once, before the first frame: later frames carry the old seq.
WriteChunkHeadersOnce(b, s, p) ==
    [x \in DOMAIN b |->
        IF HeadersOver(p, x) # {} /\ s = 0 THEN Header(s, Max(HeadersOver(p, x))) ELSE b[x]]

\* In index order, so that the last writer of a byte is the highest index that
\* covers it.  Header bytes past the end of the block are lost.
WriteChunkHeaders(b, s, p) ==
    [x \in DOMAIN b |->
        IF HeadersOver(p, x) # {} THEN Header(s, Max(HeadersOver(p, x))) ELSE b[x]]

StampSendNs(b, s) == [x \in DOMAIN b |-> IF x \in StampBytes THEN Stamp(s) ELSE b[x]]

Slice(b, p, i) ==
    [off   |-> SliceOff(p, i),
     len   |-> SliceLen(p, size, i),
     bytes |-> [k \in 0 .. (SliceLen(p, size, i) - 1) |-> b[SliceOff(p, i) + k]]]

-----------------------------------------------------------------------------
Init ==
    /\ args \in Argvs
    /\ opt = DefaultOptions
    /\ pc = "parse"
    /\ plan = NoPlan
    /\ seq = 0
    /\ c = 0
    /\ block = <<>>
    /\ sent = <<>>

\* ParseOptions: the loop over argv; a later argument overrides an earlier one.
TakeArg ==
    /\ pc = "parse" /\ args # <<>>
    /\ Head(args).key \notin {"help", "unknown"}
    /\ opt' = [k \in DOMAIN opt |-> IF k = Head(args).key THEN Head(args).value ELSE opt[k]]
    /\ args' = Tail(args)
    /\ UNCHANGED <<pc, plan, seq, c, block, sent>>

\* --help or an unknown argument: exit status 2.
RefuseArg ==
    /\ pc = "parse" /\ args # <<>>
    /\ Head(args).key \in {"help", "unknown"}
    /\ pc' = "usage"
    /\ UNCHANGED <<args, opt, plan, seq, c, block, sent>>

\* ParseOptions' last checks, and main()'s own.
Accepted ==
    /\ opt.size >= kBenchHeaderBytes /\ opt.count > 0 /\ opt.rate_hz > 0
    /\ opt.transport \in {"udp", "tcp"}
    /\ opt.size >= kMinFrameBytes

CheckOptions ==
    /\ pc = "parse" /\ args = <<>>
    /\ pc' = IF Accepted THEN "plan" ELSE "usage"
    /\ UNCHANGED <<args, opt, plan, seq, c, block, sent>>

\* The size_t arithmetic of PlanChunks comes to a division by zero, which stops
\* the process.
PlanTraps ==
    /\ pc = "plan"
    /\ transport # "tcp" /\ DividesByZero(size, maxDatagram)
    /\ pc' = "trapped"
    /\ UNCHANGED <<args, opt, plan, seq, c, block, sent>>

MakePlan ==
    /\ pc = "plan"
    /\ transport = "tcp" \/ ~DividesByZero(size, maxDatagram)
    /\ plan' = WorkerPlan(transport, size, maxDatagram)
    /\ block' = [x \in 0 .. (size - 1) |-> Fill]
    /\ pc' = "frame"
    /\ UNCHANGED <<args, opt, seq, c, sent>>

WriteFrame ==
    /\ pc = "frame"
    /\ seq < Total
    /\ block' = StampSendNs(WriteChunkHeaders(block, seq, plan), seq)
    /\ c' = 0
    /\ sent' = <<>>
    /\ pc' = "notify"
    /\ UNCHANGED <<args, opt, plan, seq>>

Notify ==
    /\ pc = "notify"
    /\ c < plan.count
    /\ sent' = Append(sent, Slice(block, plan, c))
    /\ c' = c + 1
    /\ UNCHANGED <<args, opt, pc, plan, seq, block>>

EndFrame ==
    /\ pc = "notify"
    /\ c = plan.count
    /\ seq' = seq + 1
    /\ pc' = "frame"
    /\ UNCHANGED <<args, opt, plan, c, block, sent>>

Stop ==
    /\ pc = "frame"
    /\ seq >= Total
    /\ pc' = "stopped"
    /\ UNCHANGED <<args, opt, plan, seq, c, block, sent>>

Next ==
    \/ TakeArg \/ RefuseArg \/ CheckOptions
    \/ PlanTraps \/ MakePlan
    \/ WriteFrame \/ Notify \/ EndFrame \/ Stop

Spec == Init /\ [][Next]_vars

-----------------------------------------------------------------------------
EndOf(s) == s.off + s.len

(* The slices notified for a frame are non-empty and follow one another    *)
(* without overlap or hole from byte 0; after the last one the whole block *)
(* has gone out.  `block.size() - off` is unsigned, so an offset past the  *)
(* end would not be noticed by the loop.                                   *)
SlicesTileBlock ==
    /\ \A k \in 1 .. Len(sent) :
         /\ sent[k].len > 0
         /\ sent[k].off = IF k = 1 THEN 0 ELSE EndOf(sent[k - 1])
    /\ (pc = "notify" /\ c = plan.count) => EndOf(sent[c]) = size

(* A UDP slice and the 12-byte E2E header share one datagram.              *)
DatagramFits ==
    transport = "udp" =>
        \A k \in 1 .. Len(sent) : sent[k].len + kE2eHeaderBytes <= maxDatagram

\* Slice k carries the header of chunk k - 1 of the current frame; slice 1 also
\* carries the stamp of this frame.
Labelled(k) ==
    /\ sent[k].len >= kChunkHeaderBytes
    /\ \A b \in 0 .. (kChunkHeaderBytes - 1) : sent[k].bytes[b] = Header(seq, k - 1)
    /\ k = 1 => /\ sent[k].len >= kMinFrameBytes
                /\ \A b \in StampBytes : sent[k].bytes[b] = Stamp(seq)

(* HeadersFit is exactly the condition under which every notified chunk    *)
(* starts with its own header, of this frame and not of an earlier one,    *)
(* and chunk 0 carries the send stamp.                                     *)
LabelledIffHeadersFit ==
    (pc = "notify" /\ c = plan.count) =>
        (HeadersFit(plan, size) <=> \A k \in 1 .. Len(sent) : Labelled(k))

(* The process dies in PlanChunks exactly when it sends over UDP and the   *)
(* datagram limit leaves no budget, or one so large that rounding up wraps *)
(* size_t; every other accepted command line gets to publish, with a plan  *)
(* whose arithmetic is exact.                                              *)
TrapsIffNoBudget ==
    /\ pc = "trapped" => transport = "udp" /\ ~PlanDefined(size, maxDatagram)
    /\ pc \in {"frame", "notify", "stopped"} =>
         transport = "tcp" \/ PlanDefined(size, maxDatagram)

\* The frames of a finished stream that the client measures.
Offered == {s \in 0 .. (seq - 1) : Measured(s)}

(* A finished stream holds exactly the count frames the client waits for,  *)
(* except when --warmup is negative, which ParseOptions lets pass, or      *)
(* warmup + count is no int: then the client, which compares as unsigned,  *)
(* measures none of what was published and can only time out.              *)
CountReachable ==
    pc = "stopped" =>
        IF opt.warmup >= 0 /\ opt.warmup + opt.count \in Ints
          THEN Cardinality(Offered) = opt.count
          ELSE Offered = {}
=============================================================================
