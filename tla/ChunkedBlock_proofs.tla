------------------------- MODULE ChunkedBlock_proofs ------------------------
(***************************************************************************)
(* For every command line: the process dies in PlanChunks only where the   *)
(* datagram limit leaves no budget; otherwise the slices of a frame tile   *)
(* the block, each shares a datagram with the E2E header, and a finished   *)
(* stream holds the frames its client waits for unless the warmup is       *)
(* negative or overflows.                                                  *)
(***************************************************************************)
EXTENDS ChunkedBlock, Fragment_proofs, SequenceTheorems, FiniteSetTheorems

OptInv == args \in Seq(Args) /\ opt \in Options

\* Nothing happens to the block before there is a plan, and from then on the
\* plan is that of the options.
Planless == {"parse", "usage", "plan", "trapped"}

PlanInv ==
    /\ pc \in Planless \cup {"frame", "notify", "stopped"}
    /\ pc \in Planless => c = 0 /\ sent = <<>> /\ seq = 0
    /\ pc = "trapped" => transport = "udp" /\ ~PlanDefined(size, maxDatagram)
    /\ pc \notin {"parse", "usage"} => Accepted
    /\ pc \notin Planless => /\ transport = "udp" => PlanDefined(size, maxDatagram)
                             /\ plan = WorkerPlan(transport, size, maxDatagram)
                             /\ c <= plan.count

\* The frames published so far are the first of the total.
SeqInv ==
    /\ seq \in Nat
    /\ seq <= Total \/ seq = 0
    /\ pc = "notify" => seq < Total
    /\ pc = "stopped" => seq >= Total

\* Slice k is chunk k - 1 of the plan.
SentInv ==
    /\ c \in Nat
    /\ \E S : sent \in Seq(S)
    /\ Len(sent) = c
    /\ \A k \in 1 .. c : /\ sent[k].off = SliceOff(plan, k - 1)
                         /\ sent[k].len = SliceLen(plan, size, k - 1)

IInv == OptInv /\ PlanInv /\ SeqInv /\ SentInv

(* What the checks of ParseOptions and main() leave.                       *)
LEMMA OptionRanges ==
    ASSUME OptInv, Accepted
    PROVE  /\ size \in Nat \ {0} /\ size >= kMinFrameBytes /\ 2 * size <= SizeT
           /\ maxDatagram \in Nat /\ maxDatagram < SizeT
           /\ transport \in {"udp", "tcp"} /\ opt.count > 0
           /\ SizeT \in Nat
<1>1. /\ opt.size \in 0 .. (SizeT \div 2) /\ opt.max_datagram \in 0 .. (SizeT - 1)
      /\ SizeT \in Nat
  BY BlockAssumption DEF OptInv, Options
<1>2. 2 * (SizeT \div 2) <= SizeT /\ SizeT \div 2 \in Nat
  BY <1>1
<1> HIDE DEF OptInv
<1>3. opt.size >= 16 /\ opt.transport \in {"udp", "tcp"} /\ opt.count > 0
  BY DEF Accepted, kMinFrameBytes, kChunkHeaderBytes
<1> QED  BY <1>1, <1>2, <1>3 DEF size, maxDatagram, transport, kMinFrameBytes, kChunkHeaderBytes

LEMMA WorkerPlanGeometry ==
    ASSUME OptInv, PlanInv, pc \notin Planless
    PROVE  /\ plan.count \in Nat \ {0}
           /\ plan.len \in Nat \ {0}
           /\ (plan.count - 1) * plan.len < size
           /\ size <= plan.count * plan.len
           /\ transport = "udp" => plan.len + kE2eHeaderBytes <= maxDatagram
           /\ size \in Nat \ {0} /\ maxDatagram \in Nat
<1>1. Accepted
  BY DEF PlanInv, Planless
<1>2. /\ size \in Nat \ {0} /\ maxDatagram \in Nat /\ transport \in {"udp", "tcp"}
      /\ SizeT \in Nat /\ 2 * size <= SizeT /\ maxDatagram < SizeT
  BY <1>1, OptionRanges
<1>3. /\ transport = "udp" => PlanDefined(size, maxDatagram)
      /\ plan = WorkerPlan(transport, size, maxDatagram)
  BY DEF PlanInv
<1>4. CASE transport = "tcp"
  <2>1. plan.count = 1 /\ plan.len = size
    BY <1>3, <1>4 DEF WorkerPlan
  <2> QED  BY <1>2, <1>4, <2>1
<1>5. CASE transport = "udp"
  <2>1. plan = PlanChunks(size, maxDatagram) /\ PlanDefined(size, maxDatagram)
    BY <1>3, <1>5 DEF WorkerPlan
  <2>2. /\ plan.len <= maxDatagram - kE2eHeaderBytes /\ plan.len \in Nat \ {0}
        /\ plan.count \in Nat \ {0} /\ (plan.count - 1) * plan.len < size
        /\ size <= plan.count * plan.len
    BY <1>2, <2>1, PlanGeometry
  <2>3. plan.len + kE2eHeaderBytes <= maxDatagram
    BY <1>2, <2>2 DEF kE2eHeaderBytes
  <2> QED  BY <1>2, <2>2, <2>3
<1> QED  BY <1>2, <1>4, <1>5

(* Every operator on the options keeps its value while they keep theirs.   *)
LEMMA OptionsKept ==
    ASSUME UNCHANGED opt
    PROVE  /\ UNCHANGED <<size, maxDatagram, transport, Total>>
           /\ Accepted' <=> Accepted
BY DEF size, maxDatagram, transport, Total, Accepted, Ints

LEMMA InvInit == Init => IInv
<1> SUFFICES ASSUME Init PROVE IInv
  OBVIOUS
<1>1. args \in Seq(Args)
  BY BlockAssumption DEF Init
<1>2. opt \in Options
  <2>1. 4096 \in 0 .. (SizeT \div 2) /\ 1400 \in 0 .. (SizeT - 1)
    BY BlockAssumption
  <2>2. 1000 \in Ints /\ 50 \in Ints
    BY BlockAssumption DEF Ints
  <2>3. "udp" \in Texts
    BY DEF Texts
  <2>4. DefaultOptions \in Options
    BY <2>1, <2>2, <2>3 DEF DefaultOptions, Options
  <2> QED  BY <2>4 DEF Init
<1>3. sent = <<>> /\ c = 0 /\ sent \in Seq({})
  BY DEF Init
<1> QED  BY <1>1, <1>2, <1>3 DEF Init, IInv, OptInv, PlanInv, Planless, SeqInv, SentInv

LEMMA TakeArgInv ==
    ASSUME IInv, TakeArg
    PROVE  IInv'
<1> DEFINE a == Head(args)
<1>1. /\ args \in Seq(Args) /\ args # <<>> /\ opt \in Options /\ args' = Tail(args)
      /\ opt' = [k \in DOMAIN opt |-> IF k = a.key THEN a.value ELSE opt[k]]
      /\ pc = "parse" /\ UNCHANGED <<pc, plan, seq, c, block, sent>>
  BY DEF TakeArg, IInv, OptInv
<1>2. a \in Args /\ args' \in Seq(Args)
  BY <1>1, HeadTailProperties
<1> HIDE DEF a
<1>3. opt' \in Options
  <2>1. /\ a.key = "size" => a.value \in 0 .. (SizeT \div 2)
        /\ a.key = "max_datagram" => a.value \in 0 .. (SizeT - 1)
        /\ a.key \in {"count", "warmup"} => a.value \in Ints
        /\ a.key = "rate_hz" => a.value \in Int
        /\ a.key = "transport" => a.value \in Texts
    BY <1>2 DEF Args
  <2> QED  BY <1>1, <2>1 DEF Options
<1>4. SentInv'
  BY <1>1 DEF IInv, SentInv, PlanInv, Planless
<1>5. PlanInv'
  BY <1>1 DEF IInv, PlanInv, Planless
<1>6. SeqInv'
  BY <1>1 DEF IInv, PlanInv, Planless, SeqInv
<1> QED  BY <1>2, <1>3, <1>4, <1>5, <1>6 DEF IInv, OptInv

LEMMA CheckOptionsInv ==
    ASSUME IInv, CheckOptions
    PROVE  IInv'
<1>1. /\ pc = "parse" /\ pc' = IF Accepted THEN "plan" ELSE "usage"
      /\ UNCHANGED <<args, opt, plan, seq, c, block, sent>>
  BY DEF CheckOptions
<1>2. (Accepted' <=> Accepted) /\ UNCHANGED <<size, maxDatagram, transport, Total>>
  BY <1>1, OptionsKept
<1> QED  BY <1>1, <1>2 DEF IInv, OptInv, PlanInv, Planless, SeqInv, SentInv

LEMMA PlanTrapsInv ==
    ASSUME IInv, PlanTraps
    PROVE  IInv'
<1>1. /\ pc = "plan" /\ pc' = "trapped" /\ transport # "tcp" /\ DividesByZero(size, maxDatagram)
      /\ UNCHANGED <<args, opt, plan, seq, c, block, sent>>
  BY DEF PlanTraps
<1>2. (Accepted' <=> Accepted) /\ UNCHANGED <<size, maxDatagram, transport, Total>>
  BY <1>1, OptionsKept
<1>3. OptInv /\ Accepted
  BY <1>1 DEF IInv, PlanInv
<1>4. transport = "udp" /\ ~PlanDefined(size, maxDatagram)
  BY <1>1, <1>3, OptionRanges, UndefinedDivides
<1>5. ~PlanDefined(size, maxDatagram)'
  BY <1>2, <1>4 DEF PlanDefined
<1>6. PlanInv'
  BY <1>1, <1>2, <1>3, <1>4, <1>5 DEF IInv, PlanInv, Planless
<1> QED  BY <1>1, <1>2, <1>6 DEF IInv, OptInv, SeqInv, SentInv

LEMMA MakePlanInv ==
    ASSUME IInv, MakePlan
    PROVE  IInv'
<1>0. /\ transport = "tcp" \/ ~DividesByZero(size, maxDatagram)
      /\ plan' = WorkerPlan(transport, size, maxDatagram)
  BY DEF MakePlan
<1>1. pc = "plan" /\ pc' = "frame" /\ UNCHANGED <<args, opt, seq, c, sent>>
  BY DEF MakePlan
<1>2. (Accepted' <=> Accepted) /\ UNCHANGED <<size, maxDatagram, transport, Total>>
  BY <1>1, OptionsKept
<1>3. OptInv /\ Accepted /\ c = 0 /\ sent = <<>> /\ seq = 0
  BY <1>1 DEF IInv, PlanInv, Planless
<1>4. /\ size \in Nat \ {0} /\ size >= kMinFrameBytes /\ 2 * size <= SizeT
      /\ maxDatagram \in Nat /\ maxDatagram < SizeT /\ SizeT \in Nat
      /\ transport \in {"udp", "tcp"}
  BY <1>3, OptionRanges
<1>5. transport = "udp" => PlanDefined(size, maxDatagram)
  BY <1>0, <1>4, UndefinedDivides
<1>6. plan'.count \in Nat
  <2>1. CASE transport = "tcp"
    BY <1>0, <2>1 DEF WorkerPlan
  <2>2. CASE transport = "udp"
    <3>1. plan' = PlanChunks(size, maxDatagram)
      BY <1>0, <2>2 DEF WorkerPlan
    <3> QED  BY <1>4, <1>5, <2>2, <3>1, PlanGeometry
  <2> QED  BY <1>4, <2>1, <2>2
<1>7. plan' = WorkerPlan(transport', size', maxDatagram')
  BY <1>0, <1>2
<1>8. transport' = "udp" => PlanDefined(size, maxDatagram)'
  BY <1>2, <1>5 DEF PlanDefined
<1>9. (plan = WorkerPlan(transport, size, maxDatagram))'
  BY <1>7
<1>10. c' <= plan'.count
  BY <1>1, <1>3, <1>6
<1>11. PlanInv'
  BY <1>1, <1>2, <1>3, <1>8, <1>9, <1>10 DEF PlanInv, Planless
<1>12. SentInv'
  BY <1>1, <1>3 DEF IInv, SentInv
<1> QED  BY <1>1, <1>2, <1>3, <1>11, <1>12 DEF IInv, OptInv, SeqInv

(* While frames are published the plan stays.                              *)
LEMMA PlanKept ==
    ASSUME IInv, UNCHANGED <<args, opt, plan>>, pc \notin Planless,
           pc' \in {"frame", "notify", "stopped"}, c' <= plan.count
    PROVE  OptInv' /\ PlanInv'
<1>1. (Accepted' <=> Accepted) /\ UNCHANGED <<size, maxDatagram, transport, Total>>
  BY OptionsKept
<1>2. PlanDefined(size, maxDatagram)' <=> PlanDefined(size, maxDatagram)
  BY <1>1 DEF PlanDefined
<1>3. /\ transport = "udp" => PlanDefined(size, maxDatagram)
      /\ plan = WorkerPlan(transport, size, maxDatagram)
      /\ Accepted
  BY DEF IInv, PlanInv, Planless
<1>4. plan' = WorkerPlan(transport', size', maxDatagram')
  BY <1>1, <1>3
<1>5. (plan = WorkerPlan(transport, size, maxDatagram))'
  BY <1>4
<1> QED  BY <1>1, <1>2, <1>3, <1>5 DEF IInv, OptInv, PlanInv, Planless

LEMMA NotifyInv ==
    ASSUME IInv, Notify
    PROVE  IInv'
<1>1. /\ pc = "notify" /\ c < plan.count /\ c \in Nat
      /\ sent' = Append(sent, Slice(block, plan, c)) /\ c' = c + 1
      /\ UNCHANGED <<args, opt, pc, plan, seq, block>>
  BY DEF Notify, IInv, SentInv
<1>2. pc \notin Planless /\ plan.count \in Nat
  BY <1>1, WorkerPlanGeometry DEF IInv, Planless
<1>3. OptInv' /\ PlanInv'
  BY <1>1, <1>2, PlanKept
<1>4. UNCHANGED <<size, maxDatagram, transport, Total>>
  BY <1>1, OptionsKept
<1> DEFINE x == Slice(block, plan, c)
<1>5. x.off = SliceOff(plan, c) /\ x.len = SliceLen(plan, size, c)
  BY DEF Slice
<1> HIDE DEF x
<1>6. PICK S : sent \in Seq(S)
  BY DEF IInv, SentInv
<1>7. sent \in Seq(S \cup {x})
  BY <1>6, SeqMonotonic
<1>8. /\ sent' \in Seq(S \cup {x}) /\ Len(sent') = c + 1 /\ sent'[c + 1] = x
      /\ \A k \in 1 .. c : sent'[k] = sent[k]
  BY <1>1, <1>7, AppendProperties DEF x, IInv, SentInv
<1>9. ASSUME NEW k \in 1 .. (c + 1)
      PROVE  sent'[k].off = SliceOff(plan, k - 1) /\ sent'[k].len = SliceLen(plan, size, k - 1)
  <2>1. CASE k = c + 1
    <3>1. k - 1 = c
      BY <1>1, <2>1
    <3> QED  BY <1>5, <1>8, <2>1, <3>1
  <2>2. CASE k \in 1 .. c
    BY <1>8, <2>2 DEF IInv, SentInv
  <2>3. k = c + 1 \/ k \in 1 .. c
    BY <1>1
  <2> QED  BY <2>1, <2>2, <2>3
<1>10. SentInv'
  <2>1. \A k \in 1 .. c' : /\ sent'[k].off = SliceOff(plan', k - 1)
                           /\ sent'[k].len = SliceLen(plan', size', k - 1)
    BY <1>1, <1>4, <1>9
  <2>2. c' \in Nat /\ Len(sent') = c'
    BY <1>1, <1>8
  <2> QED  BY <1>8, <2>1, <2>2 DEF SentInv
<1>11. SeqInv'
  BY <1>1, <1>4 DEF IInv, SeqInv
<1> QED  BY <1>3, <1>10, <1>11 DEF IInv

LEMMA WriteFrameInv ==
    ASSUME IInv, WriteFrame
    PROVE  IInv'
<1>1. /\ c' = 0 /\ sent' = <<>> /\ pc = "frame" /\ pc' = "notify" /\ seq < Total
      /\ UNCHANGED <<args, opt, plan, seq>>
  BY DEF WriteFrame
<1>2. pc \notin Planless /\ plan.count \in Nat
  BY <1>1, WorkerPlanGeometry DEF IInv, Planless
<1>3. OptInv' /\ PlanInv'
  BY <1>1, <1>2, PlanKept
<1>4. sent' \in Seq({}) /\ Len(sent') = 0
  BY <1>1
<1>5. SentInv'
  BY <1>1, <1>4 DEF SentInv
<1>6. SeqInv'
  <2>1. UNCHANGED Total
    BY <1>1, OptionsKept
  <2> QED  BY <1>1, <2>1 DEF IInv, SeqInv
<1> QED  BY <1>3, <1>5, <1>6 DEF IInv

LEMMA FrameLoopInv ==
    ASSUME IInv, EndFrame \/ Stop
    PROVE  IInv'
<1>1. /\ pc \in {"frame", "notify"} /\ pc' \in {"frame", "stopped"}
      /\ UNCHANGED <<args, opt, plan, c, block, sent>>
  BY DEF EndFrame, Stop
<1>2. pc \notin Planless /\ c <= plan.count
  BY <1>1 DEF IInv, PlanInv, Planless
<1>3. OptInv' /\ PlanInv'
  BY <1>1, <1>2, PlanKept
<1>4. UNCHANGED <<size, maxDatagram, transport, Total>>
  BY <1>1, OptionsKept
<1>5. SentInv'
  BY <1>1, <1>4 DEF IInv, SentInv
<1>6. Total \in Int
  BY BlockAssumption DEF IInv, OptInv, Options, Total, Ints
<1>7. SeqInv'
  <2>1. CASE EndFrame
    BY <1>4, <1>6, <2>1 DEF EndFrame, IInv, SeqInv
  <2>2. CASE Stop
    BY <1>4, <2>2 DEF Stop, IInv, SeqInv
  <2> QED  BY <2>1, <2>2
<1> QED  BY <1>3, <1>5, <1>7 DEF IInv

LEMMA InvStep ==
    ASSUME IInv, [Next]_vars
    PROVE  IInv'
<1>1. CASE TakeArg
  BY <1>1, TakeArgInv
<1>2. CASE RefuseArg
  <2>1. /\ pc = "parse" /\ pc' = "usage" /\ UNCHANGED <<args, opt, plan, seq, c, block, sent>>
    BY <1>2 DEF RefuseArg
  <2>2. UNCHANGED <<size, maxDatagram, transport, Total>>
    BY <2>1, OptionsKept
  <2> QED  BY <2>1, <2>2 DEF IInv, OptInv, PlanInv, Planless, SeqInv, SentInv
<1>3. CASE CheckOptions
  BY <1>3, CheckOptionsInv
<1>4. CASE PlanTraps
  BY <1>4, PlanTrapsInv
<1>5. CASE MakePlan
  BY <1>5, MakePlanInv
<1>6. CASE WriteFrame
  BY <1>6, WriteFrameInv
<1>7. CASE Notify
  BY <1>7, NotifyInv
<1>8. CASE EndFrame \/ Stop
  BY <1>8, FrameLoopInv
<1>9. CASE UNCHANGED vars
  <2>1. UNCHANGED <<args, opt, pc, plan, seq, c, sent>>
    BY <1>9 DEF vars
  <2>2. (Accepted' <=> Accepted) /\ UNCHANGED <<size, maxDatagram, transport, Total>>
    BY <2>1, OptionsKept
  <2>3. PlanDefined(size, maxDatagram)' <=> PlanDefined(size, maxDatagram)
    BY <2>2 DEF PlanDefined
  <2>4. (plan = WorkerPlan(transport, size, maxDatagram))' <=> plan = WorkerPlan(transport, size, maxDatagram)
    BY <2>1, <2>2
  <2> QED  BY <2>1, <2>2, <2>3, <2>4 DEF IInv, OptInv, PlanInv, SeqInv, SentInv
<1> QED  BY <1>1, <1>2, <1>3, <1>4, <1>5, <1>6, <1>7, <1>8, <1>9 DEF Next

THEOREM IInvHolds == Spec => []IInv
BY InvInit, InvStep, PTL DEF Spec

LEMMA InvTiles == IInv => SlicesTileBlock
<1> SUFFICES ASSUME IInv PROVE SlicesTileBlock
  OBVIOUS
<1>1. CASE pc \in Planless
  <2>1. Len(sent) = 0 /\ pc # "notify"
    BY <1>1 DEF IInv, PlanInv, Planless, SentInv
  <2> QED  BY <2>1 DEF SlicesTileBlock
<1>2. CASE pc \notin Planless
  <2>1. /\ plan.count \in Nat \ {0} /\ plan.len \in Nat \ {0}
        /\ (plan.count - 1) * plan.len < size /\ size \in Nat \ {0}
    BY <1>2, WorkerPlanGeometry DEF IInv
  <2>2. /\ c \in Nat /\ c <= plan.count /\ Len(sent) = c
        /\ \A k \in 1 .. c : /\ sent[k].off = SliceOff(plan, k - 1)
                             /\ sent[k].len = SliceLen(plan, size, k - 1)
    BY <1>2 DEF IInv, PlanInv, SentInv
  <2>3. ASSUME NEW k \in 1 .. c
        PROVE  sent[k].len > 0 /\ sent[k].off = IF k = 1 THEN 0 ELSE EndOf(sent[k - 1])
    <3>1. k - 1 \in Nat /\ k - 1 < plan.count
      BY <2>1, <2>2
    <3>2. sent[k].len \in Nat \ {0}
      BY <2>1, <2>2, <3>1, SliceBounds
    <3>3. CASE k = 1
      <4>1. SliceOff(plan, 0) = 0
        BY <2>1 DEF SliceOff
      <4> QED  BY <2>2, <3>2, <3>3, <4>1
    <3>4. CASE k # 1
      <4>1. PICK j \in Nat : j = k - 2 /\ j + 1 = k - 1 /\ k - 1 \in 1 .. c
        BY <2>2, <3>4
      <4>2. /\ SliceLen(plan, size, j) = plan.len
            /\ SliceOff(plan, j + 1) = SliceOff(plan, j) + plan.len
        BY <2>1, <3>1, <4>1, SliceBounds
      <4>3. sent[k - 1].off = SliceOff(plan, j) /\ sent[k - 1].len = SliceLen(plan, size, j)
        BY <2>2, <4>1
      <4> QED  BY <2>2, <3>2, <3>4, <4>1, <4>2, <4>3 DEF EndOf
    <3> QED  BY <3>3, <3>4
  <2>4. c = plan.count => EndOf(sent[c]) = size
    <3> SUFFICES ASSUME c = plan.count PROVE EndOf(sent[c]) = size
      OBVIOUS
    <3>1. c \in 1 .. c /\ c - 1 \in Nat /\ c - 1 < plan.count
      BY <2>1, <2>2
    <3>2. sent[c].off = SliceOff(plan, c - 1) /\ sent[c].len = SliceLen(plan, size, c - 1)
      BY <2>2, <3>1
    <3>3. size <= plan.count * plan.len
      BY <1>2, WorkerPlanGeometry DEF IInv
    <3>4. PICK o \in Nat : o = SliceOff(plan, c - 1) /\ o < size /\ size <= o + plan.len
      <4>1. SliceOff(plan, c - 1) \in Nat /\ SliceOff(plan, c - 1) < size
        BY <2>1, <3>1, SliceBounds
      <4>2. (c - 1) * plan.len = c * plan.len - plan.len /\ c * plan.len \in Nat
        BY <2>1, <2>2
      <4>3. SliceOff(plan, c - 1) = c * plan.len - plan.len /\ size <= c * plan.len
        BY <3>3, <4>2 DEF SliceOff
      <4> QED  BY <2>1, <4>1, <4>2, <4>3
    <3>5. SliceLen(plan, size, c - 1) = size - o
      <4>1. SliceLen(plan, size, c - 1) = IF plan.len <= size - o THEN plan.len ELSE size - o
        BY <3>4 DEF SliceLen
      <4> QED  BY <2>1, <3>4, <4>1
    <3> QED  BY <2>1, <3>2, <3>4, <3>5 DEF EndOf
  <2> QED  BY <2>2, <2>3, <2>4 DEF SlicesTileBlock
<1> QED  BY <1>1, <1>2

(* The slices of every frame tile the block, whatever the size and the     *)
(* datagram limit: no offset of the publish loop runs past the end.        *)
THEOREM SlicesTile == Spec => []SlicesTileBlock
BY InvTiles, IInvHolds, PTL

LEMMA InvFits == IInv => DatagramFits
<1> SUFFICES ASSUME IInv, transport = "udp", NEW k \in 1 .. Len(sent)
             PROVE  sent[k].len + kE2eHeaderBytes <= maxDatagram
  BY DEF DatagramFits
<1>1. pc \notin Planless
  BY DEF IInv, PlanInv, SentInv
<1>2. /\ plan.count \in Nat \ {0} /\ plan.len \in Nat \ {0} /\ size \in Nat \ {0}
      /\ (plan.count - 1) * plan.len < size /\ plan.len + kE2eHeaderBytes <= maxDatagram
      /\ maxDatagram \in Nat
  BY <1>1, WorkerPlanGeometry DEF IInv
<1>3. /\ k \in 1 .. c /\ c \in Nat /\ c <= plan.count /\ sent[k].len = SliceLen(plan, size, k - 1)
  BY <1>1 DEF IInv, PlanInv, SentInv
<1>4. k - 1 \in Nat /\ k - 1 < plan.count
  BY <1>2, <1>3
<1>5. sent[k].len \in Nat /\ sent[k].len <= plan.len
  BY <1>2, <1>3, <1>4, SliceBounds
<1> QED  BY <1>2, <1>5 DEF kE2eHeaderBytes

(* Every UDP slice leaves room for the E2E header in its datagram.         *)
THEOREM DatagramsFit == Spec => []DatagramFits
BY InvFits, IInvHolds, PTL

LEMMA InvTraps == IInv => TrapsIffNoBudget
<1> SUFFICES ASSUME IInv PROVE TrapsIffNoBudget
  OBVIOUS
<1>1. pc \in {"frame", "notify", "stopped"} => transport \in {"udp", "tcp"}
  BY OptionRanges DEF IInv, PlanInv
<1> QED  BY <1>1 DEF IInv, PlanInv, Planless, TrapsIffNoBudget

(* PlanChunks divides by zero for the datagram limits without a budget and *)
(* for no other, on every command line that is accepted.                   *)
THEOREM TrapsWithoutBudget == Spec => []TrapsIffNoBudget
BY InvTraps, IInvHolds, PTL

LEMMA InvCount == IInv => CountReachable
<1> SUFFICES ASSUME IInv, pc = "stopped"
             PROVE  IF opt.warmup >= 0 /\ opt.warmup + opt.count \in Ints
                      THEN Cardinality(Offered) = opt.count
                      ELSE Offered = {}
  BY DEF CountReachable
<1>1. PICK w \in Ints, n \in Ints : w = opt.warmup /\ n = opt.count /\ n > 0
  BY OptionRanges DEF IInv, OptInv, PlanInv, Options
<1>2. PICK h \in Nat : h = SeqT \div 2 /\ SeqT = 2 * h
  BY BlockAssumption
<1>3. Ints = (-h) .. (h - 1)
  BY <1>2 DEF Ints
<1>4. seq \in Nat /\ seq >= Total /\ (seq <= Total \/ seq = 0)
  BY DEF IInv, SeqInv
<1>5. CASE w >= 0 /\ w + n \in Ints
  <2>1. Total = w + n
    BY <1>1, <1>5 DEF Total
  <2>2. seq = w + n
    BY <1>1, <1>3, <1>4, <1>5, <2>1
  <2>3. Offered = w .. (w + n - 1)
    BY <1>1, <1>3, <1>5, <2>2 DEF Offered, Measured
  <2>4. Cardinality(w .. (w + n - 1)) = n
    <3>1. w \in Int /\ w + n - 1 \in Int /\ w <= w + n - 1 /\ (w + n - 1) - w + 1 = n
      BY <1>1, <1>3
    <3> QED  BY <3>1, FS_Interval
  <2> QED  BY <1>1, <1>5, <2>3, <2>4
<1>6. CASE ~(w >= 0 /\ w + n \in Ints)
  <2>1. CASE w < 0
    <3>1. w + n \in Ints /\ Total = w + n
      BY <1>1, <1>3, <2>1 DEF Total
    <3>2. seq < h /\ w + SeqT >= h
      BY <1>1, <1>2, <1>3, <1>4, <2>1, <3>1
    <3>3. \A s \in 0 .. (seq - 1) : ~Measured(s)
      BY <1>1, <1>2, <1>3, <1>4, <2>1, <3>2 DEF Measured
    <3> QED  BY <1>1, <1>6, <3>3 DEF Offered
  <2>2. CASE w >= 0
    <3>1. w + n \notin Ints
      BY <1>6, <2>2
    <3>2. Total = (w + n) - SeqT
      BY <1>1, <3>1 DEF Total
    <3>3. seq = 0
      BY <1>1, <1>2, <1>3, <1>4, <3>2
    <3> QED  BY <1>1, <1>6, <3>3 DEF Offered
  <2> QED  BY <1>1, <1>3, <2>1, <2>2
<1> QED  BY <1>5, <1>6

(* A stream offers its client exactly count measured frames, or none when  *)
(* the warmup is negative or warmup + count overflows.                     *)
THEOREM CountIsReachable == Spec => []CountReachable
BY InvCount, IInvHolds, PTL

-----------------------------------------------------------------------------
(* The bytes of the chunks.                                                *)

\* The block while its frame is sent: the stamp is over the headers, the last
\* header over earlier ones, and a slice is a copy of it.
BlockInv ==
    /\ pc \notin Planless => DOMAIN block = 0 .. (size - 1)
    /\ pc = "notify" =>
         /\ \A x \in 0 .. (size - 1) :
              /\ x \in StampBytes => block[x] = Stamp(seq)
              /\ x \notin StampBytes /\ HeadersOver(plan, x) # {} =>
                   block[x] = Header(seq, Max(HeadersOver(plan, x)))
         /\ \A k \in 1 .. c : sent[k].bytes = Slice(block, plan, k - 1).bytes

LEMMA BlockStep ==
    ASSUME IInv, BlockInv, [Next]_vars
    PROVE  BlockInv'
<1>1. pc \in Planless \cup {"frame", "notify", "stopped"} /\ c \in Nat
  BY DEF IInv, PlanInv, SentInv
<1>2. CASE TakeArg \/ RefuseArg \/ CheckOptions \/ PlanTraps
  BY <1>2 DEF TakeArg, RefuseArg, CheckOptions, PlanTraps, BlockInv, Planless
<1>3. CASE MakePlan
  <2>1. /\ pc' = "frame" /\ opt' = opt /\ block' = [x \in 0 .. (size - 1) |-> Fill]
    BY <1>3 DEF MakePlan
  <2>2. size' = size
    BY <2>1, OptionsKept
  <2> QED  BY <2>1, <2>2 DEF BlockInv
<1>4. CASE WriteFrame
  <2>1. /\ pc = "frame" /\ opt' = opt /\ plan' = plan /\ seq' = seq /\ c' = 0
        /\ block' = StampSendNs(WriteChunkHeaders(block, seq, plan), seq)
    BY <1>4 DEF WriteFrame
  <2>2. size' = size
    BY <2>1, OptionsKept
  <2>3. DOMAIN block = 0 .. (size - 1)
    BY <2>1 DEF BlockInv, Planless
  <2> DEFINE b == WriteChunkHeaders(block, seq, plan)
  <2>4. /\ DOMAIN b = 0 .. (size - 1)
        /\ \A x \in 0 .. (size - 1) : HeadersOver(plan, x) # {} =>
             b[x] = Header(seq, Max(HeadersOver(plan, x)))
    BY <2>3 DEF WriteChunkHeaders
  <2>5. block' = [x \in DOMAIN b |-> IF x \in StampBytes THEN Stamp(seq) ELSE b[x]]
    BY <2>1 DEF StampSendNs
  <2> HIDE DEF b
  <2>6. /\ DOMAIN block' = 0 .. (size - 1)
        /\ \A x \in 0 .. (size - 1) :
              /\ x \in StampBytes => block'[x] = Stamp(seq)
              /\ x \notin StampBytes => block'[x] = b[x]
    BY <2>4, <2>5
  <2>7. \A x \in 0 .. (size - 1) : x \notin StampBytes /\ HeadersOver(plan, x) # {} =>
           block'[x] = Header(seq, Max(HeadersOver(plan, x)))
    BY <2>4, <2>6
  <2>8. \A k \in 1 .. c' : FALSE
    BY <2>1
  <2> QED  BY <2>1, <2>2, <2>6, <2>7, <2>8 DEF BlockInv
<1>5. CASE Notify
  <2>1. /\ pc = "notify" /\ pc' = "notify" /\ UNCHANGED <<opt, plan, seq, block>> /\ c' = c + 1
        /\ sent' = Append(sent, Slice(block, plan, c))
    BY <1>5 DEF Notify
  <2>2. size' = size
    BY <2>1, OptionsKept
  <2> DEFINE slice == Slice(block, plan, c)
  <2>3. PICK S : sent \in Seq(S)
    BY DEF IInv, SentInv
  <2>4. sent \in Seq(S \cup {slice}) /\ Len(sent) = c
    BY <2>3, SeqMonotonic DEF IInv, SentInv
  <2>5. sent'[c + 1] = slice /\ \A k \in 1 .. c : sent'[k] = sent[k]
    <3> HIDE DEF slice
    <3>1. sent' = Append(sent, slice)
      BY <2>1 DEF slice
    <3> QED  BY <2>4, <3>1, AppendProperties
  <2>6. ASSUME NEW k \in 1 .. (c + 1)
        PROVE  sent'[k].bytes = Slice(block, plan, k - 1).bytes
    <3>1. CASE k = c + 1
      <4>1. k - 1 = c
        BY <1>1, <3>1
      <4> QED  BY <2>5, <3>1, <4>1
    <3>2. CASE k \in 1 .. c
      BY <2>1, <2>5, <3>2 DEF BlockInv
    <3>3. k = c + 1 \/ k \in 1 .. c
      BY <1>1
    <3> QED  BY <3>1, <3>2, <3>3
  <2>7. \A k : Slice(block', plan', k - 1) = Slice(block, plan, k - 1)
    BY <2>1
  <2>8. \A k : Slice(block, plan, k - 1)' = Slice(block, plan, k - 1)
    BY <2>1, <2>2 DEF Slice
  <2>9. DOMAIN block' = 0 .. (size' - 1)
    BY <2>1, <2>2 DEF BlockInv, Planless
  <2>10. /\ \A x \in 0 .. (size' - 1) :
              /\ x \in StampBytes => block'[x] = Stamp(seq')
              /\ x \notin StampBytes /\ HeadersOver(plan', x) # {} =>
                   block'[x] = Header(seq', Max(HeadersOver(plan', x)))
    BY <2>1, <2>2 DEF BlockInv
  <2> QED  BY <2>1, <2>6, <2>8, <2>9, <2>10 DEF BlockInv
<1>6. CASE EndFrame \/ Stop
  <2>1. /\ pc \in {"frame", "notify"} /\ pc' \in {"frame", "stopped"} /\ UNCHANGED <<opt, block>>
    BY <1>6 DEF EndFrame, Stop
  <2>2. size' = size
    BY <2>1, OptionsKept
  <2> QED  BY <2>1, <2>2 DEF BlockInv, Planless
<1>7. CASE UNCHANGED vars
  <2>1. UNCHANGED <<opt, pc, plan, seq, c, block, sent>>
    BY <1>7 DEF vars
  <2>2. size' = size
    BY <2>1, OptionsKept
  <2>3. \A k : Slice(block, plan, k - 1)' = Slice(block, plan, k - 1)
    BY <2>1, <2>2 DEF Slice
  <2> QED  BY <2>1, <2>2, <2>3 DEF BlockInv
<1> QED  BY <1>2, <1>3, <1>4, <1>5, <1>6, <1>7 DEF Next

LEMMA BlockHolds == Spec => [](IInv /\ BlockInv)
<1>1. Init => IInv /\ BlockInv
  BY InvInit DEF Init, BlockInv, Planless
<1>2. IInv /\ BlockInv /\ [Next]_vars => (IInv /\ BlockInv)'
  BY InvStep, BlockStep
<1> QED  BY <1>1, <1>2, PTL DEF Spec

LEMMA MaxOfOne ==
    ASSUME NEW i \in Int
    PROVE  Max({i}) = i
<1>1. \E x \in {i} : \A y \in {i} : x >= y
  OBVIOUS
<1> QED  BY <1>1 DEF Max

\* Offsets of different chunks are a chunk apart.
LEMMA OffsetsApart ==
    ASSUME NEW len \in Nat, NEW i \in Nat, NEW j \in Nat, i < j
    PROVE  i * len + len <= j * len
<1>1. PICK d \in Nat : j = i + 1 + d
  <2>1. j - i - 1 \in Nat /\ j = i + 1 + (j - i - 1)
    OBVIOUS
  <2> QED  BY <2>1
<1>2. j * len = i * len + len + d * len /\ d * len \in Nat /\ i * len \in Nat
  BY <1>1
<1> QED  BY <1>2

\* Where headers fit, a header byte belongs to one chunk, and no other chunk's
\* header nor the stamp is written over it.
LEMMA HeaderIsAlone ==
    ASSUME NEW p, p.count \in Nat \ {0}, p.len \in Nat, p.count > 1 => p.len >= kMinFrameBytes,
           NEW i \in Nat, i < p.count, NEW b \in 0 .. (kChunkHeaderBytes - 1)
    PROVE  /\ HeadersOver(p, SliceOff(p, i) + b) = {i}
           /\ SliceOff(p, i) + b \notin StampBytes
<1> DEFINE x == SliceOff(p, i) + b
<1>1. b \in Nat /\ b < 8 /\ (p.count > 1 => p.len >= 16)
  BY DEF kMinFrameBytes, kChunkHeaderBytes
<1>2. SliceOff(p, i) \in Nat /\ (i = 0 => SliceOff(p, i) = 0)
  BY DEF SliceOff
<1>3. x \in HeaderBytes(p, i)
  BY <1>1, <1>2 DEF HeaderBytes, kChunkHeaderBytes
<1>4. ASSUME NEW j \in 0 .. (p.count - 1), j # i
      PROVE  x \notin HeaderBytes(p, j)
  <2>1. p.len >= 16 /\ j \in Nat
    BY <1>1, <1>4
  <2>2. SliceOff(p, j) \in Nat
    BY <2>1 DEF SliceOff
  <2>3. CASE i < j
    <3>1. SliceOff(p, i) + p.len <= SliceOff(p, j)
      BY <2>1, <2>3, OffsetsApart DEF SliceOff
    <3>2. x < SliceOff(p, j)
      BY <1>1, <1>2, <2>1, <2>2, <3>1
    <3> QED  BY <1>1, <1>2, <2>2, <3>2 DEF HeaderBytes
  <2>4. CASE j < i
    <3>1. SliceOff(p, j) + p.len <= SliceOff(p, i)
      BY <2>1, <2>4, OffsetsApart DEF SliceOff
    <3>2. x > SliceOff(p, j) + 7
      BY <1>1, <1>2, <2>1, <2>2, <3>1
    <3> QED  BY <1>1, <1>2, <2>2, <3>2 DEF HeaderBytes, kChunkHeaderBytes
  <2> QED  BY <1>4, <2>1, <2>3, <2>4
<1>5. HeadersOver(p, x) = {i}
  <2>1. i \in 0 .. (p.count - 1)
    OBVIOUS
  <2> HIDE DEF x
  <2> QED  BY <1>3, <1>4, <2>1 DEF HeadersOver
<1>6. x \notin StampBytes
  <2>1. CASE i = 0
    BY <1>1, <1>2, <2>1 DEF StampBytes, kChunkHeaderBytes, kMinFrameBytes
  <2>2. CASE i > 0
    <3>1. p.len >= 16
      BY <1>1, <2>2
    <3>2. 0 * p.len + p.len <= SliceOff(p, i)
      BY <2>2, <3>1, OffsetsApart DEF SliceOff
    <3>3. x >= 16
      BY <1>1, <1>2, <3>1, <3>2
    <3> QED  BY <1>1, <1>2, <3>3 DEF StampBytes, kChunkHeaderBytes, kMinFrameBytes
  <2> QED  BY <2>1, <2>2
<1> QED  BY <1>5, <1>6

LEMMA InvLabelled == IInv /\ BlockInv => LabelledIffHeadersFit
<1> SUFFICES ASSUME IInv, BlockInv, pc = "notify", c = plan.count
             PROVE  HeadersFit(plan, size) <=> \A k \in 1 .. Len(sent) : Labelled(k)
  BY DEF LabelledIffHeadersFit
<1>1. /\ plan.count \in Nat \ {0} /\ plan.len \in Nat \ {0}
      /\ (plan.count - 1) * plan.len < size /\ size <= plan.count * plan.len
      /\ size \in Nat \ {0}
  BY WorkerPlanGeometry DEF IInv, Planless
<1>2. /\ Len(sent) = plan.count
      /\ \A k \in 1 .. plan.count : sent[k].len = SliceLen(plan, size, k - 1)
  BY DEF IInv, SentInv
<1>3. size >= 16
  BY OptionRanges DEF IInv, PlanInv, kMinFrameBytes, kChunkHeaderBytes
\* A first slice of a frame of one chunk is the frame.
<1>4. plan.count = 1 => SliceLen(plan, size, 0) = size
  BY <1>1 DEF SliceLen, SliceOff
<1>5. plan.count > 1 => SliceLen(plan, size, 0) = plan.len
  BY <1>1, SliceBounds
<1>6. ASSUME \A k \in 1 .. Len(sent) : Labelled(k)
      PROVE  HeadersFit(plan, size)
  <2>1. Labelled(1) /\ Labelled(plan.count)
    BY <1>1, <1>2, <1>6
  <2>2. /\ SliceLen(plan, size, 0) >= kMinFrameBytes
        /\ SliceLen(plan, size, plan.count - 1) >= kChunkHeaderBytes
    BY <1>1, <1>2, <2>1 DEF Labelled
  <2> QED  BY <1>5, <2>2 DEF HeadersFit
<1>7. ASSUME HeadersFit(plan, size), NEW k \in 1 .. plan.count
      PROVE  Labelled(k)
  <2>1. k - 1 \in Nat /\ k - 1 < plan.count /\ plan.count > 1 => plan.len >= kMinFrameBytes
    BY <1>1, <1>7 DEF HeadersFit
  <2>2. /\ SliceOff(plan, k - 1) \in Nat
        /\ SliceLen(plan, size, k - 1) \in Nat
        /\ SliceLen(plan, size, k - 1) >= kChunkHeaderBytes
    BY <1>1, <1>7, SliceBounds, SliceHoldsHeader
  \* Byte b of the slice is byte x of the block.
  <2>3. ASSUME NEW b \in Nat, b < SliceLen(plan, size, k - 1)
        PROVE  /\ SliceOff(plan, k - 1) + b \in 0 .. (size - 1)
               /\ sent[k].bytes[b] = block[SliceOff(plan, k - 1) + b]
    <3>1. SliceLen(plan, size, k - 1) <= size - SliceOff(plan, k - 1)
      <4>1. plan.len \in Nat /\ size - SliceOff(plan, k - 1) \in Int
        BY <1>1, <2>2
      <4>2. SliceLen(plan, size, k - 1) =
              IF plan.len <= size - SliceOff(plan, k - 1)
                THEN plan.len ELSE size - SliceOff(plan, k - 1)
        BY <1>1, <2>2 DEF SliceLen
      <4> QED  BY <4>1, <4>2
    <3>2. b \in 0 .. (SliceLen(plan, size, k - 1) - 1)
      BY <2>2, <2>3
    <3>3. SliceOff(plan, k - 1) + b \in 0 .. (size - 1)
      BY <1>1, <2>2, <2>3, <3>1
    <3>4. sent[k].bytes = Slice(block, plan, k - 1).bytes
      BY <1>1 DEF BlockInv
    <3> QED  BY <3>2, <3>3, <3>4 DEF Slice
  <2>4. ASSUME NEW b \in 0 .. (kChunkHeaderBytes - 1)
        PROVE  sent[k].bytes[b] = Header(seq, k - 1)
    <3>1. b \in Nat /\ b < SliceLen(plan, size, k - 1)
      BY <2>2, <2>4 DEF kChunkHeaderBytes
    <3> DEFINE x == SliceOff(plan, k - 1) + b
    <3>2. x \in 0 .. (size - 1) /\ sent[k].bytes[b] = block[x]
      BY <2>3, <3>1
    <3>3. HeadersOver(plan, x) = {k - 1} /\ x \notin StampBytes
      BY <1>1, <2>1, HeaderIsAlone
    <3> HIDE DEF x
    <3>4. block[x] = Header(seq, Max(HeadersOver(plan, x)))
      BY <3>2, <3>3 DEF BlockInv
    <3>5. Max({k - 1}) = k - 1
      BY <2>1, MaxOfOne
    <3> QED  BY <3>2, <3>3, <3>4, <3>5
  <2>5. ASSUME k = 1
        PROVE  /\ SliceLen(plan, size, 0) >= kMinFrameBytes
               /\ \A b \in StampBytes : sent[1].bytes[b] = Stamp(seq)
    <3>1. SliceLen(plan, size, 0) \in Nat /\ SliceLen(plan, size, 0) >= 16
      <4>1. plan.count > 1 => plan.len >= 16
        BY <1>7 DEF HeadersFit, kMinFrameBytes, kChunkHeaderBytes
      <4> QED  BY <1>1, <1>3, <1>4, <1>5, <4>1
    <3>2. SliceOff(plan, 0) = 0
      BY <1>1 DEF SliceOff
    <3>3. ASSUME NEW b \in StampBytes
          PROVE  sent[1].bytes[b] = Stamp(seq)
      <4>1. b \in Nat /\ b < 16
        BY DEF StampBytes, kMinFrameBytes, kChunkHeaderBytes
      <4>2. k - 1 = 0
        BY <2>5
      <4>3. b < SliceLen(plan, size, k - 1)
        BY <3>1, <4>1, <4>2
      <4>4. /\ SliceOff(plan, k - 1) + b \in 0 .. (size - 1)
            /\ sent[k].bytes[b] = block[SliceOff(plan, k - 1) + b]
        BY <2>3, <4>1, <4>3
      <4>5. SliceOff(plan, k - 1) + b = b
        BY <3>2, <4>1, <4>2
      <4> QED  BY <2>5, <4>4, <4>5 DEF BlockInv
    <3>4. SliceLen(plan, size, 0) >= kMinFrameBytes
      BY <3>1 DEF kMinFrameBytes, kChunkHeaderBytes
    <3> QED  BY <3>3, <3>4
  <2>6. sent[k].len = SliceLen(plan, size, k - 1) /\ (k = 1 => k - 1 = 0)
    BY <1>2
  <2> QED  BY <2>2, <2>4, <2>5, <2>6 DEF Labelled
<1> QED  BY <1>2, <1>6, <1>7

(* Every notified chunk carries its own header of this frame, and chunk 0  *)
(* the send stamp, exactly when HeadersFit holds of the plan: the header   *)
(* loop of the publisher writes over itself, or past the block, in every   *)
(* other case and in no such one.                                          *)
THEOREM ChunksAreLabelled == Spec => []LabelledIffHeadersFit
BY InvLabelled, BlockHolds, PTL
=============================================================================
