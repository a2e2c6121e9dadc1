------------------------ MODULE NetPingPong_proofs --------------------------
(***************************************************************************)
(* What the network bench measures, for every stack, every number of       *)
(* probes, samples and slots, and every moment at which the peers match.   *)
(*                                                                         *)
(* The argument is the order of the channels: whatever is on its way is    *)
(* ordered by number from rep over the subscriber's hand to req, and until *)
(* the link no number is above the one waited for.  The echo that makes    *)
(* the link therefore was the last sample on its way, and from then on the *)
(* pipe holds at most the one sample being measured.                       *)
(***************************************************************************)
EXTENDS NetPingPong, SequenceTheorems, TLAPS

Waiting == pub \in {"read", "blocked"}

Rising(ch) == \A k, l \in 1 .. Len(ch) : k < l => ch[k].seq < ch[l].seq

(* Older samples are nearer to the publisher.                              *)
Ordered ==
    /\ Rising(req) /\ Rising(rep)
    /\ \A k \in 1 .. Len(rep) : \A l \in 1 .. Len(req) : rep[k].seq < req[l].seq
    /\ sub = "echo" =>
         /\ \A l \in 1 .. Len(req) : hand.seq < req[l].seq
         /\ \A k \in 1 .. Len(rep) : rep[k].seq < hand.seq

(* The largest number written so far.                                      *)
LastProbe == IF Waiting THEN i + 1 ELSE i

(* No probe on its way is newer than the one waited for.                   *)
NoneAhead ==
    (~linked /\ pub # "exited") =>
        /\ \A l \in 1 .. Len(req) : req[l].seq <= LastProbe
        /\ \A k \in 1 .. Len(rep) : rep[k].seq <= LastProbe
        /\ sub = "echo" => hand.seq <= LastProbe

(* While a sample is measured there is nothing but this sample.            *)
OnlyWanted ==
    linked =>
        /\ pub = "send" => InFlight = 0
        /\ Waiting =>
             /\ \A l \in 1 .. Len(req) : req[l] = Sample(Want, TRUE)
             /\ \A k \in 1 .. Len(rep) : rep[k] = Sample(Want, TRUE)
             /\ sub = "echo" => hand = Sample(Want, TRUE)

(* What arrives proves its direction matched.                              *)
MatchedByUse ==
    /\ (Len(req) > 0 \/ sub = "echo") => reqUp
    /\ Len(rep) > 0 => reqUp /\ repUp
    /\ linked => reqUp /\ repUp

(* Where the publisher's loops stand.                                      *)
Progress ==
    /\ pub = "probe" => ~linked
    /\ pub = "send" => linked
    /\ pub # "exited" =>
         /\ i < (IF linked THEN Warmup + Count ELSE Probes)
         /\ pubExit = "none"
    /\ Len(half) = IF linked /\ i > Warmup THEN i - Warmup ELSE 0

IInv ==
    /\ TypeOK /\ Progress /\ Ordered /\ NoneAhead
    /\ OneInFlight /\ OnlyWanted /\ MatchedByUse
    /\ EchoUnderWay /\ OwnEcho /\ RowComplete

-----------------------------------------------------------------------------
(* Samples a write pushes out.                                             *)
Gone(ch) == IF Len(ch) < Depth THEN 0 ELSE 1

(* What a write to a matched channel does: the sample is the last one, at  *)
(* most the oldest one is gone, and a rising channel stays rising.         *)
LEMMA PutRises ==
    ASSUME NEW ch \in Seq(Samples), NEW s \in Samples, Len(ch) <= Depth,
           Rising(ch), \A k \in 1 .. Len(ch) : ch[k].seq < s.seq
    PROVE  LET r == Put(ch, TRUE, s) IN
           /\ r \in Seq(Samples) /\ Len(r) <= Depth /\ Len(r) \in Nat /\ Len(r) > 0
           /\ Rising(r)
           /\ \A l \in 1 .. Len(r) : r[l] = s \/ \E k \in 1 .. Len(ch) : r[l] = ch[k]
           /\ r[Len(r)] = s
           /\ Len(ch) < Depth => Len(r) = Len(ch) + 1
<1> SUFFICES ASSUME NEW r, Put(ch, TRUE, s) = r
             PROVE  /\ r \in Seq(Samples) /\ Len(r) <= Depth /\ Len(r) \in Nat /\ Len(r) > 0
                    /\ Rising(r)
                    /\ \A l \in 1 .. Len(r) : r[l] = s \/ \E k \in 1 .. Len(ch) : r[l] = ch[k]
                    /\ r[Len(r)] = s
                    /\ Len(ch) < Depth => Len(r) = Len(ch) + 1
  OBVIOUS
<1>1. /\ r \in Seq(Samples) /\ Len(r) <= Depth
      /\ Len(r) = Len(ch) - Gone(ch) + 1
      /\ r[Len(r)] = s
      /\ \A k \in 1 .. (Len(r) - 1) :
           k + Gone(ch) \in 1 .. Len(ch) /\ r[k] = ch[k + Gone(ch)]
  <2>1. Depth \in Nat
    BY NetAssumption
  <2>5. Depth > 0
    BY NetAssumption
  <2>6. Len(ch) \in Nat
    OBVIOUS
  <2>2. ASSUME NEW t \in Seq(Samples), r = Append(t, s)
        PROVE  /\ r \in Seq(Samples) /\ Len(t) \in Nat /\ Len(r) = Len(t) + 1
               /\ r[Len(t) + 1] = s
               /\ \A k \in 1 .. Len(t) : r[k] = t[k]
    <3>1. /\ Append(t, s) \in Seq(Samples) /\ Len(t) \in Nat
          /\ Len(Append(t, s)) = Len(t) + 1
          /\ Append(t, s)[Len(t) + 1] = s
          /\ \A k \in 1 .. Len(t) : Append(t, s)[k] = t[k]
      OBVIOUS
    <3> QED
      BY <2>2, <3>1, Zenon
  <2>3. CASE Len(ch) < Depth
    <3>1. r = Append(ch, s) /\ Gone(ch) = 0
      BY <2>3 DEF Put, Gone
    <3>2. /\ r \in Seq(Samples) /\ Len(r) = Len(ch) + 1
          /\ r[Len(ch) + 1] = s
          /\ \A k \in 1 .. Len(ch) : r[k] = ch[k]
      BY <2>2, <3>1
    <3>3. Gone(ch) = 0
      BY <3>1
    <3>7. Len(r) = Len(ch) + 1
      BY <3>2
    <3>4. Len(r) <= Depth
      BY <2>1, <2>5, <2>6, <2>3, <3>7
    <3>8. Len(r) = Len(ch) - Gone(ch) + 1
      BY <2>1, <2>5, <2>6, <3>3, <3>7
    <3>5. r[Len(r)] = s
      BY <3>2, Zenon
    <3>6. ASSUME NEW k \in 1 .. (Len(r) - 1)
          PROVE  k + Gone(ch) \in 1 .. Len(ch) /\ r[k] = ch[k + Gone(ch)]
      <4>1. k \in 1 .. Len(ch)
        BY <2>1, <2>5, <2>6, <3>7, <3>6
      <4>2. k + Gone(ch) = k
        BY <4>1, <3>3
      <4> QED
        BY <3>2, <4>1, <4>2
    <3> QED
      BY <3>2, <3>4, <3>5, <3>6, <3>8
  <2>4. CASE ~(Len(ch) < Depth)
    <3>1. r = Append(Tail(ch), s) /\ Gone(ch) = 1
      BY <2>4 DEF Put, Gone
    <3>2. Len(ch) > 0 /\ Len(ch) = Depth
      BY <2>1, <2>5, <2>6, <2>4
    <3>3. /\ Tail(ch) \in Seq(Samples) /\ Len(Tail(ch)) = Len(ch) - 1
          /\ \A k \in 1 .. Len(Tail(ch)) : Tail(ch)[k] = ch[k + 1]
      BY <3>2
    <3> DEFINE t == Tail(ch)
    <3>4. t \in Seq(Samples) /\ Len(t) = Len(ch) - 1 /\ \A k \in 1 .. Len(t) : t[k] = ch[k + 1]
      BY <3>3
    <3>5. r = Append(t, s)
      BY <3>1
    <3> HIDE DEF t
    <3>6. /\ r \in Seq(Samples) /\ Len(t) \in Nat /\ Len(r) = Len(t) + 1
          /\ r[Len(t) + 1] = s
          /\ \A k \in 1 .. Len(t) : r[k] = t[k]
      BY <2>2, <3>4, <3>5
    <3>7. Gone(ch) = 1
      BY <3>1
    <3>11. Len(t) = Len(ch) - 1 /\ Len(r) = Len(t) + 1
      BY <3>4, <3>6, Zenon
    <3>12. Len(r) = Len(ch)
      BY <2>1, <2>5, <2>6, <3>11
    <3>13. Len(r) <= Depth
      BY <2>1, <2>5, <2>6, <3>2, <3>12
    <3>8. Len(r) = Len(ch) - Gone(ch) + 1
      BY <2>1, <2>5, <2>6, <3>7, <3>12
    <3>9. r[Len(r)] = s
      BY <3>6, Zenon
    <3>10. ASSUME NEW k \in 1 .. (Len(r) - 1)
           PROVE  k + Gone(ch) \in 1 .. Len(ch) /\ r[k] = ch[k + Gone(ch)]
      <4>1. k \in 1 .. Len(t)
        BY <2>1, <2>5, <2>6, <3>10, <3>11
      <4>2. k + 1 \in 1 .. Len(ch)
        BY <2>1, <2>5, <2>6, <3>11, <4>1
      <4>3. k + Gone(ch) = k + 1
        BY <3>7, <4>1
      <4> QED
        BY <3>4, <3>6, <4>1, <4>2, <4>3
    <3> QED
      BY <3>6, <3>8, <3>9, <3>10, <3>13
  <2> QED
    BY <2>3, <2>4
<1>2. Gone(ch) \in {0, 1} /\ (Len(ch) < Depth => Gone(ch) = 0)
  BY DEF Gone
<1>3. Len(ch) \in Nat /\ Depth \in Nat /\ Depth > 0
  BY NetAssumption
<1>4. Len(r) \in Nat /\ Len(r) > 0 /\ (Len(ch) < Depth => Len(r) = Len(ch) + 1)
  BY <1>1, <1>2, <1>3
<1>5. \A l \in 1 .. Len(r) : r[l] = s \/ \E k \in 1 .. Len(ch) : r[l] = ch[k]
  <2>1. ASSUME NEW l \in 1 .. Len(r), l # Len(r)
        PROVE  l \in 1 .. (Len(r) - 1)
    BY <1>4, <2>1
  <2> QED
    BY <1>1, <2>1
<1>6. ASSUME NEW k \in 1 .. Len(r), NEW l \in 1 .. Len(r), k < l
      PROVE  r[k].seq < r[l].seq
  <2>1. k \in 1 .. (Len(r) - 1)
    BY <1>4, <1>6
  <2>2. CASE l = Len(r)
    BY <1>1, <2>1, <2>2
  <2>3. CASE l # Len(r)
    <3>1. l \in 1 .. (Len(r) - 1)
      BY <1>4, <2>3
    <3>2. k + Gone(ch) < l + Gone(ch)
      BY <1>2, <1>6
    <3> QED
      BY <1>1, <2>1, <3>1, <3>2 DEF Rising
  <2> QED
    BY <2>2, <2>3
<1> QED
  BY <1>1, <1>4, <1>5, <1>6 DEF Rising

(* Taking the oldest sample shifts the others.                             *)
LEMMA TailShape ==
    ASSUME NEW ch \in Seq(Samples), ch # <<>>
    PROVE  /\ Len(ch) \in Nat /\ Len(ch) > 0
           /\ Head(ch) = ch[1] /\ ch[1] \in Samples
           /\ Tail(ch) \in Seq(Samples)
           /\ Len(Tail(ch)) = Len(ch) - 1
           /\ \A k \in 1 .. Len(Tail(ch)) : k + 1 \in 1 .. Len(ch) /\ Tail(ch)[k] = ch[k + 1]
  OBVIOUS

-----------------------------------------------------------------------------
LEMMA InitInv == Init => IInv
<1> SUFFICES ASSUME Init PROVE IInv
  OBVIOUS
<1> USE NetAssumption DEF Init, Sample, Samples
<1>0. Warmup + Count \in Nat /\ Probes \in Nat \ {0} /\ Depth \in Nat \ {0} /\ Count \in Nat \ {0}
  BY DEF kSeqBase
<1>1. TypeOK
  <2>1. i \in 0 .. (IF linked THEN Warmup + Count ELSE Probes) /\ row \in -1 .. Count
    BY <1>0
  <2>2. half \in Seq([want : Nat, got : Samples]) /\ req \in Seq(Samples) /\ rep \in Seq(Samples)
    OBVIOUS
  <2>3. Len(req) <= Depth /\ Len(rep) <= Depth
    BY <1>0
  <2>4. hand \in Samples /\ sub \in {"match", "take", "echo", "exited"}
    OBVIOUS
  <2> QED
    BY <2>1, <2>2, <2>3, <2>4 DEF TypeOK
<1>2. Progress /\ RowComplete
  BY <1>0 DEF Progress, RowComplete, kSeqBase
<1>3. Ordered /\ NoneAhead /\ OneInFlight /\ OnlyWanted /\ MatchedByUse
  BY DEF Ordered, Rising, NoneAhead, OneInFlight, OnlyWanted, MatchedByUse, LastProbe
<1>4. EchoUnderWay /\ OwnEcho
  BY DEF EchoUnderWay, OwnEcho
<1> QED
  BY <1>1, <1>2, <1>3, <1>4 DEF IInv

-----------------------------------------------------------------------------
(* Constants and ranges in the form the arithmetic needs.                  *)
LEMMA Ranges ==
    /\ Warmup \in Nat /\ Count \in Nat /\ Count > 0
    /\ Depth \in Nat /\ Depth > 0 /\ Probes \in Nat /\ Probes > 0
    /\ Probes <= kSeqBase /\ kSeqBase \in Nat
    /\ Warmup + Count \in Nat
BY NetAssumption DEF kSeqBase

(* Numbers on their way are numbers.                                       *)
LEMMA SeqRange ==
    ASSUME TypeOK
    PROVE  /\ \A l \in 1 .. Len(req) : req[l] \in Samples /\ req[l].seq \in Nat
           /\ \A k \in 1 .. Len(rep) : rep[k] \in Samples /\ rep[k].seq \in Nat
           /\ hand \in Samples /\ hand.seq \in Nat
           /\ Len(req) \in Nat /\ Len(rep) \in Nat
<1>1. req \in Seq(Samples) /\ rep \in Seq(Samples) /\ hand \in Samples
  BY DEF TypeOK
<1>2. \A l \in 1 .. Len(req) : req[l] \in Samples
  BY <1>1
<1>3. \A k \in 1 .. Len(rep) : rep[k] \in Samples
  BY <1>1
<1>4. \A x \in Samples : x.seq \in Nat
  BY DEF Samples
<1>5. Len(req) \in Nat /\ Len(rep) \in Nat
  BY <1>1
<1> QED
  BY <1>1, <1>2, <1>3, <1>4, <1>5

(* A round of the link phase without an echo touches no channel.           *)
LEMMA NextProbeInv ==
    ASSUME IInv, NextProbe, ~linked, pub \in {"probe", "read"},
           UNCHANGED <<subVars, netVars, req, rep>>
    PROVE  IInv'
<1> USE DEF NextProbe, ExitPub, subVars, netVars
<1>1. i \in Nat /\ i < Probes /\ ~linked' /\ pubExit = "none"
  BY Ranges DEF IInv, TypeOK, Progress
<1>2. TypeOK'
  BY <1>1, Ranges DEF IInv, TypeOK
<1>3. Progress'
  BY <1>1, Ranges DEF IInv, Progress
<1>4. Ordered'
  BY DEF IInv, Ordered, Rising
<1>5. NoneAhead'
  <2>1. LastProbe <= i + 1 /\ LastProbe \in Nat
    BY <1>1 DEF LastProbe, Waiting
  <2>2. LastProbe' = i + 1 \/ pub' = "exited"
    BY DEF LastProbe, Waiting
  <2>3. /\ \A l \in 1 .. Len(req) : req[l].seq <= LastProbe
        /\ \A k \in 1 .. Len(rep) : rep[k].seq <= LastProbe
        /\ sub = "echo" => hand.seq <= LastProbe
    BY DEF IInv, NoneAhead
  <2>4. /\ \A l \in 1 .. Len(req) : req[l].seq <= i + 1
        /\ \A k \in 1 .. Len(rep) : rep[k].seq <= i + 1
        /\ sub = "echo" => hand.seq <= i + 1
    BY <1>1, <2>1, <2>3, SeqRange DEF IInv
  <2> QED
    BY <2>2, <2>4 DEF NoneAhead
<1>6. OneInFlight' /\ OnlyWanted' /\ MatchedByUse' /\ EchoUnderWay'
  BY <1>1 DEF IInv, OneInFlight, OnlyWanted, MatchedByUse, EchoUnderWay
<1>7. OwnEcho' /\ RowComplete'
  BY <1>1 DEF IInv, OwnEcho, RowComplete
<1> QED
  BY <1>2, <1>3, <1>4, <1>5, <1>6, <1>7 DEF IInv

(* A probe goes behind everything on its way and is newer than all of it.  *)
LEMMA ProbeInv == ASSUME IInv, Probe PROVE IInv'
<1>0. /\ pub = "probe" /\ pub' = "read" /\ Put(req, reqUp, Sample(Want, FALSE)) = req'
      /\ linked' = linked /\ i' = i /\ half' = half /\ row' = row /\ pubExit' = pubExit
      /\ sub' = sub /\ subExit' = subExit /\ hand' = hand
      /\ stack' = stack /\ calm' = calm
      /\ reqUp' = reqUp /\ repUp' = repUp /\ rep' = rep
  BY DEF Probe, subVars, netVars
<1>1. /\ ~linked /\ ~linked' /\ i \in Nat /\ i < Probes /\ Want = i + 1
      /\ LastProbe = i /\ LastProbe' = i + 1 /\ pubExit = "none"
  BY <1>0, Ranges DEF IInv, TypeOK, Progress, Want, LastProbe, Waiting
<1>2. /\ \A l \in 1 .. Len(req) : req[l].seq <= i
      /\ \A k \in 1 .. Len(rep) : rep[k].seq <= i
      /\ sub = "echo" => hand.seq <= i
  BY <1>0, <1>1 DEF IInv, NoneAhead
<1>3. Sample(i + 1, FALSE) \in Samples /\ Sample(i + 1, FALSE).seq = i + 1
  BY <1>1 DEF Sample, Samples
<1>4. /\ req' \in Seq(Samples) /\ Len(req') <= Depth
      /\ (Len(req') > 0) => reqUp
      /\ Rising(req')
      /\ \A l \in 1 .. Len(req') :
           /\ req'[l].seq <= i + 1
           /\ \A k \in 1 .. Len(rep) : rep[k].seq < req'[l].seq
           /\ sub = "echo" => hand.seq < req'[l].seq
  <2>1. CASE ~reqUp
    <3>1. req' = req
      BY <1>0, <2>1 DEF Put
    <3> QED
      BY <2>1, <3>1, <1>1, <1>2, SeqRange DEF IInv, TypeOK, Ordered, Rising, MatchedByUse
  <2>2. CASE reqUp
    <3> DEFINE p == Sample(i + 1, FALSE)
    <3>1. /\ req \in Seq(Samples) /\ Len(req) <= Depth /\ Rising(req) /\ p \in Samples
          /\ p.seq = i + 1 /\ \A l \in 1 .. Len(req) : req[l].seq < i + 1
      <4>1. req \in Seq(Samples) /\ Len(req) <= Depth /\ Rising(req)
        BY DEF IInv, TypeOK, Ordered
      <4>2. \A l \in 1 .. Len(req) : req[l].seq < i + 1
        BY <1>1, <1>2, SeqRange DEF IInv
      <4> QED
        BY <4>1, <4>2, <1>3
    <3>2. req' = Put(req, TRUE, p)
      BY <2>2, <1>0, <1>1
    <3> HIDE DEF p
    <3>3. /\ req' \in Seq(Samples) /\ Len(req') <= Depth /\ Rising(req')
          /\ \A l \in 1 .. Len(req') : req'[l] = p \/ \E k \in 1 .. Len(req) : req'[l] = req[k]
      BY <3>1, <3>2, PutRises
    <3>4. ASSUME NEW l \in 1 .. Len(req')
          PROVE  /\ req'[l].seq <= i + 1
                 /\ \A k \in 1 .. Len(rep) : rep[k].seq < req'[l].seq
                 /\ sub = "echo" => hand.seq < req'[l].seq
      <4>1. CASE req'[l] = p
        <5>1. req'[l].seq = i + 1
          BY <4>1, <3>1
        <5> QED
          BY <5>1, <1>1, <1>2, SeqRange DEF IInv
      <4>2. ASSUME NEW k \in 1 .. Len(req), req'[l] = req[k]
            PROVE  /\ req'[l].seq <= i + 1
                   /\ \A m \in 1 .. Len(rep) : rep[m].seq < req'[l].seq
                   /\ sub = "echo" => hand.seq < req'[l].seq
        BY <4>2, <1>1, <1>2, SeqRange DEF IInv, Ordered
      <4> QED
        BY <3>3, <4>1, <4>2
    <3> QED
      BY <2>2, <3>3, <3>4
  <2> QED
    BY <2>1, <2>2 DEF IInv, TypeOK
<1>5. TypeOK'
  BY <1>0, <1>1, <1>4 DEF IInv, TypeOK
<1>6. Progress'
  BY <1>0, <1>1 DEF IInv, Progress
<1>7. Ordered'
  BY <1>0, <1>4 DEF IInv, Ordered, Rising
<1>8. NoneAhead'
  <2>1. ASSUME NEW n \in Nat, n <= i PROVE n <= i + 1
    BY <2>1, <1>1
  <2>2. /\ \A k \in 1 .. Len(rep) : rep[k].seq \in Nat
        /\ hand.seq \in Nat
    <3>1. TypeOK
      BY DEF IInv
    <3> QED
      BY <3>1, SeqRange, Zenon
  <2>3. /\ \A k \in 1 .. Len(rep) : rep[k].seq <= i + 1
        /\ sub = "echo" => hand.seq <= i + 1
    BY <1>2, <2>1, <2>2, Zenon
  <2> QED
    BY <1>0, <1>1, <1>4, <2>3 DEF NoneAhead
<1>9. OneInFlight' /\ OnlyWanted' /\ MatchedByUse' /\ EchoUnderWay'
  BY <1>0, <1>1, <1>4 DEF IInv, OneInFlight, OnlyWanted, MatchedByUse, EchoUnderWay
<1>10. OwnEcho' /\ RowComplete'
  BY <1>0 DEF IInv, OwnEcho, RowComplete
<1> QED
  BY <1>5, <1>6, <1>7, <1>8, <1>9, <1>10 DEF IInv

(* A measured sample is written into an empty pipe.                        *)
LEMMA SendInv == ASSUME IInv, Send PROVE IInv'
<1>0. /\ pub = "send" /\ pub' = "read" /\ Put(req, reqUp, Sample(Want, TRUE)) = req'
      /\ linked' = linked /\ i' = i /\ half' = half /\ row' = row /\ pubExit' = pubExit
      /\ sub' = sub /\ subExit' = subExit /\ hand' = hand
      /\ stack' = stack /\ calm' = calm
      /\ reqUp' = reqUp /\ repUp' = repUp /\ rep' = rep
  BY DEF Send, subVars, netVars
<1>1. /\ linked /\ i \in Nat /\ i < Warmup + Count /\ Want \in Nat /\ Want' = Want
      /\ pubExit = "none" /\ reqUp
  BY <1>0, Ranges DEF IInv, TypeOK, Progress, Want, MatchedByUse
<1>2. Len(req) = 0 /\ Len(rep) = 0 /\ sub # "echo"
  <2>1. InFlight = 0
    BY <1>0, <1>1 DEF IInv, OnlyWanted
  <2> QED
    BY <2>1, SeqRange DEF IInv, InFlight
<1>4. Sample(Want, TRUE) \in Samples /\ Sample(Want, TRUE).seq = Want
  BY <1>1 DEF Sample, Samples
<1>3. /\ req' \in Seq(Samples) /\ Len(req') = 1 /\ req'[1] = Sample(Want, TRUE)
      /\ \A l \in 1 .. Len(req') : l = 1
  <2>1. req = <<>>
    BY <1>2 DEF IInv, TypeOK
  <2>2. Len(req) < Depth
    BY <1>2, Ranges
  <2> DEFINE p == Sample(Want, TRUE)
  <2>3. req' = Append(<<>>, p)
    BY <1>0, <1>1, <2>1, <2>2 DEF Put
  <2>4. p \in Samples
    BY <1>4
  <2> HIDE DEF p
  <2>5. req' \in Seq(Samples) /\ Len(req') = 1 /\ req'[1] = p
    BY <2>3, <2>4
  <2> QED
    BY <2>5 DEF p
<1>5. TypeOK'
  <2>0. Len(req') <= Depth
    BY <1>3, Ranges
  <2>1. req' \in Seq(Samples)
    BY <1>3
  <2> QED
    BY <1>0, <2>0, <2>1 DEF IInv, TypeOK
<1>6. Progress'
  BY <1>0, <1>1 DEF IInv, Progress
<1>7. Ordered'
  BY <1>0, <1>2, <1>3 DEF IInv, Ordered, Rising
<1>8. NoneAhead' /\ MatchedByUse'
  BY <1>0, <1>1 DEF IInv, NoneAhead, MatchedByUse
<1>9. OneInFlight' /\ OnlyWanted'
  <2>1. InFlight' = 1
    BY <1>0, <1>2, <1>3 DEF InFlight
  <2>2. \A k \in 1 .. Len(rep) : FALSE
    BY <1>2
  <2>3. OneInFlight'
    BY <2>1 DEF OneInFlight
  <2>4. \A l \in 1 .. Len(req') : req'[l] = Sample(Want, TRUE)
    BY <1>3
  <2> QED
    BY <1>0, <1>1, <1>2, <2>2, <2>3, <2>4 DEF OnlyWanted, Sample
<1>10. EchoUnderWay'
  <2>1. 1 \in 1 .. Len(req')
    BY <1>3
  <2>2. req'[1].seq = Want
    BY <1>3, <1>4
  <2>3. req'[1].seq = Want'
    BY <1>1, <2>2
  <2> QED
    BY <2>1, <2>3 DEF EchoUnderWay, UnderWay, Holds
<1>11. OwnEcho' /\ RowComplete'
  BY <1>0 DEF IInv, OwnEcho, RowComplete
<1> QED
  BY <1>5, <1>6, <1>7, <1>8, <1>9, <1>10, <1>11 DEF IInv

(* Taking a request moves the oldest one into the hand.                    *)
LEMMA TakeReqInv == ASSUME IInv, TakeReq PROVE IInv'
<1>0. /\ sub = "take" /\ sub' = "echo" /\ req # <<>> /\ Tail(req) = req' /\ hand' = req[1]
      /\ pub' = pub /\ linked' = linked /\ i' = i /\ half' = half /\ row' = row
      /\ pubExit' = pubExit /\ subExit' = subExit
      /\ stack' = stack /\ calm' = calm
      /\ reqUp' = reqUp /\ repUp' = repUp /\ rep' = rep
  <2>1. hand' = Head(req) /\ req # <<>>
    BY DEF TakeReq
  <2>2. Head(req) = req[1]
    BY <2>1, TailShape DEF IInv, TypeOK
  <2> QED
    BY <2>1, <2>2 DEF TakeReq, pubVars, netVars
<1>1. /\ Len(req) \in Nat /\ Len(req) > 0 /\ 1 \in 1 .. Len(req) /\ req[1] \in Samples
      /\ req' \in Seq(Samples) /\ Len(req') = Len(req) - 1
      /\ \A k \in 1 .. Len(req') : k + 1 \in 1 .. Len(req) /\ req'[k] = req[k + 1] /\ 1 < k + 1
  <2>1. req \in Seq(Samples)
    BY DEF IInv, TypeOK
  <2> QED
    BY <1>0, <2>1, TailShape
<1>2. TypeOK'
  <2>1. Len(req') <= Depth
    BY <1>1, Ranges DEF IInv, TypeOK
  <2> QED
    BY <1>0, <1>1, <2>1 DEF IInv, TypeOK
<1>3. Progress' /\ OwnEcho' /\ RowComplete'
  BY <1>0 DEF IInv, Progress, OwnEcho, RowComplete
<1>4. Ordered'
  <2>1. Rising(req')
    <3>1. ASSUME NEW k \in 1 .. Len(req'), NEW l \in 1 .. Len(req'), k < l
          PROVE  req'[k].seq < req'[l].seq
      <4>1. k + 1 < l + 1
        BY <3>1
      <4> QED
        BY <1>1, <4>1 DEF IInv, Ordered, Rising
    <3> QED
      BY <3>1 DEF Rising
  <2>2. \A l \in 1 .. Len(req') : req[1].seq < req'[l].seq
    BY <1>1 DEF IInv, Ordered, Rising
  <2>3. \A k \in 1 .. Len(rep) : rep[k].seq < req[1].seq
    BY <1>1 DEF IInv, Ordered
  <2>4. \A k \in 1 .. Len(rep) : \A l \in 1 .. Len(req') : rep[k].seq < req'[l].seq
    BY <1>1 DEF IInv, Ordered
  <2>5. Rising(rep)
    BY DEF IInv, Ordered
  <2> QED
    BY <1>0, <2>1, <2>2, <2>3, <2>4, <2>5 DEF Ordered, Rising
<1>5. NoneAhead'
  BY <1>0, <1>1 DEF IInv, NoneAhead, LastProbe, Waiting
<1>6. OneInFlight'
  BY <1>0, <1>1, SeqRange DEF IInv, OneInFlight, InFlight
<1>7. OnlyWanted'
  <2>1. InFlight' = InFlight
    BY <1>0, <1>1, SeqRange DEF IInv, InFlight
  <2>2. Want' = Want /\ Sample(Want, TRUE)' = Sample(Want, TRUE)
    BY <1>0 DEF Want, Sample
  <2> QED
    BY <1>0, <1>1, <2>1, <2>2 DEF IInv, OnlyWanted, Waiting
<1>8. MatchedByUse'
  BY <1>0, <1>1 DEF IInv, MatchedByUse
<1>9. EchoUnderWay'
  <2>1. SUFFICES ASSUME linked, pub \in {"read", "blocked"}
                 PROVE  UnderWay(Want)'
    BY <1>0 DEF EchoUnderWay
  <2>2. req[1] = Sample(Want, TRUE)
    BY <1>1, <2>1 DEF IInv, OnlyWanted, Waiting
  <2>3. req[1].seq = Want
    BY <2>2 DEF Sample
  <2>4. Want' = Want
    BY <1>0 DEF Want
  <2> QED
    BY <1>0, <2>3, <2>4 DEF UnderWay
<1> QED
  BY <1>2, <1>3, <1>4, <1>5, <1>6, <1>7, <1>8, <1>9 DEF IInv

(* An echo goes behind everything on its way back.                         *)
LEMMA EchoInv == ASSUME IInv, Echo PROVE IInv'
<1>0. /\ sub = "echo" /\ sub' = "take" /\ Put(rep, repUp, hand) = rep'
      /\ pub' = pub /\ linked' = linked /\ i' = i /\ half' = half /\ row' = row
      /\ pubExit' = pubExit /\ subExit' = subExit /\ hand' = hand
      /\ stack' = stack /\ calm' = calm
      /\ reqUp' = reqUp /\ repUp' = repUp /\ req' = req
  BY DEF Echo, pubVars, netVars
<1>1. /\ hand \in Samples /\ hand.seq \in Nat
      /\ \A l \in 1 .. Len(req) : hand.seq < req[l].seq
      /\ \A k \in 1 .. Len(rep) : rep[k].seq < hand.seq
      /\ Len(req) \in Nat /\ Len(rep) \in Nat
  BY <1>0, SeqRange DEF IInv, Ordered
<1>2. /\ rep' \in Seq(Samples) /\ Len(rep') <= Depth /\ Rising(rep')
      /\ \A l \in 1 .. Len(rep') : rep'[l] = hand \/ \E k \in 1 .. Len(rep) : rep'[l] = rep[k]
      /\ Len(rep') > 0 => repUp
      /\ repUp => Len(rep') \in 1 .. Len(rep') /\ rep'[Len(rep')] = hand
      /\ (repUp /\ Len(rep) < Depth) => Len(rep') = Len(rep) + 1
  <2>0. rep \in Seq(Samples) /\ Len(rep) <= Depth /\ Rising(rep)
    BY DEF IInv, TypeOK, Ordered
  <2>1. CASE ~repUp
    <3>1. rep' = rep
      BY <1>0, <2>1 DEF Put
    <3> QED
      BY <2>0, <2>1, <3>1 DEF IInv, MatchedByUse, Rising
  <2>2. CASE repUp
    <3>1. rep' = Put(rep, TRUE, hand)
      BY <1>0, <2>2
    <3>2. /\ rep' \in Seq(Samples) /\ Len(rep') <= Depth /\ Len(rep') \in Nat /\ Len(rep') > 0
          /\ Rising(rep')
          /\ \A l \in 1 .. Len(rep') : rep'[l] = hand \/ \E k \in 1 .. Len(rep) : rep'[l] = rep[k]
          /\ rep'[Len(rep')] = hand
          /\ Len(rep) < Depth => Len(rep') = Len(rep) + 1
      BY <1>1, <2>0, <3>1, PutRises
    <3>3. Len(rep') \in 1 .. Len(rep')
      BY <3>2
    <3> QED
      BY <2>2, <3>2, <3>3
  <2> QED
    BY <2>1, <2>2 DEF IInv, TypeOK
<1>3. TypeOK'
  BY <1>0, <1>2 DEF IInv, TypeOK
<1>4. Progress' /\ OwnEcho' /\ RowComplete'
  BY <1>0 DEF IInv, Progress, OwnEcho, RowComplete
<1>5. Ordered'
  <2>1. \A k \in 1 .. Len(rep') : \A l \in 1 .. Len(req) : rep'[k].seq < req[l].seq
    BY <1>1, <1>2 DEF IInv, Ordered
  <2>2. Rising(req)
    BY DEF IInv, Ordered
  <2> QED
    BY <1>0, <1>2, <2>1, <2>2 DEF Ordered, Rising
<1>6. NoneAhead'
  BY <1>0, <1>2 DEF IInv, NoneAhead, LastProbe, Waiting
<1>7. MatchedByUse'
  BY <1>0, <1>2 DEF IInv, MatchedByUse
<1>8. CASE ~linked
  <2>1. OneInFlight' /\ OnlyWanted' /\ EchoUnderWay'
    BY <1>0, <1>8 DEF OneInFlight, OnlyWanted, EchoUnderWay
  <2> QED
    BY <2>1, <1>3, <1>4, <1>5, <1>6, <1>7 DEF IInv
<1>9. CASE linked
  <2>1. Len(req) = 0 /\ Len(rep) = 0 /\ InFlight = 1
    BY <1>0, <1>1, <1>9 DEF IInv, OneInFlight, InFlight
  <2>2. Len(rep') = 1 /\ repUp
    <3>1. repUp /\ Len(rep) < Depth
      BY <1>9, <2>1, Ranges DEF IInv, MatchedByUse
    <3> QED
      BY <1>2, <2>1, <3>1
  <2>3. OneInFlight'
    BY <1>0, <2>1, <2>2 DEF OneInFlight, InFlight
  <2>4. Want' = Want /\ Sample(Want, TRUE)' = Sample(Want, TRUE)
    BY <1>0 DEF Want, Sample
  <2>5. pub # "send"
    BY <1>9, <2>1 DEF IInv, OnlyWanted
  <2>6. Waiting => hand = Sample(Want, TRUE)
    BY <1>0, <1>9 DEF IInv, OnlyWanted
  <2>7. OnlyWanted'
    <3>0. \A k \in 1 .. Len(rep) : FALSE
      BY <2>1
    <3>1. Waiting => \A k \in 1 .. Len(rep') : rep'[k] = Sample(Want, TRUE)
      BY <1>2, <2>6, <3>0
    <3>2. \A l \in 1 .. Len(req) : FALSE
      BY <2>1
    <3> QED
      BY <1>0, <2>4, <2>5, <3>1, <3>2 DEF OnlyWanted, Waiting
  <2>8. EchoUnderWay'
    <3>1. Waiting => rep'[Len(rep')].seq = Want
      BY <1>2, <2>2, <2>6 DEF Sample
    <3> QED
      BY <1>0, <1>2, <2>2, <2>4, <3>1 DEF EchoUnderWay, UnderWay, Holds, Waiting
  <2> QED
    BY <2>3, <2>7, <2>8, <1>3, <1>4, <1>5, <1>6, <1>7 DEF IInv
<1> QED
  BY <1>8, <1>9

(* The publisher forgets a sample or takes its echo.                       *)
LEMMA ReadInv == ASSUME IInv, Read PROVE IInv'
<1>0. /\ pub = "read" /\ rep # <<>> /\ Tail(rep) = rep'
      /\ sub' = sub /\ subExit' = subExit /\ hand' = hand
      /\ stack' = stack /\ calm' = calm
      /\ reqUp' = reqUp /\ repUp' = repUp /\ req' = req
  BY DEF Read, subVars, netVars
<1>1. /\ Len(rep) \in Nat /\ Len(rep) > 0 /\ 1 \in 1 .. Len(rep) /\ rep[1] \in Samples
      /\ Head(rep) = rep[1]
      /\ rep' \in Seq(Samples) /\ Len(rep') = Len(rep) - 1
      /\ \A k \in 1 .. Len(rep') : k + 1 \in 1 .. Len(rep) /\ rep'[k] = rep[k + 1] /\ 1 < k + 1
  <2>1. rep \in Seq(Samples)
    BY DEF IInv, TypeOK
  <2> QED
    BY <1>0, <2>1, TailShape
<1>2. Ordered'
  <2>1. Rising(rep')
    <3>1. ASSUME NEW k \in 1 .. Len(rep'), NEW l \in 1 .. Len(rep'), k < l
          PROVE  rep'[k].seq < rep'[l].seq
      <4>1. k + 1 < l + 1
        BY <3>1
      <4> QED
        BY <1>1, <4>1 DEF IInv, Ordered, Rising
    <3> QED
      BY <3>1 DEF Rising
  <2>2. \A k \in 1 .. Len(rep') : \A l \in 1 .. Len(req) : rep'[k].seq < req[l].seq
    BY <1>1 DEF IInv, Ordered
  <2>3. sub = "echo" => \A k \in 1 .. Len(rep') : rep'[k].seq < hand.seq
    BY <1>1 DEF IInv, Ordered
  <2>4. Rising(req) /\ (sub = "echo" => \A l \in 1 .. Len(req) : hand.seq < req[l].seq)
    BY DEF IInv, Ordered
  <2> QED
    BY <1>0, <2>1, <2>2, <2>3, <2>4 DEF Ordered, Rising
<1>3. Len(rep') <= Depth /\ rep' \in Seq(Samples)
  BY <1>1, Ranges DEF IInv, TypeOK
<1>4. reqUp /\ repUp
  BY <1>1 DEF IInv, MatchedByUse
<1>5. i \in Nat /\ Want \in Nat /\ Len(req) \in Nat
  BY Ranges, SeqRange DEF IInv, TypeOK, Want
<1>6. CASE ~linked /\ ~IsEcho(Head(rep))
  <2>1. pub' = pub /\ linked' = linked /\ i' = i /\ half' = half /\ row' = row /\ pubExit' = pubExit
    BY <1>6 DEF Read, pubVars
  <2>2. TypeOK'
    BY <1>0, <1>3, <2>1 DEF IInv, TypeOK
  <2>3. NoneAhead'
    BY <1>0, <1>1, <2>1 DEF IInv, NoneAhead, LastProbe, Waiting
  <2>4. Progress' /\ OwnEcho' /\ RowComplete'
    BY <2>1 DEF IInv, Progress, OwnEcho, RowComplete
  <2>5. OneInFlight' /\ OnlyWanted' /\ EchoUnderWay' /\ MatchedByUse'
    BY <1>0, <1>4, <1>6, <2>1 DEF OneInFlight, OnlyWanted, EchoUnderWay, MatchedByUse
  <2> QED
    BY <1>2, <2>2, <2>3, <2>4, <2>5 DEF IInv
<1>7. CASE ~linked /\ IsEcho(Head(rep))
  <2>1. linked' = TRUE /\ i' = 0 /\ pub' = "send" /\ half' = half /\ row' = row /\ pubExit' = pubExit
    BY <1>7 DEF Read, Linked
  <2>2. rep[1].seq = i + 1
    BY <1>1, <1>7 DEF IsEcho, Want
  <2>3. /\ \A l \in 1 .. Len(req) : req[l].seq <= i + 1
        /\ \A k \in 1 .. Len(rep) : rep[k].seq <= i + 1
        /\ sub = "echo" => hand.seq <= i + 1
    BY <1>0, <1>7 DEF IInv, NoneAhead, LastProbe, Waiting
  <2>4. Len(req) = 0
    <3>1. SUFFICES ASSUME Len(req) > 0 PROVE FALSE
      BY <1>5
    <3>2. 1 \in 1 .. Len(req)
      BY <1>5, <3>1
    <3>3. rep[1].seq < req[1].seq /\ req[1].seq <= i + 1 /\ req[1].seq \in Nat
      BY <1>1, <2>3, <3>2, SeqRange DEF IInv, Ordered
    <3> QED
      BY <1>5, <2>2, <3>3
  <2>5. sub # "echo"
    <3>1. SUFFICES ASSUME sub = "echo" PROVE FALSE
      OBVIOUS
    <3>2. rep[1].seq < hand.seq /\ hand.seq <= i + 1 /\ hand.seq \in Nat
      BY <1>1, <2>3, <3>1, SeqRange DEF IInv, Ordered
    <3> QED
      BY <1>5, <2>2, <3>2
  <2>6. Len(rep) = 1
    <3>1. SUFFICES ASSUME Len(rep) > 1 PROVE FALSE
      BY <1>1
    <3>2. 2 \in 1 .. Len(rep)
      BY <1>1, <3>1
    <3>3. rep[1].seq < rep[2].seq /\ rep[2].seq <= i + 1 /\ rep[2].seq \in Nat
      BY <1>1, <2>3, <3>2, SeqRange DEF IInv, Ordered, Rising
    <3> QED
      BY <1>5, <2>2, <3>3
  <2>7. InFlight' = 0
    BY <1>0, <1>1, <2>4, <2>5, <2>6 DEF InFlight
  <2>8. TypeOK'
    BY <1>0, <1>3, <2>1, Ranges DEF IInv, TypeOK
  <2>9. Progress'
    <3>1. Len(half) = 0 /\ pubExit = "none"
      BY <1>0, <1>7 DEF IInv, Progress
    <3> QED
      BY <2>1, <3>1, Ranges DEF Progress
  <2>10. OneInFlight' /\ OnlyWanted' /\ EchoUnderWay' /\ MatchedByUse' /\ NoneAhead'
    BY <1>0, <1>4, <2>1, <2>7 DEF OneInFlight, OnlyWanted, Waiting, EchoUnderWay, MatchedByUse, NoneAhead
  <2>11. OwnEcho' /\ RowComplete'
    BY <2>1 DEF IInv, OwnEcho, RowComplete
  <2> QED
    BY <1>2, <2>8, <2>9, <2>10, <2>11 DEF IInv
<1>8. CASE linked
  <2>1. rep[1] = Sample(Want, TRUE)
    BY <1>0, <1>1, <1>8 DEF IInv, OnlyWanted, Waiting
  <2>2. IsEcho(Head(rep)) /\ Head(rep) = Sample(Want, TRUE)
    BY <1>1, <2>1 DEF IsEcho, Sample
  <2>3. Measured(Sample(Want, TRUE)) /\ linked' = linked /\ i' = i + 1
    BY <1>8, <2>2 DEF Read, Measured
  <2>4. Len(rep') = 0 /\ Len(req) = 0 /\ sub # "echo"
    BY <1>1, <1>5, <1>8 DEF IInv, OneInFlight, InFlight
  <2>5. InFlight' = 0
    BY <1>0, <2>4 DEF InFlight
  <2>6. half \in Seq([want : Nat, got : Samples]) /\ i < Warmup + Count /\ pubExit = "none" /\ row = -1
        /\ Len(half) = (IF i > Warmup THEN i - Warmup ELSE 0)
    BY <1>0, <1>8 DEF IInv, TypeOK, Progress, RowComplete
  <2> DEFINE e == [want |-> Want, got |-> Sample(Want, TRUE)]
  <2>7. e \in [want : Nat, got : Samples]
    BY <1>5 DEF Sample, Samples
  <2>8. Want = kSeqBase + 1 + i
    BY <1>8 DEF Want
  <2>9. /\ half' \in Seq([want : Nat, got : Samples])
        /\ Len(half') = IF i + 1 > Warmup THEN (i + 1) - Warmup ELSE 0
        /\ \A k \in 1 .. Len(half') :
              \/ k \in 1 .. Len(half) /\ half'[k] = half[k]
              \/ half'[k] = e /\ k = i + 1 - Warmup
    <3>1. CASE i >= Warmup
      <4>1. half' = Append(half, e)
        BY <2>3, <3>1 DEF Measured, Records
      <4> HIDE DEF e
      <4>2. /\ half' \in Seq([want : Nat, got : Samples]) /\ Len(half') = Len(half) + 1
            /\ half'[Len(half) + 1] = e /\ \A k \in 1 .. Len(half) : half'[k] = half[k]
            /\ Len(half) \in Nat
        BY <4>1, <2>6, <2>7
      <4>3. Len(half) = i - Warmup
        BY <2>6, <3>1, <1>5, Ranges
      <4>4. Len(half') = (i + 1) - Warmup /\ i + 1 > Warmup
        BY <4>2, <4>3, <3>1, <1>5, Ranges
      <4>5. ASSUME NEW k \in 1 .. Len(half'), k \notin 1 .. Len(half)
            PROVE  k = Len(half) + 1 /\ k = i + 1 - Warmup
        BY <4>2, <4>3, <4>5, <1>5, Ranges
      <4> QED
        BY <4>2, <4>4, <4>5
    <3>2. CASE ~(i >= Warmup)
      <4>1. half' = half
        BY <2>3, <3>2 DEF Measured, Records
      <4>2. Len(half) = 0 /\ ~(i + 1 > Warmup)
        BY <2>6, <3>2, <1>5, Ranges
      <4> QED
        BY <4>1, <4>2, <2>6
    <3> QED
      BY <3>1, <3>2
  <2>10. OwnEcho'
    <3>1. ASSUME NEW k \in 1 .. Len(half')
          PROVE  half'[k].got = Sample(half'[k].want, TRUE) /\ half'[k].want = kSeqBase + Warmup + k
      <4>1. CASE k \in 1 .. Len(half) /\ half'[k] = half[k]
        BY <4>1 DEF IInv, OwnEcho
      <4>2. CASE half'[k] = e /\ k = i + 1 - Warmup
        <5>1. kSeqBase + 1 + i = kSeqBase + Warmup + k
          BY <4>2, <1>5, Ranges
        <5> QED
          BY <4>2, <5>1, <2>8
      <4> QED
        BY <4>1, <4>2, <2>9
    <3> QED
      BY <3>1 DEF OwnEcho, Sample
  <2>11. \/ i + 1 < Warmup + Count /\ pub' = "send" /\ row' = row /\ pubExit' = pubExit
         \/ ~(i + 1 < Warmup + Count) /\ pub' = "exited" /\ pubExit' = "ok" /\ row' = Len(half')
    BY <2>3 DEF Measured, ExitPub
  <2>12. ~(i + 1 < Warmup + Count) => Len(half') = Count
    <3>1. ASSUME ~(i + 1 < Warmup + Count) PROVE i + 1 = Warmup + Count
      BY <3>1, <2>6, <1>5, Ranges
    <3> QED
      BY <3>1, <2>9, <1>5, Ranges
  <2>13. RowComplete' /\ row' \in -1 .. Count
    BY <2>6, <2>11, <2>12, Ranges DEF RowComplete
  <2>14. TypeOK'
    <3>1. i + 1 \in 0 .. (Warmup + Count)
      BY <2>6, <1>5, Ranges
    <3> QED
      BY <1>0, <1>3, <1>8, <2>3, <2>9, <2>11, <2>13, <3>1 DEF IInv, TypeOK
  <2>15. Progress'
    <3>1. linked' /\ i' = i + 1
      BY <1>8, <2>3
    <3>2. pub' # "exited" => i + 1 < Warmup + Count /\ pubExit' = "none" /\ pub' = "send"
      BY <2>6, <2>11
    <3>3. pub' # "probe"
      BY <2>11
    <3>4. Len(half') = IF linked' /\ i' > Warmup THEN i' - Warmup ELSE 0
      BY <2>9, <3>1
    <3> QED
      BY <3>1, <3>2, <3>3, <3>4 DEF Progress
  <2>16. OneInFlight' /\ OnlyWanted' /\ EchoUnderWay' /\ MatchedByUse' /\ NoneAhead'
    <3>0. pub' \in {"send", "exited"}
      BY <2>11
    <3>1. linked' /\ pub' \notin {"read", "blocked"}
      BY <1>8, <2>3, <3>0
    <3>5. OneInFlight'
      BY <2>5 DEF OneInFlight
    <3>6. ~Waiting'
      BY <3>1 DEF Waiting
    <3>2. OneInFlight' /\ OnlyWanted'
      BY <2>5, <3>5, <3>6, Zenon DEF OnlyWanted
    <3>3. EchoUnderWay' /\ NoneAhead'
      BY <3>1 DEF EchoUnderWay, NoneAhead
    <3>4. MatchedByUse'
      BY <1>0, <1>4 DEF MatchedByUse
    <3> QED
      BY <3>2, <3>3, <3>4
  <2> QED
    BY <1>2, <2>10, <2>13, <2>14, <2>15, <2>16 DEF IInv
<1> QED
  BY <1>6, <1>7, <1>8 DEF IInv, TypeOK

(* The end of a measured wait without its echo ends the run.               *)
LEMMA ExitInv ==
    ASSUME IInv, pub # "exited", NEW code \in {"error", "killed"}, ExitPub(code),
           UNCHANGED <<linked, i, half, row, subVars, netVars, req, rep>>
    PROVE  IInv'
<1> USE DEF ExitPub, subVars, netVars
<1>1. TypeOK' /\ Ordered' /\ MatchedByUse'
  BY DEF IInv, TypeOK, Ordered, Rising, MatchedByUse
<1>2. Progress' /\ RowComplete' /\ OwnEcho'
  BY DEF IInv, Progress, RowComplete, OwnEcho
<1>3. OneInFlight' /\ OnlyWanted' /\ NoneAhead' /\ EchoUnderWay'
  BY DEF IInv, OneInFlight, InFlight, OnlyWanted, Waiting, NoneAhead, EchoUnderWay
<1> QED
  BY <1>1, <1>2, <1>3 DEF IInv

(* The subscriber's other steps, and the end of its process.               *)
LEMMA SubQuietInv ==
    ASSUME IInv, sub' \in {"take", "exited"}, sub' = "take" => sub # "exited",
           subExit' \in {"none", "ok", "error", "killed"}, hand' = hand,
           UNCHANGED <<pubVars, netVars, req, rep>>, sub = "echo" => sub' = "exited"
    PROVE  IInv'
<1> USE DEF pubVars, netVars
<1>1. TypeOK' /\ Ordered' /\ MatchedByUse'
  BY DEF IInv, TypeOK, Ordered, Rising, MatchedByUse
<1>2. Progress' /\ RowComplete' /\ OwnEcho'
  BY DEF IInv, Progress, RowComplete, OwnEcho
<1>3. NoneAhead'
  BY DEF IInv, NoneAhead, LastProbe, Waiting
<1>4. InFlight' <= InFlight /\ InFlight \in Nat /\ InFlight' \in Nat
  BY SeqRange DEF IInv, InFlight
<1>5. OneInFlight' /\ OnlyWanted'
  <2>1. Want' = Want /\ Sample(Want, TRUE)' = Sample(Want, TRUE)
    BY DEF Want, Sample
  <2>2. OneInFlight'
    BY <1>4 DEF IInv, OneInFlight
  <2>3. OnlyWanted'
    <3>1. sub' # "echo" /\ (InFlight = 0 => InFlight' = 0)
      BY <1>4
    <3> QED
      BY <2>1, <3>1 DEF IInv, OnlyWanted, Waiting
  <2> QED
    BY <2>2, <2>3
<1>6. EchoUnderWay'
  BY DEF IInv, EchoUnderWay, UnderWay, Holds, Want
<1> QED
  BY <1>1, <1>2, <1>3, <1>5, <1>6 DEF IInv

(* Matching, and the turns of a read that takes nothing.                   *)
LEMMA WaitInv ==
    ASSUME IInv, pub' = pub \/ (Waiting /\ Waiting'),
           (reqUp' = reqUp) \/ reqUp', (repUp' = repUp) \/ repUp',
           reqUp' \in BOOLEAN, repUp' \in BOOLEAN,
           UNCHANGED <<stack, calm, linked, i, half, row, pubExit, subVars, req, rep>>
    PROVE  IInv'
<1> USE DEF subVars
<1>1. TypeOK'
  BY DEF IInv, TypeOK, Waiting
<1>2. Ordered' /\ RowComplete' /\ OwnEcho'
  BY DEF IInv, Ordered, Rising, RowComplete, OwnEcho
<1>3. Progress'
  BY DEF IInv, Progress, Waiting
<1>4. MatchedByUse'
  BY DEF IInv, MatchedByUse, TypeOK
<1>5. NoneAhead'
  BY DEF IInv, NoneAhead, LastProbe, Waiting
<1>6. OneInFlight'
  BY DEF IInv, OneInFlight, InFlight
<1>7. Want' = Want /\ Sample(Want, TRUE)' = Sample(Want, TRUE) /\ InFlight' = InFlight
  BY DEF Want, Sample, InFlight
<1>8. OnlyWanted'
  BY <1>7 DEF IInv, OnlyWanted, Waiting
<1>9. EchoUnderWay'
  BY <1>7 DEF IInv, EchoUnderWay, UnderWay, Holds, Waiting
<1> QED
  BY <1>1, <1>2, <1>3, <1>4, <1>5, <1>6, <1>8, <1>9 DEF IInv

(* Nothing changes at all.                                                 *)
LEMMA StutterInv == ASSUME IInv, UNCHANGED vars PROVE IInv'
<1>1. /\ pub' = pub /\ reqUp' = reqUp /\ repUp' = repUp /\ reqUp \in BOOLEAN /\ repUp \in BOOLEAN
      /\ UNCHANGED <<stack, calm, linked, i, half, row, pubExit, subVars, req, rep>>
  BY DEF IInv, TypeOK, vars, pubVars, netVars
<1> QED
  BY <1>1, WaitInv

-----------------------------------------------------------------------------
THEOREM IInvHolds == Spec => []IInv
<1>1. ASSUME IInv, [Next]_vars PROVE IInv'
  <2>1. CASE ProbeUnmatched \/ ProbeFails
    <3>1. ~linked /\ pub = "probe"
      BY <1>1, <2>1 DEF ProbeUnmatched, ProbeFails, IInv, Progress
    <3> QED
      BY <1>1, <2>1, <3>1, NextProbeInv DEF ProbeUnmatched, ProbeFails
  <2>2. CASE Probe
    BY <1>1, <2>2, ProbeInv
  <2>3. CASE Send
    BY <1>1, <2>3, SendInv
  <2>4. CASE SendFails
    BY <1>1, <2>4, ExitInv DEF SendFails
  <2>5. CASE Read
    BY <1>1, <2>5, ReadInv
  <2>6. CASE Block \/ Wake
    <3>1. /\ Waiting /\ Waiting' /\ reqUp' = reqUp /\ repUp' = repUp
          /\ reqUp \in BOOLEAN /\ repUp \in BOOLEAN
          /\ UNCHANGED <<stack, calm, linked, i, half, row, pubExit, subVars, req, rep>>
      BY <1>1, <2>6 DEF Block, Wake, Waiting, netVars, IInv, TypeOK
    <3> QED
      BY <1>1, <3>1, WaitInv
  <2>7. CASE Expire
    <3>1. CASE linked
      BY <1>1, <2>7, <3>1, ExitInv DEF Expire, GiveUp
    <3>2. CASE ~linked
      BY <1>1, <2>7, <3>2, NextProbeInv DEF Expire, GiveUp
    <3> QED
      BY <3>1, <3>2
  <2>8. CASE MatchEnds \/ SubFails \/ StopSub
    <3>1. /\ sub' \in {"take", "exited"} /\ (sub' = "take" => sub # "exited")
          /\ subExit' \in {"none", "ok", "error", "killed"} /\ hand' = hand
          /\ UNCHANGED <<pubVars, netVars, req, rep>> /\ (sub = "echo" => sub' = "exited")
      BY <1>1, <2>8 DEF MatchEnds, SubFails, StopSub, IInv, TypeOK
    <3> QED
      BY <1>1, <3>1, SubQuietInv
  <2>9. CASE TakeReq
    BY <1>1, <2>9, TakeReqInv
  <2>10. CASE Echo
    BY <1>1, <2>10, EchoInv
  <2>11. CASE StopPub
    BY <1>1, <2>11, ExitInv DEF StopPub
  <2>12. CASE LinkReq \/ LinkRep
    <3>1. reqUp \in BOOLEAN /\ repUp \in BOOLEAN
      BY <1>1 DEF IInv, TypeOK
    <3>2. /\ (reqUp' = reqUp) \/ reqUp'
          /\ (repUp' = repUp) \/ repUp'
          /\ reqUp' \in BOOLEAN /\ repUp' \in BOOLEAN
      BY <2>12, <3>1 DEF LinkReq, LinkRep
    <3>3. UNCHANGED <<stack, calm, linked, i, half, row, pubExit, subVars, req, rep>>
      BY <2>12 DEF LinkReq, LinkRep, pubVars
    <3>4. pub' = pub \/ (Waiting /\ Waiting')
      BY <2>12 DEF LinkReq, LinkRep, pubVars, Waiting
    <3> QED
      BY <1>1, <3>2, <3>3, <3>4, WaitInv
  <2>13. CASE UNCHANGED vars
    BY <1>1, <2>13, StutterInv
  <2> QED
    BY <1>1, <2>1, <2>2, <2>3, <2>4, <2>5, <2>6, <2>7, <2>8, <2>9, <2>10, <2>11, <2>12, <2>13
       DEF Next, Pub, Sub, Compose
<1> QED
  BY <1>1, InitInv, PTL DEF Spec

(* The bench's state keeps its types: channels within their depth, a row   *)
(* of at most Count entries.                                               *)
THEOREM NetTypes == Spec => []TypeOK
<1>1. IInv => TypeOK
  BY DEF IInv
<1> QED
  BY <1>1, IInvHolds, PTL

(* Every half round trip recorded is the measured sample's own, for every  *)
(* stack and whatever the link phase left behind.                          *)
THEOREM EchoesAreOwn == Spec => []OwnEcho
<1>1. IInv => OwnEcho
  BY DEF IInv
<1> QED
  BY <1>1, IInvHolds, PTL

(* Once linked there is at most one sample on its way.                     *)
THEOREM PingPong == Spec => []OneInFlight
<1>1. IInv => OneInFlight
  BY DEF IInv
<1> QED
  BY <1>1, IInvHolds, PTL

(* No measured sample is lost while both processes run.                    *)
THEOREM EchoesAreUnderWay == Spec => []EchoUnderWay
<1>1. IInv => EchoUnderWay
  BY DEF IInv
<1> QED
  BY <1>1, IInvHolds, PTL

(* A row is printed exactly by a run that succeeds, and is complete.       *)
THEOREM RowsAreComplete == Spec => []RowComplete
<1>1. IInv => RowComplete
  BY DEF IInv
<1> QED
  BY <1>1, IInvHolds, PTL

-----------------------------------------------------------------------------
\* What the refinement mapping makes of the publisher and the channels.
Phase == IF pub = "exited" THEN (IF pubExit = "ok" THEN "done" ELSE "failed")
         ELSE IF linked THEN "measuring" ELSE "linking"

Ball == IF ~linked \/ pub \in {"send", "exited"} THEN "pub"
        ELSE IF rep # <<>> THEN "back"
        ELSE IF req # <<>> THEN "out" ELSE "sub"

Round == IF linked THEN i ELSE 0

Recorded == [k \in 1 .. Len(half) |->
                IF half[k].got.measured THEN half[k].got.seq - kSeqBase ELSE 0]

Mapped == <<Phase, Ball, Round, Recorded, row>>

Refined == Trips!Next \/ UNCHANGED Mapped

(* An exit of the publisher without a row.                                 *)
LEMMA FailRefines ==
    ASSUME pub # "exited", pub' = "exited", pubExit' # "ok", UNCHANGED <<half, row>>,
           Round' = Round
    PROVE  Refined
<1>1. Phase \in {"linking", "measuring"} /\ Phase' = "failed" /\ Ball' = "pub"
  BY DEF Phase, Ball
<1>2. Recorded' = Recorded
  BY DEF Recorded
<1>3. Trips!Fail
  BY <1>1, <1>2 DEF Trips!Fail, Phase, Ball, Round, Recorded
<1> QED  BY <1>3 DEF Refined, Trips!Next

(* The link phase is invisible until it ends.                              *)
LEMMA ProbeRefines ==
    ASSUME IInv, ~linked, ~linked', pub # "exited", UNCHANGED <<half, row>>,
           pub' # "exited" \/ pubExit' # "ok"
    PROVE  Refined
<1>1. Round = 0 /\ Round' = 0 /\ Ball = "pub" /\ Ball' = "pub" /\ Recorded' = Recorded
  BY DEF Round, Ball, Recorded
<1>2. CASE pub' = "exited"
  BY <1>1, <1>2, FailRefines
<1>3. CASE pub' # "exited"
  <2>1. Phase' = Phase
    BY <1>3 DEF Phase
  <2> QED  BY <1>1, <2>1 DEF Refined, Mapped
<1> QED  BY <1>2, <1>3

(* The pipe is empty when the next sample is served.                       *)
LEMMA SendRefines == ASSUME IInv, Send PROVE Refined
<1>1. linked /\ InFlight = 0 /\ reqUp /\ pub = "send"
  BY DEF Send, IInv, Progress, OnlyWanted, MatchedByUse
<1>2. req \in Seq(Samples) /\ rep \in Seq(Samples) /\ Len(req) \in Nat /\ Len(rep) \in Nat
  BY DEF IInv, TypeOK
<1>3. Len(req) = 0 /\ Len(rep) = 0
  BY <1>1, <1>2 DEF InFlight
<1>4. req = <<>> /\ rep = <<>>
  BY <1>2, <1>3
<1>5. req' = Append(<<>>, Sample(Want, TRUE)) /\ req' # <<>> /\ rep' = <<>>
  <2>1. req' = Append(<<>>, Sample(Want, TRUE))
    BY <1>1, <1>3, <1>4, Ranges DEF Send, Put
  <2>2. Append(<<>>, Sample(Want, TRUE)) # <<>>
    OBVIOUS
  <2>3. rep' = rep
    BY DEF Send
  <2> QED  BY <1>4, <2>1, <2>2, <2>3
<1>6. /\ Phase = "measuring" /\ Phase' = "measuring" /\ Ball = "pub" /\ Ball' = "out"
      /\ Round' = Round /\ Recorded' = Recorded /\ row' = row
  BY <1>1, <1>5 DEF Send, Phase, Ball, Round, Recorded
<1>7. Trips!Flies("pub", "out")
  BY <1>6 DEF Trips!Flies, Phase, Ball, Round, Recorded
<1> QED  BY <1>7 DEF Refined, Trips!Next

LEMMA TakeRefines == ASSUME IInv, TakeReq PROVE Refined
<1>1. /\ UNCHANGED pubVars /\ rep' = rep /\ req # <<>> /\ req' = Tail(req) /\ sub = "take"
  BY DEF TakeReq
<1>2. /\ Phase' = Phase /\ Round' = Round /\ Recorded' = Recorded /\ row' = row
  BY <1>1 DEF pubVars, Phase, Round, Recorded
<1>3. CASE ~linked \/ pub \in {"send", "exited"}
  <2>1. Ball' = Ball
    BY <1>1, <1>3 DEF Ball, pubVars
  <2> QED  BY <1>2, <2>1 DEF Refined, Mapped
<1>4. CASE linked /\ pub \notin {"send", "exited"}
  <2>1. req \in Seq(Samples) /\ rep \in Seq(Samples) /\ Len(req) \in Nat /\ Len(rep) \in Nat
    BY DEF IInv, TypeOK
  <2>2. Len(req) > 0 /\ Len(Tail(req)) = Len(req) - 1 /\ Tail(req) \in Seq(Samples)
    BY <1>1, <2>1, TailShape
  <2>3. Len(req) + Len(rep) <= 1
    BY <1>1, <1>4, <2>1 DEF IInv, OneInFlight, InFlight
  <2>4. Len(rep) = 0 /\ Len(Tail(req)) = 0
    BY <2>1, <2>2, <2>3
  <2>5. rep = <<>> /\ Tail(req) = <<>>
    BY <2>1, <2>2, <2>4
  <2>6. Phase = "measuring" /\ Ball = "out" /\ Ball' = "sub"
    BY <1>1, <1>4, <2>5 DEF Phase, Ball, pubVars
  <2>7. Trips!Flies("out", "sub")
    BY <1>2, <2>6 DEF Trips!Flies, Phase, Ball, Round, Recorded
  <2> QED  BY <2>7 DEF Refined, Trips!Next
<1> QED  BY <1>3, <1>4

LEMMA EchoRefines == ASSUME IInv, Echo PROVE Refined
<1>1. /\ UNCHANGED pubVars /\ req' = req /\ rep' = Put(rep, repUp, hand) /\ sub = "echo"
  BY DEF Echo
<1>2. /\ Phase' = Phase /\ Round' = Round /\ Recorded' = Recorded /\ row' = row
  BY <1>1 DEF pubVars, Phase, Round, Recorded
<1>3. CASE ~linked \/ pub \in {"send", "exited"}
  <2>1. Ball' = Ball
    BY <1>1, <1>3 DEF Ball, pubVars
  <2> QED  BY <1>2, <2>1 DEF Refined, Mapped
<1>4. CASE linked /\ pub \notin {"send", "exited"}
  <2>1. req \in Seq(Samples) /\ rep \in Seq(Samples) /\ Len(req) \in Nat /\ Len(rep) \in Nat
    BY DEF IInv, TypeOK
  <2>2. Len(req) + Len(rep) + 1 <= 1
    BY <1>1, <1>4, <2>1 DEF IInv, OneInFlight, InFlight
  <2>3. Len(rep) = 0 /\ Len(req) = 0
    BY <2>1, <2>2
  <2>4. rep = <<>> /\ req = <<>>
    BY <2>1, <2>3
  <2>5. repUp
    BY <1>4 DEF IInv, MatchedByUse
  <2>6. rep' = Append(<<>>, hand)
    BY <1>1, <2>3, <2>4, <2>5, Ranges DEF Put
  <2>7. rep' # <<>>
    BY <2>6
  <2>8. Phase = "measuring" /\ Ball = "sub" /\ Ball' = "back"
    BY <1>1, <1>4, <2>4, <2>7 DEF Phase, Ball, pubVars
  <2>9. Trips!Flies("sub", "back")
    BY <1>2, <2>8 DEF Trips!Flies, Phase, Ball, Round, Recorded
  <2> QED  BY <2>9 DEF Refined, Trips!Next
<1> QED  BY <1>3, <1>4

(* What is read before the link is forgotten; after it, it is the echo.    *)
LEMMA ReadRefines == ASSUME IInv, IInv', Read PROVE Refined
<1>1. rep # <<>> /\ pub = "read" /\ rep \in Seq(Samples) /\ i \in Nat
  BY Ranges DEF Read, IInv, TypeOK
<1>2. CASE ~linked
  <2>1. CASE ~IsEcho(Head(rep))
    <3>1. UNCHANGED pubVars
      BY <2>1 DEF Read
    <3> QED  BY <1>1, <1>2, <3>1, ProbeRefines DEF pubVars
  <2>2. CASE IsEcho(Head(rep))
    <3>1. linked' /\ i' = 0 /\ pub' = "send" /\ UNCHANGED <<half, row, pubExit>>
      BY <1>2, <2>2 DEF Read, Linked
    <3>2. /\ Phase = "linking" /\ Phase' = "measuring" /\ Ball = "pub" /\ Ball' = "pub"
          /\ Round = 0 /\ Round' = 0 /\ Recorded' = Recorded /\ row' = row
      BY <1>1, <1>2, <3>1 DEF Phase, Ball, Round, Recorded
    <3>3. Trips!Link
      BY <3>2 DEF Trips!Link, Phase, Ball, Round, Recorded
    <3> QED  BY <3>3 DEF Refined, Trips!Next
  <2> QED  BY <2>1, <2>2
<1>3. CASE linked
  <2>1. Head(rep) = Sample(Want, TRUE)
    <3>1. Head(rep) = rep[1] /\ 1 \in 1 .. Len(rep)
      BY <1>1, TailShape
    <3> QED  BY <1>1, <1>3, <3>1 DEF IInv, OnlyWanted, Waiting
  <2>2. Want = kSeqBase + 1 + i
    BY <1>3 DEF Want
  <2>3. Measured(Sample(Want, TRUE))
    <3>1. IsEcho(Sample(Want, TRUE))
      BY DEF IsEcho, Sample
    <3>2. IF ~IsEcho(Head(rep)) THEN UNCHANGED pubVars
          ELSE IF linked THEN Measured(Head(rep)) ELSE Linked
      BY DEF Read
    <3> QED  BY <1>3, <2>1, <3>1, <3>2, Zenon
  <2>4. /\ linked' /\ i' = i + 1 /\ pub' \in {"send", "exited"}
        /\ pub' = "send" <=> i + 1 < Warmup + Count
        /\ pub' = "send" => UNCHANGED <<row, pubExit>>
        /\ pub' = "exited" => pubExit' = "ok" /\ row' = Count
    <3>1. linked' = linked /\ i' = i + 1
      BY <2>3 DEF Measured
    <3>2. CASE i + 1 < Warmup + Count
      BY <1>3, <2>3, <3>1, <3>2 DEF Measured
    <3>3. CASE ~(i + 1 < Warmup + Count)
      <4>1. pub' = "exited" /\ pubExit' = "ok"
        BY <2>3, <3>3 DEF Measured, ExitPub
      <4>2. row' = Count
        BY <4>1 DEF IInv, RowComplete
      <4> QED  BY <1>3, <3>1, <3>3, <4>1, <4>2
    <3> QED  BY <3>2, <3>3
  <2>5. Recorded' = IF i >= Warmup THEN Append(Recorded, i + 1) ELSE Recorded
    <3>1. CASE ~(i >= Warmup)
      BY <2>3, <3>1 DEF Measured, Records, Recorded
    <3>2. CASE i >= Warmup
      <4>1. PICK n \in Nat : n = Len(half)
        BY DEF IInv, TypeOK
      <4>2. half' = Append(half, [want |-> Want, got |-> Sample(Want, TRUE)])
        BY <2>3, <3>2 DEF Measured, Records
      <4>3. /\ Len(half') = n + 1
            /\ \A k \in 1 .. n : half'[k] = half[k]
            /\ half'[n + 1] = [want |-> Want, got |-> Sample(Want, TRUE)]
        BY <4>1, <4>2 DEF IInv, TypeOK
      <4>4. half'[n + 1].got.measured /\ half'[n + 1].got.seq - kSeqBase = i + 1
        BY <1>1, <2>2, <4>3, Ranges DEF Sample
      <4>5. /\ DOMAIN Recorded = 1 .. n /\ Recorded \in Seq(Int)
        <5>1. \A k \in 1 .. n : half[k].got.seq \in Nat
          <6> TAKE k \in 1 .. n
          <6>1. half \in Seq([want : Nat, got : Samples]) /\ k \in 1 .. Len(half)
            BY <4>1 DEF IInv, TypeOK
          <6>2. half[k] \in [want : Nat, got : Samples]
            BY <6>1, ElementOfSeq, Zenon
          <6>3. half[k].got \in Samples
            BY <6>2
          <6> QED  BY <6>3 DEF Samples
        <5>2. Recorded = [k \in 1 .. n |->
                             IF half[k].got.measured THEN half[k].got.seq - kSeqBase ELSE 0]
          BY <4>1 DEF Recorded
        <5>3. Recorded \in [1 .. n -> Int]
          BY <5>1, <5>2, Ranges
        <5> QED  BY <5>3
      <4>6. /\ Append(Recorded, i + 1) \in [1 .. n + 1 -> Int]
            /\ \A k \in 1 .. n : Append(Recorded, i + 1)[k] = Recorded[k]
            /\ Append(Recorded, i + 1)[n + 1] = i + 1
        <5> HIDE DEF Recorded
        <5>1. PICK e \in Int : e = i + 1
          BY <1>1
        <5>2. Len(Recorded) = n
          BY <4>5
        <5>3. Append(Recorded, e) \in Seq(Int) /\ Len(Append(Recorded, e)) = n + 1
          BY <4>5, <5>2
        <5>4. /\ \A k \in 1 .. n : Append(Recorded, e)[k] = Recorded[k]
              /\ Append(Recorded, e)[n + 1] = e
          BY <4>5, <5>2
        <5>5. Append(Recorded, e) \in [1 .. n + 1 -> Int]
          BY <5>3, LenProperties, Zenon
        <5> QED  BY <5>1, <5>4, <5>5
      <4>7. Recorded' = [k \in 1 .. n + 1 |->
                            IF half'[k].got.measured THEN half'[k].got.seq - kSeqBase ELSE 0]
        BY <4>3 DEF Recorded
      <4>8. \A k \in 1 .. n : Recorded[k] = IF half[k].got.measured
                                              THEN half[k].got.seq - kSeqBase ELSE 0
        BY <4>1 DEF Recorded
      <4>9. \A k \in 1 .. n + 1 : Recorded'[k] = Append(Recorded, i + 1)[k]
        <5> TAKE k \in 1 .. n + 1
        <5>1. CASE k = n + 1
          BY <4>4, <4>6, <4>7, <5>1, Zenon
        <5>2. CASE k \in 1 .. n
          BY <4>3, <4>6, <4>7, <4>8, <5>2, Zenon
        <5>3. k = n + 1 \/ k \in 1 .. n
          OBVIOUS
        <5> QED  BY <5>1, <5>2, <5>3
      <4> HIDE DEF Recorded
      <4>10. DOMAIN Recorded' = 1 .. n + 1
        BY <4>7
      <4>11. Recorded' = Append(Recorded, i + 1)
        BY <4>6, <4>7, <4>9, <4>10
      <4> QED  BY <3>2, <4>11
    <3> QED  BY <3>1, <3>2
  <2>6. /\ Phase = "measuring" /\ Ball = "back" /\ Ball' = "pub"
        /\ Round = i /\ Round' = i + 1
        /\ Phase' = IF i + 1 < Warmup + Count THEN "measuring" ELSE "done"
        /\ row' = IF i + 1 < Warmup + Count THEN row ELSE Count
    BY <1>1, <1>3, <2>4 DEF Phase, Ball, Round
  <2>7. Trips!Catch
    BY <2>5, <2>6 DEF Trips!Catch, Phase, Ball, Round, Recorded
  <2> QED  BY <2>7 DEF Refined, Trips!Next
<1> QED  BY <1>2, <1>3

LEMMA QuietRefines ==
    ASSUME UNCHANGED <<linked, i, half, row, pubExit, req, rep>>, pub' = pub \/ (Waiting /\ Waiting')
    PROVE  Refined
<1>1. Round' = Round /\ Recorded' = Recorded /\ Phase' = Phase /\ Ball' = Ball
  BY DEF Round, Recorded, Phase, Ball, Waiting
<1> QED  BY <1>1 DEF Refined, Mapped

(* The bench implements RoundTrips: every step serves, takes, returns or   *)
(* catches the sample, links, fails, or is invisible.                      *)
THEOREM RoundTripsAreImplemented == Spec => ImplementsRoundTrips
<1>1. Init => Trips!Init
  BY DEF Init, Trips!Init
<1>2. IInv /\ IInv' /\ [Next]_vars => [Trips!Next]_(Trips!tvars)
  <2> SUFFICES ASSUME IInv, IInv', [Next]_vars PROVE Refined
    BY DEF Trips!tvars, Refined, Mapped, Phase, Ball, Round, Recorded
  <2>1. CASE ProbeUnmatched \/ ProbeFails \/ Probe \/ (Expire /\ ~linked)
    <3>1. ~linked /\ pub # "exited"
      BY <2>1 DEF ProbeUnmatched, ProbeFails, Probe, Expire, IInv, Progress
    <3>2. /\ ~linked' /\ UNCHANGED <<half, row>>
          /\ pub' # "exited" \/ pubExit' # "ok"
      BY <2>1, <3>1 DEF ProbeUnmatched, ProbeFails, Probe, Expire, GiveUp, NextProbe, ExitPub
    <3> QED  BY <3>1, <3>2, ProbeRefines
  <2>2. CASE SendFails \/ StopPub \/ (Expire /\ linked)
    <3>1. /\ pub # "exited" /\ pub' = "exited" /\ pubExit' # "ok"
          /\ UNCHANGED <<half, row, linked, i>>
      BY <2>2 DEF SendFails, StopPub, Expire, GiveUp, ExitPub
    <3>2. Round' = Round
      BY <3>1 DEF Round
    <3> QED  BY <3>1, <3>2, FailRefines
  <2>3. CASE Send
    BY <2>3, SendRefines
  <2>4. CASE Read
    BY <2>4, ReadRefines
  <2>5. CASE TakeReq
    BY <2>5, TakeRefines
  <2>6. CASE Echo
    BY <2>6, EchoRefines
  <2>7. CASE Block \/ Wake \/ LinkReq \/ LinkRep
    <3>1. /\ UNCHANGED <<linked, i, half, row, pubExit, req, rep>>
          /\ pub' = pub \/ (Waiting /\ Waiting')
      BY <2>7 DEF Block, Wake, LinkReq, LinkRep, pubVars, Waiting
    <3> QED  BY <3>1, QuietRefines
  <2>8. CASE MatchEnds \/ SubFails \/ StopSub \/ UNCHANGED vars
    <3>1. UNCHANGED <<pub, linked, i, half, row, pubExit, req, rep>>
      BY <2>8 DEF MatchEnds, SubFails, StopSub, vars, pubVars
    <3> QED  BY <3>1, QuietRefines
  <2> QED  BY <2>1, <2>2, <2>3, <2>4, <2>5, <2>6, <2>7, <2>8 DEF Next, Pub, Sub, Compose
<1> QED  BY <1>1, <1>2, IInvHolds, PTL DEF Spec, ImplementsRoundTrips, Trips!Spec
=============================================================================
