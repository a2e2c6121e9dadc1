---------------------------- MODULE NetPingPong -----------------------------
(***************************************************************************)
(* The two-container network bench (benchmarks/net): the publisher links   *)
(* up with probes, then sends one numbered sample at a time and waits for  *)
(* its echo; the subscriber echoes whatever it takes, for ever.  Docker    *)
(* compose stops both containers as soon as one of them exits, and the     *)
(* publisher's exit code is the run's.                                     *)
(*                                                                         *)
(* A sample is its number and whether it was sent to be measured.  The     *)
(* half round trip recorded for an iteration is modelled by the echo its   *)
(* second clock reading followed.  The processes start after Setup.        *)
(***************************************************************************)
EXTENDS Integers, Sequences

CONSTANTS Stacks,     \* the stacks to choose from
          Probes,     \* rounds of the link phase
          Warmup,     \* --warmup
          Count,      \* --count
          Depth       \* samples a channel holds

kSeqBase == 1000

ASSUME NetAssumption ==
    /\ Stacks \subseteq {"subspace", "cyclone", "zenoh"}
    /\ Probes \in 1 .. kSeqBase
    /\ Warmup \in Nat
    /\ {Count, Depth} \subseteq Nat \ {0}

VARIABLES
    stack,     \* the binaries of the run
    calm,      \* no call fails, and five seconds outlast every echo under way
    pub,       \* publisher: "probe", "send", "read", "blocked", "exited"
    sub,       \* subscriber: "match", "take", "echo", "exited"
    linked,    \* publisher: an echo of a probe came back
    i,         \* publisher: loop index of the current phase
    half,      \* half_us, as [want |-> number waited for, got |-> sample]
    row,       \* PrintCsv was reached: the n it printed, or -1
    pubExit,   \* "none", "ok", "error", "killed"
    subExit,
    req, rep,  \* the two channels, oldest sample first
    reqUp,     \* a sample put into req now reaches the subscriber
    repUp,
    hand       \* subscriber: the sample being echoed

pubVars == <<pub, linked, i, half, row, pubExit>>
subVars == <<sub, subExit, hand>>
netVars == <<stack, calm, reqUp, repUp>>
vars == <<pubVars, subVars, netVars, req, rep>>

Sample(n, m) == [seq |-> n, measured |-> m]

Init ==
    /\ stack \in Stacks /\ calm \in BOOLEAN
    /\ pub = "probe" /\ linked = FALSE /\ i = 0 /\ half = <<>> /\ row = -1
    /\ sub = IF stack = "cyclone" THEN "match" ELSE "take"
    /\ pubExit = "none" /\ subExit = "none"
    /\ req = <<>> /\ rep = <<>> /\ hand = Sample(0, FALSE)
    /\ reqUp = FALSE /\ repUp = FALSE

-----------------------------------------------------------------------------
(* The middleware: nothing reaches a peer that is not matched yet; a full  *)
(* Cyclone history drops its oldest sample, the others block the writer.   *)

HasRoom(ch, up) == ~up \/ Len(ch) < Depth \/ stack = "cyclone"

Put(ch, up, s) ==
    IF ~up THEN ch
    ELSE Append(IF Len(ch) < Depth THEN ch ELSE Tail(ch), s)

LinkReq ==
    /\ ~reqUp
    /\ reqUp' = TRUE
    /\ UNCHANGED <<stack, calm, pubVars, subVars, repUp, req, rep>>

\* A new peer also triggers a subscriber that waits.
LinkRep ==
    /\ ~repUp
    /\ repUp' = TRUE
    /\ pub' = IF pub = "blocked" THEN "read" ELSE pub
    /\ UNCHANGED <<stack, calm, linked, i, half, row, pubExit, subVars, reqUp, req, rep>>

-----------------------------------------------------------------------------
(* Publisher.                                                              *)

Want == IF linked THEN kSeqBase + 1 + i ELSE i + 1

ExitPub(code) == pub' = "exited" /\ pubExit' = code

\* A round of the link phase without an echo.
NextProbe ==
    /\ i' = i + 1
    /\ IF i + 1 < Probes
         THEN pub' = "probe" /\ UNCHANGED pubExit
         ELSE ExitPub("error")
    /\ UNCHANGED <<linked, half, row>>

\* Cyclone sends a probe only once its writer is matched.
ProbeUnmatched ==
    /\ pub = "probe" /\ stack = "cyclone" /\ ~reqUp
    /\ NextProbe
    /\ UNCHANGED <<subVars, netVars, req, rep>>

\* Sending reports an error; Zenoh throws instead, see SendFails.
ProbeFails ==
    /\ pub = "probe" /\ stack # "zenoh" /\ ~calm
    /\ NextProbe
    /\ UNCHANGED <<subVars, netVars, req, rep>>

\* The link is believed as soon as a probe is out.
ProbeTrustsMatch ==
    /\ pub = "probe"
    /\ stack = "cyclone" => reqUp
    /\ HasRoom(req, reqUp)
    /\ req' = Put(req, reqUp, Sample(Want, FALSE))
    /\ pub' = "send" /\ linked' = TRUE /\ i' = 0
    /\ UNCHANGED <<half, row, pubExit, subVars, netVars, rep>>

Probe ==
    /\ pub = "probe"
    /\ stack = "cyclone" => reqUp
    /\ HasRoom(req, reqUp)
    /\ req' = Put(req, reqUp, Sample(Want, FALSE))
    /\ pub' = "read"
    /\ UNCHANGED <<linked, i, half, row, pubExit, subVars, netVars, rep>>

Send ==
    /\ pub = "send"
    /\ HasRoom(req, reqUp)
    /\ req' = Put(req, reqUp, Sample(Want, TRUE))
    /\ pub' = "read"
    /\ UNCHANGED <<linked, i, half, row, pubExit, subVars, netVars, rep>>

\* An error ends the measured phase, an exception either phase.
SendFails ==
    /\ pub = "send" \/ (pub = "probe" /\ stack = "zenoh")
    /\ ~calm
    /\ ExitPub("error")
    /\ UNCHANGED <<linked, i, half, row, subVars, netVars, req, rep>>

\* Any sample counts as the echo.
AnyEcho(s) == TRUE

IsEcho(s) == s.seq = Want

\* One sample more than the warmup is skipped.
RecordsLate == i > Warmup

Records == i >= Warmup

Linked ==
    /\ linked' = TRUE /\ i' = 0 /\ pub' = "send"
    /\ UNCHANGED <<half, row, pubExit>>

Measured(s) ==
    /\ half' = IF Records THEN Append(half, [want |-> Want, got |-> s]) ELSE half
    /\ i' = i + 1
    /\ IF i + 1 < Warmup + Count
         THEN pub' = "send" /\ UNCHANGED <<row, pubExit>>
         ELSE ExitPub("ok") /\ row' = Len(half')
    /\ UNCHANGED linked

\* Samples with another number are taken and forgotten.
Read ==
    /\ pub = "read"
    /\ rep # <<>>
    /\ rep' = Tail(rep)
    /\ IF ~IsEcho(Head(rep)) THEN UNCHANGED pubVars
       ELSE IF linked THEN Measured(Head(rep)) ELSE Linked
    /\ UNCHANGED <<subVars, netVars, req>>

\* Subspace waits without a deadline for something to read.
Block ==
    /\ pub = "read" /\ stack = "subspace"
    /\ rep = <<>>
    /\ pub' = "blocked"
    /\ UNCHANGED <<linked, i, half, row, pubExit, subVars, netVars, req, rep>>

Wake ==
    /\ pub = "blocked"
    /\ rep # <<>>
    /\ pub' = "read"
    /\ UNCHANGED <<linked, i, half, row, pubExit, subVars, netVars, req, rep>>

\* The number waited for is still in a channel or in the subscriber's hand.
Holds(ch, n) == \E k \in 1 .. Len(ch) : ch[k].seq = n

UnderWay(n) ==
    \/ Holds(req, n) \/ Holds(rep, n)
    \/ sub = "echo" /\ hand.seq = n

\* A measured sample without an echo is skipped, as a probe is.
GiveUpAndGoOn ==
    IF linked
      THEN /\ i' = i + 1
           /\ IF i + 1 < Warmup + Count
                THEN pub' = "send" /\ UNCHANGED <<row, pubExit>>
                ELSE ExitPub("ok") /\ row' = Len(half)
           /\ UNCHANGED <<linked, half>>
      ELSE NextProbe

\* The read has no deadline.
NeverGivesUp == FALSE

GiveUp == IF linked THEN ExitPub("error") /\ UNCHANGED <<linked, i, half, row>> ELSE NextProbe

\* The deadline of the read is found passed at the head of its loop, or the
\* read reports an error.
Expire ==
    /\ pub = "read"
    /\ (linked /\ calm) => ~UnderWay(Want)
    /\ GiveUp
    /\ UNCHANGED <<subVars, netVars, req, rep>>

-----------------------------------------------------------------------------
(* Subscriber.                                                             *)

\* Cyclone waits for its match or 30 s, and goes on either way.
MatchEnds ==
    /\ sub = "match"
    /\ sub' = "take"
    /\ UNCHANGED <<pubVars, subExit, hand, netVars, req, rep>>

TakeReq ==
    /\ sub = "take"
    /\ req # <<>>
    /\ req' = Tail(req)
    /\ hand' = Head(req)
    /\ sub' = "echo"
    /\ UNCHANGED <<pubVars, subExit, netVars, rep>>

Echo ==
    /\ sub = "echo"
    /\ HasRoom(rep, repUp)
    /\ rep' = Put(rep, repUp, hand)
    /\ sub' = "take"
    /\ UNCHANGED <<pubVars, subExit, hand, netVars, req>>

\* Taking or writing reports an error.
SubFails ==
    /\ sub \in {"take", "echo"} /\ ~calm
    /\ sub' = "exited" /\ subExit' = "error"
    /\ UNCHANGED <<pubVars, hand, netVars, req, rep>>

-----------------------------------------------------------------------------
(* Docker compose: --abort-on-container-exit --exit-code-from pub.         *)

StopSub ==
    /\ pub = "exited" /\ sub # "exited"
    /\ sub' = "exited" /\ subExit' = "killed"
    /\ UNCHANGED <<pubVars, hand, netVars, req, rep>>

StopPub ==
    /\ sub = "exited" /\ pub # "exited"
    /\ ExitPub("killed")
    /\ UNCHANGED <<linked, i, half, row, subVars, netVars, req, rep>>

-----------------------------------------------------------------------------
Pub == \/ ProbeUnmatched \/ ProbeFails \/ Probe \/ Send \/ SendFails
       \/ Read \/ Block \/ Wake \/ Expire

Sub == MatchEnds \/ TakeReq \/ Echo \/ SubFails

Compose == StopSub \/ StopPub

Next == Pub \/ Sub \/ Compose \/ LinkReq \/ LinkRep

Spec == Init /\ [][Next]_vars

\* Both processes and compose run on; a network that never links is allowed.
FairSpec == Spec /\ WF_vars(Pub) /\ WF_vars(Sub) /\ WF_vars(Compose)

-----------------------------------------------------------------------------
Samples == [seq : Nat, measured : BOOLEAN]

(* Type correctness.                                                       *)
TypeOK ==
    /\ pub \in {"probe", "send", "read", "blocked", "exited"}
    /\ sub \in {"match", "take", "echo", "exited"}
    /\ linked \in BOOLEAN
    /\ i \in 0 .. (IF linked THEN Warmup + Count ELSE Probes)
    /\ half \in Seq([want : Nat, got : Samples])
    /\ row \in -1 .. Count
    /\ {pubExit, subExit} \subseteq {"none", "ok", "error", "killed"}
    /\ req \in Seq(Samples) /\ rep \in Seq(Samples) /\ hand \in Samples
    /\ Len(req) <= Depth /\ Len(rep) <= Depth
    /\ stack \in Stacks /\ calm \in BOOLEAN
    /\ reqUp \in BOOLEAN /\ repUp \in BOOLEAN

(* Every recorded half round trip was measured on the echo of the sample   *)
(* sent for it, although probes that were given up are echoed late.        *)
OwnEcho ==
    \A k \in 1 .. Len(half) :
        /\ half[k].got = Sample(half[k].want, TRUE)
        /\ half[k].want = kSeqBase + Warmup + k

InFlight == Len(req) + Len(rep) + (IF sub = "echo" THEN 1 ELSE 0)

(* Ping-pong: once linked, at most one sample is anywhere in the system.   *)
(* The echo that made the link came behind all the late ones, so that no   *)
(* half round trip contains the queueing of another sample.                *)
OneInFlight == linked => InFlight <= 1

(* While the publisher waits for a measured echo and both processes live,  *)
(* the sample is under way: an echo proves both directions matched, and no *)
(* backlog is left that could push the sample out of a full history.       *)
EchoUnderWay ==
    (linked /\ pub \in {"read", "blocked"} /\ sub # "exited") => UnderWay(Want)

(* The run succeeds exactly when a row was printed, and the row has one    *)
(* entry for each of the Count samples asked for: the part of RoundTrips   *)
(* that needs no history.                                                  *)
RowComplete ==
    /\ pubExit = "ok" <=> row # -1
    /\ row # -1 => row = Count

(* The bench implements RoundTrips: from the link on its channels and the  *)
(* subscriber's hand are the one place where the one sample is, and what   *)
(* half holds are the rounds after the warmup, in order, each measured on  *)
(* its own sample.                                                         *)
Trips == INSTANCE RoundTrips WITH
    phase    <- IF pub = "exited" THEN (IF pubExit = "ok" THEN "done" ELSE "failed")
                ELSE IF linked THEN "measuring" ELSE "linking",
    ball     <- IF ~linked \/ pub \in {"send", "exited"} THEN "pub"
                ELSE IF rep # <<>> THEN "back"
                ELSE IF req # <<>> THEN "out" ELSE "sub",
    round    <- IF linked THEN i ELSE 0,
    recorded <- [k \in 1 .. Len(half) |->
                    IF half[k].got.measured THEN half[k].got.seq - kSeqBase ELSE 0],
    printed  <- row

ImplementsRoundTrips == Trips!Spec

(* The stacks whose read has a deadline end, with or without a link.       *)
RunEnds == stack # "subspace" => <>(pub = "exited" /\ sub = "exited")

(* Once linked, a run whose calls do not fail and whose echoes come within *)
(* five seconds completes.                                                 *)
LinkedCompletes == (linked /\ calm) ~> (pubExit = "ok" /\ row = Count)

(* The link phase ends with a link or with the message that there is none. *)
LinkDecided == <>(linked \/ pub = "exited")
=============================================================================
