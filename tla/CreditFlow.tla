----------------------------- MODULE CreditFlow -----------------------------
(***************************************************************************)
(* RunMtOneWay of the same-host benchmarks: a publisher thread and the     *)
(* benchmark thread share an atomic credit counter in_flight.  The three   *)
(* stacks (src/benchmarks/subspace_bench.cc, cyclone_bench.cc and          *)
(* zenoh_bench.cc) run the same loops; where they differ the action asks   *)
(* which one it is.  One action is one access to a shared variable.        *)
(*                                                                         *)
(* The middleware is the number of samples published and not yet taken: it *)
(* keeps order, which nothing here looks at, and an unreliable channel may *)
(* drop.  The branch of the Subspace publisher for "no free slot" is left  *)
(* out: SlotFree shows it is never reached.                                *)
(***************************************************************************)
EXTENDS Integers

CONSTANTS Stacks,        \* the stacks to choose from
          MaxInFlight,   \* max_in_flight, 2
          DrainCap,      \* samples drained per iteration at most, 32
          Slots,         \* kMtSlots, 8
          Iterations     \* iterations google-benchmark asks for

ASSUME CreditAssumption ==
    /\ Stacks \subseteq {"subspace", "cyclone", "zenoh"}
    /\ MaxInFlight \in Nat \ {0}
    /\ DrainCap \in Nat /\ Iterations \in Nat \ {0}
    /\ Slots \in Nat /\ Slots > MaxInFlight + 1

VARIABLES
    stack, reliable,   \* the binary and the QoS of the run
    pubPc,       \* "top", "credit", "publish", "count", "exited"
    subPc,       \* "drain", "timed", "spin", "blocked", "load", "cas", "iterate",
                 \* "stopping", "joining", "joined"
    stop,
    inFlight,    \* in_flight
    unconsumed,  \* samples published and not yet taken
    cur,         \* the subscriber's last load of in_flight
    after,       \* where the subscriber goes on after returning a credit
    drained,     \* samples drained in this iteration
    waited,      \* wait_ns > 0 in this iteration
    iter         \* iterations completed

runVars  == <<stack, reliable>>
loopVars == <<drained, waited, iter>>
vars     == <<runVars, pubPc, subPc, stop, inFlight, unconsumed, cur, after, loopVars>>

Spins          == stack = "subspace"               \* 64 more reads before it waits
Blocks         == stack = "subspace" /\ reliable   \* sub.Wait() has no deadline
RetriesPublish == stack # "subspace" /\ reliable   \* sleep 10 us and continue

Init ==
    /\ stack \in Stacks /\ reliable \in BOOLEAN
    /\ pubPc = "top" /\ subPc = "drain"
    /\ stop = FALSE
    /\ inFlight = 0 /\ unconsumed = 0
    /\ cur = 0 /\ after = "drain"
    /\ drained = 0 /\ waited = FALSE /\ iter = 0

-----------------------------------------------------------------------------
(* Publisher thread.                                                       *)

SubUnchanged == UNCHANGED <<runVars, subPc, cur, after, loopVars>>

PubCheckStop ==
    /\ pubPc = "top"
    /\ pubPc' = IF stop THEN "exited" ELSE "credit"
    /\ UNCHANGED <<stop, inFlight, unconsumed>> /\ SubUnchanged

\* One credit too many.
HasCreditLoose == inFlight <= MaxInFlight

\* No limit at all.
HasCreditAlways == TRUE

HasCredit == inFlight < MaxInFlight

\* Without a credit it spins on the counter and does not look at stop again.
PubCheckCreditSpin ==
    /\ pubPc = "credit"
    /\ pubPc' = IF HasCredit THEN "publish" ELSE "credit"
    /\ UNCHANGED <<stop, inFlight, unconsumed>> /\ SubUnchanged

PubCheckCredit ==
    /\ pubPc = "credit"
    /\ pubPc' = IF HasCredit THEN "publish" ELSE "top"
    /\ UNCHANGED <<stop, inFlight, unconsumed>> /\ SubUnchanged

Publish ==
    /\ pubPc = "publish"
    /\ unconsumed' = unconsumed + 1
    /\ pubPc' = "count"
    /\ UNCHANGED <<stop, inFlight>> /\ SubUnchanged

PublishFails ==
    /\ pubPc = "publish"
    /\ pubPc' = IF RetriesPublish THEN "top" ELSE "exited"
    /\ UNCHANGED <<stop, inFlight, unconsumed>> /\ SubUnchanged

\* in_flight.fetch_add comes after the sample can be taken.
CountInFlight ==
    /\ pubPc = "count"
    /\ inFlight' = inFlight + 1
    /\ pubPc' = "top"
    /\ UNCHANGED <<stop, unconsumed>> /\ SubUnchanged

\* Best-effort delivery (external to these sources).
Drop ==
    /\ ~reliable
    /\ unconsumed > 0
    /\ unconsumed' = unconsumed - 1
    /\ UNCHANGED <<pubPc, stop, inFlight>> /\ SubUnchanged

-----------------------------------------------------------------------------
(* Benchmark thread.                                                       *)

\* A sample is taken and recorded (see LatencyStats); its credit is returned next.
Take(next) ==
    /\ unconsumed > 0
    /\ unconsumed' = unconsumed - 1
    /\ subPc' = "load"
    /\ after' = next
    /\ UNCHANGED <<runVars, pubPc, stop, inFlight, cur>>

DrainTake ==
    /\ subPc = "drain"
    /\ drained < DrainCap
    /\ Take("drain")
    /\ drained' = drained + 1
    /\ UNCHANGED <<waited, iter>>

DrainEnd ==
    /\ subPc = "drain"
    /\ unconsumed = 0 \/ drained = DrainCap
    /\ subPc' = "timed"
    /\ waited' = FALSE
    /\ UNCHANGED <<runVars, pubPc, stop, inFlight, unconsumed, cur, after, drained, iter>>

\* wait_ns stays 0 when the first look, or one of Subspace's spins, finds a sample.
TimedTake ==
    /\ subPc \in {"timed", "spin"}
    /\ Take("iterate")
    /\ UNCHANGED loopVars

\* An empty look: spin first on Subspace, otherwise wait.
LookEmpty ==
    /\ unconsumed = 0
    /\ \/ subPc = "timed" /\ Spins /\ subPc' = "spin" /\ waited' = waited
       \/ /\ subPc = "spin" \/ (subPc = "timed" /\ ~Spins)
          /\ subPc' = IF Blocks THEN "blocked" ELSE "timed"
          /\ waited' = TRUE
    /\ UNCHANGED <<runVars, pubPc, stop, inFlight, unconsumed, cur, after, drained, iter>>

\* sub.Wait() returns when there is something to read (external).
WaitReturns ==
    /\ subPc = "blocked"
    /\ unconsumed > 0
    /\ subPc' = "timed"
    /\ UNCHANGED <<runVars, pubPc, stop, inFlight, unconsumed, cur, after, loopVars>>

\* The 2 s deadline never stops the wait.
DeadlineIgnored == FALSE

\* The 2 s deadline, read at the head of the loop: Subspace reads it before the
\* first look, the others after it.
DeadlinePassed == subPc = "timed" /\ (waited \/ stack = "subspace")

TimedOut ==
    /\ DeadlinePassed
    /\ subPc' = "stopping"
    /\ UNCHANGED <<runVars, pubPc, stop, inFlight, unconsumed, cur, after, loopVars>>

\* A read, take or Wait() returns an error: SkipWithError and mt_done.
TakeFails ==
    /\ subPc \in {"drain", "timed", "spin", "blocked"}
    /\ subPc' = "stopping"
    /\ UNCHANGED <<runVars, pubPc, stop, inFlight, unconsumed, cur, after, loopVars>>

\* int cur = in_flight.load()
LoadCredit ==
    /\ subPc = "load"
    /\ cur' = inFlight
    /\ subPc' = "cas"
    /\ UNCHANGED <<runVars, pubPc, stop, inFlight, unconsumed, after, loopVars>>

\* The counter is stored back instead of compared and exchanged.
ReturnBlindly ==
    /\ inFlight' = IF cur > 0 THEN cur - 1 ELSE inFlight
    /\ subPc' = after
    /\ cur' = cur

\* The counter is decremented even when it reads 0.
ReturnBelowZero ==
    /\ inFlight' = inFlight - 1
    /\ subPc' = after
    /\ cur' = cur

\* while (cur > 0 && !compare_exchange_weak(cur, cur - 1)) {}
ReturnCredit ==
    IF cur > 0 /\ inFlight # cur
      THEN cur' = inFlight /\ UNCHANGED <<inFlight, subPc>>
      ELSE /\ inFlight' = IF cur > 0 THEN cur - 1 ELSE inFlight
           /\ subPc' = after
           /\ cur' = cur

CasCredit ==
    /\ subPc = "cas"
    /\ ReturnCredit
    /\ UNCHANGED <<runVars, pubPc, stop, unconsumed, after, loopVars>>

NextIteration ==
    /\ subPc = "iterate"
    /\ iter' = iter + 1
    /\ IF iter + 1 < Iterations
         THEN subPc' = "drain" /\ drained' = 0
         ELSE subPc' = "stopping" /\ drained' = drained
    /\ UNCHANGED <<runVars, pubPc, stop, inFlight, unconsumed, cur, after, waited>>

RequestStop ==
    /\ subPc = "stopping"
    /\ stop' = TRUE
    /\ subPc' = "joining"
    /\ UNCHANGED <<runVars, pubPc, inFlight, unconsumed, cur, after, loopVars>>

Join ==
    /\ subPc = "joining"
    /\ pubPc = "exited"
    /\ subPc' = "joined"
    /\ UNCHANGED <<runVars, pubPc, stop, inFlight, unconsumed, cur, after, loopVars>>

-----------------------------------------------------------------------------
PubStep == PubCheckStop \/ PubCheckCredit \/ Publish \/ CountInFlight

SubStep ==
    \/ DrainTake \/ DrainEnd
    \/ TimedTake \/ LookEmpty \/ WaitReturns \/ TimedOut
    \/ LoadCredit \/ CasCredit
    \/ NextIteration \/ RequestStop \/ Join

Next == PubStep \/ PublishFails \/ SubStep \/ TakeFails \/ Drop

Spec == Init /\ [][Next]_vars

\* Both threads are scheduled and neither waits for a lock; a loop that looks at
\* the clock again and again finds its deadline passed.  Failures and drops may
\* never come.
FairSpec == Spec /\ WF_vars(PubStep) /\ WF_vars(SubStep) /\ SF_vars(TimedOut)

-----------------------------------------------------------------------------
(* Type correctness: the counters never go negative.                       *)
TypeOK ==
    /\ stack \in Stacks /\ reliable \in BOOLEAN
    /\ pubPc \in {"top", "credit", "publish", "count", "exited"}
    /\ subPc \in {"drain", "timed", "spin", "blocked", "load", "cas", "iterate",
                  "stopping", "joining", "joined"}
    /\ stop \in BOOLEAN
    /\ inFlight \in Nat /\ unconsumed \in Nat /\ cur \in Nat
    /\ after \in {"drain", "iterate"}
    /\ drained \in Nat /\ waited \in BOOLEAN /\ iter \in Nat

\* Published but not yet counted; taken but credit not yet returned.
Uncounted  == IF pubPc = "count" THEN 1 ELSE 0
Unreturned == IF subPc \in {"load", "cas"} THEN 1 ELSE 0

(* notes/benchmarks.md:131: "at most two unconsumed messages outstanding", *)
(* although the sample is counted only after it was published and the      *)
(* credit may be returned in between.                                      *)
OutstandingBounded == unconsumed <= MaxInFlight

(* Credits err on one side only: a sample outstanding, or taken with its   *)
(* credit not yet returned, is covered by a credit or about to be counted. *)
EveryMessageCovered == unconsumed + Unreturned <= inFlight + Uncounted

(* A Subspace publisher about to write always finds a slot, the samples    *)
(* outstanding and the one the subscriber holds notwithstanding: it never  *)
(* enters pub.Wait(), which stop could not end.                            *)
SlotFree == pubPc = "publish" => unconsumed + 1 < Slots

(* The benchmark thread, once it has raised stop, always gets past join(): *)
(* the publisher is never in a place where it does not look at stop.       *)
StopIsJoined == (subPc = "joining") ~> (subPc = "joined")

(* With a wait that has a deadline, every run comes to its end, even when  *)
(* credits or samples were lost on the way.                                *)
BenchmarkEnds == ~Blocks => <>(subPc = "joined")

-----------------------------------------------------------------------------
(* What the documentation says and the code does not keep.                 *)

(* notes/benchmarks.md:10: "credit-limited to 2 in flight".  When neither  *)
(* thread is between a sample and its credit, in_flight is the number of   *)
(* samples a reliable channel has in flight.                               *)
CreditsMatchSamples ==
    (reliable /\ pubPc \in {"top", "credit"} /\ subPc \notin {"load", "cas"}) => inFlight = unconsumed
=============================================================================
