------------------------------ MODULE EchoCalls -----------------------------
(***************************************************************************)
(* The round-trip mode of the vsomeip bench (--rpc-calls): the worker      *)
(* thread of EventClient calls the echo method one call at a time          *)
(* (RunEchoCalls), the dispatcher thread takes the responses               *)
(* (OnEchoResponse), and the two share rpc_pending_seq_, rpc_done_ and     *)
(* rpc_rtt_us_ under mutex_.  A call is given up after two seconds, and    *)
(* its response may still come.                                            *)
(*                                                                         *)
(* A message is the call number in its stamp; StampPayload writes the send *)
(* time next to it, so rpc_rtt_us_ is modelled by the call whose send time *)
(* it was computed from.                                                   *)
(***************************************************************************)
EXTENDS Naturals, Sequences

CONSTANTS RpcCalls,        \* --rpc-calls
          FitValues,       \* the values of fits to look at
          Networks,        \* the networks to look at
          MaxDuplicates    \* bound on the messages one duplicates

ASSUME EchoAssumption ==
    /\ RpcCalls \in Nat \ {0}
    /\ FitValues \subseteq BOOLEAN /\ FitValues # {}
    /\ Networks \subseteq {"lossy", "prompt"} /\ Networks # {}
    /\ MaxDuplicates \in Nat

Calls == 0 .. (RpcCalls - 1)

VARIABLES
    fits,       \* TCP, or --size within --max-datagram; fixed
    net,        \* "lossy", or "prompt": nothing is lost, all comes within two seconds
    pc,         \* worker: "start", "arm", "send", "wait", "exited"
    call,       \* worker: loop counter i
    pending,    \* rpc_pending_seq_
    done,       \* rpc_done_
    rttOf,      \* rpc_rtt_us_
    printed,    \* the lines printed: [call, ok, of]
    failed,     \* failed_, the exit code
    requests,   \* call -> copies of its request under way
    responses,  \* call -> copies of its response under way
    dups,       \* messages duplicated so far
    heard,      \* history: calls whose response reached OnEchoResponse
    served      \* history: calls the service's handler answered

sharedVars == <<pending, done, rttOf>>
netVars    == <<requests, responses, dups>>
histVars   == <<heard, served>>
vars == <<fits, net, pc, call, sharedVars, printed, failed, netVars, histVars>>

Nothing == [k \in Calls |-> 0]

Init ==
    /\ fits \in FitValues /\ net \in Networks
    /\ pc = "start" /\ call = 0
    /\ pending = 0 /\ done = FALSE /\ rttOf = 0
    /\ printed = <<>> /\ failed = FALSE
    /\ requests = Nothing /\ responses = Nothing /\ dups = 0
    /\ heard = {} /\ served = {}

-----------------------------------------------------------------------------
(* Worker thread.                                                          *)

\* A request that does not fit one datagram is refused before the first call.
Start ==
    /\ pc = "start"
    /\ pc' = IF fits THEN "arm" ELSE "exited"
    /\ failed' = ~fits
    /\ UNCHANGED <<fits, net, call, sharedVars, printed, netVars, histVars>>

\* rpc_done_ keeps the value of the call before.
ArmKeepsDone ==
    /\ pc = "arm"
    /\ pending' = call
    /\ pc' = "send"
    /\ UNCHANGED <<fits, net, call, done, rttOf, printed, failed, netVars, histVars>>

\* The pending number is the next call's.
ArmNext ==
    /\ pc = "arm"
    /\ pending' = call + 1
    /\ done' = FALSE
    /\ pc' = "send"
    /\ UNCHANGED <<fits, net, call, rttOf, printed, failed, netVars, histVars>>

\* Under mutex_, before the request goes out.
Arm ==
    /\ pc = "arm"
    /\ pending' = call
    /\ done' = FALSE
    /\ pc' = "send"
    /\ UNCHANGED <<fits, net, call, rttOf, printed, failed, netVars, histVars>>

SendRequest ==
    /\ pc = "send"
    /\ requests' = [requests EXCEPT ![call] = @ + 1]
    /\ pc' = "wait"
    /\ UNCHANGED <<fits, net, call, sharedVars, printed, failed, responses, dups, histVars>>

\* The end of a call: the next one, or the summary and the end of the process.
Leave ==
    /\ call' = call + 1
    /\ pc' = IF call + 1 < RpcCalls THEN "arm" ELSE "exited"

\* The wait ends with rpc_done_; rpc_rtt_us_ is read under the same lock.
Answered ==
    /\ pc = "wait"
    /\ done
    /\ printed' = Append(printed, [call |-> call, ok |-> TRUE, of |-> rttOf])
    /\ Leave
    /\ UNCHANGED <<fits, net, sharedVars, failed, netVars, histVars>>

NoneUnderWay == net = "prompt" => requests[call] + responses[call] = 0

\* The result of wait_for is not looked at again.
GivesUpRegardless == NoneUnderWay

GivesUp == ~done /\ NoneUnderWay

TimesOut ==
    /\ pc = "wait"
    /\ GivesUp
    /\ printed' = Append(printed, [call |-> call, ok |-> FALSE, of |-> call])
    /\ Leave
    /\ UNCHANGED <<fits, net, sharedVars, failed, netVars, histVars>>

-----------------------------------------------------------------------------
(* Service and network.                                                    *)

Echo ==
    /\ \E k \in Calls :
         /\ requests[k] > 0
         /\ requests' = [requests EXCEPT ![k] = @ - 1]
         /\ responses' = [responses EXCEPT ![k] = @ + 1]
         /\ served' = served \cup {k}
    /\ UNCHANGED <<fits, net, pc, call, sharedVars, printed, failed, dups, heard>>

Lose ==
    /\ net = "lossy"
    /\ \E k \in Calls :
         \/ /\ requests[k] > 0
            /\ requests' = [requests EXCEPT ![k] = @ - 1]
            /\ UNCHANGED responses
         \/ /\ responses[k] > 0
            /\ responses' = [responses EXCEPT ![k] = @ - 1]
            /\ UNCHANGED requests
    /\ UNCHANGED <<fits, net, pc, call, sharedVars, printed, failed, dups, histVars>>

Duplicate ==
    /\ dups < MaxDuplicates
    /\ dups' = dups + 1
    /\ \E k \in Calls :
         \/ /\ requests[k] > 0
            /\ requests' = [requests EXCEPT ![k] = @ + 1]
            /\ UNCHANGED responses
         \/ /\ responses[k] > 0
            /\ responses' = [responses EXCEPT ![k] = @ + 1]
            /\ UNCHANGED requests
    /\ UNCHANGED <<fits, net, pc, call, sharedVars, printed, failed, histVars>>

-----------------------------------------------------------------------------
(* Dispatcher thread.                                                      *)

\* Any response ends the wait.
AcceptAny(k) == done' = TRUE /\ rttOf' = k

\* The time is taken from the client's own memory, not from the response.
AcceptUnchecked(k) == done' = TRUE /\ rttOf' = pending

\* Under mutex_: only the pending call's response counts.
Accept(k) ==
    IF k = pending THEN done' = TRUE /\ rttOf' = k ELSE UNCHANGED <<done, rttOf>>

OnEchoResponse ==
    /\ pc # "exited"
    /\ \E k \in Calls :
         /\ responses[k] > 0
         /\ responses' = [responses EXCEPT ![k] = @ - 1]
         /\ heard' = heard \cup {k}
         /\ Accept(k)
    /\ UNCHANGED <<fits, net, pc, call, pending, printed, failed, requests, dups, served>>

-----------------------------------------------------------------------------
Worker == Start \/ Arm \/ SendRequest \/ Answered \/ TimesOut

Next == Worker \/ Echo \/ OnEchoResponse \/ Lose \/ Duplicate

Spec == Init /\ [][Next]_vars

\* The worker and dispatcher threads and the service's dispatcher run on.  The
\* network need not lose or duplicate anything.
FairSpec == Spec /\ WF_vars(Worker) /\ WF_vars(Echo) /\ WF_vars(OnEchoResponse)

-----------------------------------------------------------------------------
Lines == [call : Calls, ok : BOOLEAN, of : Calls]

(* Type correctness: one line per call, in call order, and a non-zero exit *)
(* code only when no call was made.                                        *)
TypeOK ==
    /\ pc \in {"start", "arm", "send", "wait", "exited"}
    /\ call \in 0 .. RpcCalls
    /\ pending \in Calls /\ done \in BOOLEAN /\ rttOf \in Calls
    /\ printed \in Seq(Lines)
    /\ Len(printed) = call
    /\ \A i \in 1 .. Len(printed) : printed[i].call = i - 1
    /\ fits \in FitValues /\ net \in Networks /\ failed \in BOOLEAN /\ (failed => printed = <<>>)
    /\ requests \in [Calls -> Nat] /\ responses \in [Calls -> Nat]
    /\ dups \in 0 .. MaxDuplicates
    /\ heard \subseteq served /\ served \subseteq Calls

(* A printed round trip was computed from the stamp of the call it is      *)
(* printed for, although responses of calls given up and second copies of  *)
(* a response keep coming.                                                 *)
OwnRoundTrip == \A i \in 1 .. Len(printed) : printed[i].ok => printed[i].of = printed[i].call

(* A call is reported as timed out only if its response had not been       *)
(* dispatched when it was given up: one that arrives between send and wait *)
(* is not overlooked.                                                      *)
TimeoutIsHonest ==
    [][\A k \in Calls : (TimesOut /\ call = k) => k \notin heard]_vars

(* The calls implement RemoteCall: made one at a time, each ends with a    *)
(* printed line, and a line with a round trip belongs to a call that the   *)
(* service executed while the client was asking for it or later, never to  *)
(* an earlier one.                                                         *)
Remote == INSTANCE RemoteCall WITH
    Total    <- RpcCalls,
    asked    <- IF pc = "wait" THEN call + 1 ELSE call,
    outcomes <- printed

ImplementsCalls == Remote!Spec

(* The program ends whatever the network does, and when the request fits,  *)
(* nothing is lost and two seconds are enough, it ends with every call     *)
(* answered by its own response.                                           *)
EveryCallAnswered ==
    <>(/\ pc = "exited"
       /\ (fits /\ net = "prompt") =>
             Len(printed) = RpcCalls /\ \A k \in 1 .. RpcCalls : printed[k].ok /\ printed[k].of = k - 1)
=============================================================================
