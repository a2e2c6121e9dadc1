-------------------------- MODULE EchoCalls_proofs -------------------------
(***************************************************************************)
(* For every number of calls and every network: a printed round trip is    *)
(* the call's own, and a call reported as timed out had not been answered. *)
(*                                                                         *)
(* OwnRoundTrip needs DoneIsPending: between the dispatcher's write and    *)
(* the worker's read, rpc_rtt_us_ belongs to rpc_pending_seq_, which is    *)
(* the current call from Arm on.  TimeoutIsHonest needs NotYetAsked: no    *)
(* message of a call is under way, or was heard, before it is sent.        *)
(***************************************************************************)
EXTENDS EchoCalls, SequenceTheorems, TLAPS

InCall == pc \in {"arm", "send", "wait"}

Flags ==
    /\ fits \in FitValues /\ net \in Networks
    /\ done \in BOOLEAN /\ failed \in BOOLEAN
    /\ failed => pc = "exited" /\ call = 0

Control ==
    /\ pc \in {"start", "arm", "send", "wait", "exited"}
    /\ call \in 0 .. RpcCalls
    /\ pending \in Calls /\ rttOf \in Calls
    /\ InCall => call < RpcCalls
    /\ pc = "start" => call = 0

Network ==
    /\ requests \in [Calls -> Nat] /\ responses \in [Calls -> Nat]
    /\ dups \in 0 .. MaxDuplicates
    /\ heard \subseteq served /\ served \subseteq Calls
    /\ \A k \in Calls : responses[k] > 0 => k \in served

PrintedInv ==
    /\ printed \in Seq(Lines)
    /\ Len(printed) = call
    /\ \A i \in 1 .. Len(printed) :
         /\ printed[i].call = i - 1
         /\ printed[i].ok => printed[i].of = printed[i].call

DoneIsPending ==
    /\ done => rttOf = pending /\ pending \in served
    /\ pc \in {"send", "wait"} => pending = call

Unasked(k) == k > call \/ (k = call /\ pc # "wait")

NotYetAsked ==
    /\ \A k \in Calls : Unasked(k) => requests[k] = 0 /\ responses[k] = 0 /\ k \notin served
    /\ (pc = "wait" /\ call \in heard) => done

IInv == Flags /\ Control /\ Network /\ PrintedInv /\ DoneIsPending /\ NotYetAsked

-----------------------------------------------------------------------------
LEMMA InvInit == Init => IInv
<1> SUFFICES ASSUME Init PROVE IInv
  OBVIOUS
<1> USE EchoAssumption DEF Init, Calls
<1>0. Flags
  BY DEF Flags
<1>1. Control
  BY DEF Control, InCall
<1>2. Network
  BY DEF Network, Nothing
<1>3. PrintedInv
  BY DEF PrintedInv
<1>4. DoneIsPending
  BY DEF DoneIsPending
<1>5. NotYetAsked
  BY DEF NotYetAsked, Nothing
<1> QED  BY <1>0, <1>1, <1>2, <1>3, <1>4, <1>5 DEF IInv

\* A verdict is appended for the current call.
LEMMA PrintLine ==
    ASSUME PrintedInv, call \in Nat, call < RpcCalls,
           NEW ok \in BOOLEAN, NEW of \in Calls, ok => of = call,
           printed' = Append(printed, [call |-> call, ok |-> ok, of |-> of]),
           call' = call + 1
    PROVE  PrintedInv'
<1> DEFINE line == [call |-> call, ok |-> ok, of |-> of]
<1>1. line \in Lines
  BY EchoAssumption DEF Lines, Calls
<1>2. /\ printed' \in Seq(Lines)
      /\ Len(printed') = Len(printed) + 1
      /\ \A i \in 1 .. Len(printed) : printed'[i] = printed[i]
      /\ printed'[Len(printed) + 1] = line
  BY <1>1, AppendProperties DEF PrintedInv
<1>3. /\ line.call = call
      /\ line.ok => line.of = line.call
  OBVIOUS
<1>4. ASSUME NEW i \in 1 .. Len(printed')
      PROVE  /\ printed'[i].call = i - 1
             /\ printed'[i].ok => printed'[i].of = printed'[i].call
  <2>1. CASE i \in 1 .. Len(printed)
    BY <1>2, <2>1 DEF PrintedInv
  <2>2. CASE i = Len(printed) + 1
    <3>1. printed'[i] = line
      BY <1>2, <2>2
    <3>2. i - 1 = call
      BY <2>2 DEF PrintedInv
    <3> QED  BY <1>3, <3>1, <3>2
  <2>3. Len(printed) \in Nat
    BY DEF PrintedInv
  <2> QED  BY <1>2, <2>1, <2>2, <2>3
<1>5. Len(printed') = call'
  BY <1>2 DEF PrintedInv
<1> QED  BY <1>2, <1>4, <1>5 DEF PrintedInv

LEMMA LeaveInv ==
    ASSUME IInv, pc = "wait", Leave, UNCHANGED <<fits, net, sharedVars, failed, netVars, histVars>>
    PROVE  Flags' /\ Control' /\ Network' /\ DoneIsPending' /\ NotYetAsked'
<1> USE EchoAssumption DEF IInv, Leave, sharedVars, netVars, histVars, Calls
<1>0. Flags'
  <2>1. ~failed
    BY DEF Flags
  <2> QED  BY <2>1 DEF Flags
<1>1. Control'
  BY DEF Control, InCall
<1>2. Network'
  BY DEF Network
<1>3. DoneIsPending'
  BY DEF DoneIsPending
<1>4. NotYetAsked'
  BY DEF NotYetAsked, Unasked, Control
<1> QED  BY <1>0, <1>1, <1>2, <1>3, <1>4

LEMMA WorkerInv ==
    ASSUME IInv, Worker
    PROVE  IInv'
<1> USE EchoAssumption DEF sharedVars, netVars, histVars
<1>1. CASE Start
  <2> USE <1>1 DEF Start, IInv
  <2>0. Flags'
    <3>1. call' = 0
      BY DEF Control
    <3> QED  BY <3>1 DEF Flags
  <2>1. Control'
    BY DEF Control, InCall
  <2>2. Network' /\ PrintedInv' /\ DoneIsPending'
    BY DEF Network, PrintedInv, DoneIsPending
  <2>3. NotYetAsked'
    BY DEF NotYetAsked, Unasked, Control, Calls
  <2> QED  BY <2>0, <2>1, <2>2, <2>3
<1>2. CASE Arm
  <2> USE <1>2 DEF Arm, IInv
  <2>0. Flags'
    BY DEF Flags
  <2>1. Control' /\ DoneIsPending'
    BY DEF Control, InCall, Calls, DoneIsPending
  <2>2. Network' /\ PrintedInv'
    BY DEF Network, PrintedInv
  <2>3. NotYetAsked'
    BY DEF NotYetAsked, Unasked, Control, Calls
  <2> QED  BY <2>0, <2>1, <2>2, <2>3
<1>3. CASE SendRequest
  <2> USE <1>3 DEF SendRequest, IInv
  <2>0. Flags'
    BY DEF Flags
  <2>1. Control'
    BY DEF Control, InCall
  <2>2. DoneIsPending'
    BY DEF DoneIsPending
  <2>3. Network'
    <3>1. call \in Calls
      BY DEF Control, InCall, Calls
    <3> QED  BY <3>1 DEF Network
  <2>5. PrintedInv'
    BY DEF PrintedInv
  <2>4. NotYetAsked'
    BY DEF NotYetAsked, Unasked, Control, Network, InCall, Calls
  <2> QED  BY <2>0, <2>1, <2>2, <2>3, <2>4, <2>5
<1>4. CASE Answered
  <2>1. Flags' /\ Control' /\ Network' /\ DoneIsPending' /\ NotYetAsked'
    BY <1>4, LeaveInv DEF Answered
  <2>2. PrintedInv'
    <3>1. rttOf \in Calls /\ rttOf = call /\ call \in Nat /\ call < RpcCalls
      BY <1>4 DEF Answered, IInv, Control, InCall, DoneIsPending
    <3> QED  BY <1>4, <3>1, PrintLine DEF Answered, Leave, IInv
  <2> QED  BY <2>1, <2>2 DEF IInv
<1>5. CASE TimesOut
  <2>1. Flags' /\ Control' /\ Network' /\ DoneIsPending' /\ NotYetAsked'
    BY <1>5, LeaveInv DEF TimesOut
  <2>2. PrintedInv'
    <3>1. call \in Calls /\ call \in Nat /\ call < RpcCalls
      BY <1>5 DEF TimesOut, IInv, Control, InCall, Calls
    <3> QED  BY <1>5, <3>1, PrintLine DEF TimesOut, Leave, IInv
  <2> QED  BY <2>1, <2>2 DEF IInv
<1> QED  BY <1>1, <1>2, <1>3, <1>4, <1>5 DEF Worker

LEMMA NetworkInv ==
    ASSUME IInv, Echo \/ Lose \/ Duplicate
    PROVE  IInv'
<1> USE DEF IInv, sharedVars, histVars
<1>0. Flags'
  BY DEF Echo, Lose, Duplicate, Flags
<1>1. Control' /\ PrintedInv' /\ DoneIsPending'
  BY DEF Echo, Lose, Duplicate, Control, InCall, PrintedInv, DoneIsPending
<1>2. Network'
  <2>1. CASE Echo
    BY <2>1 DEF Echo, Network
  <2>2. CASE Lose
    BY <2>2 DEF Lose, Network
  <2>3. CASE Duplicate
    BY <2>3, EchoAssumption DEF Duplicate, Network
  <2> QED  BY <2>1, <2>2, <2>3
<1>3. NotYetAsked'
  <2>1. /\ UNCHANGED <<pc, call, done, heard>> /\ heard \subseteq served
        /\ \E k \in Calls :
             /\ requests[k] > 0 \/ responses[k] > 0
             /\ \A j \in Calls \ {k} : requests'[j] = requests[j] /\ responses'[j] = responses[j]
             /\ served' \subseteq served \cup {k}
    BY DEF Echo, Lose, Duplicate, Network
  <2>2. PICK k \in Calls :
             /\ requests[k] > 0 \/ responses[k] > 0
             /\ \A j \in Calls \ {k} : requests'[j] = requests[j] /\ responses'[j] = responses[j]
             /\ served' \subseteq served \cup {k}
    BY <2>1
  <2>3. ~Unasked(k)
    BY <2>2 DEF NotYetAsked, Network
  <2> QED  BY <2>1, <2>2, <2>3 DEF NotYetAsked, Unasked
<1> QED  BY <1>0, <1>1, <1>2, <1>3

LEMMA DispatcherInv ==
    ASSUME IInv, OnEchoResponse
    PROVE  IInv'
<1> USE DEF IInv, OnEchoResponse, Accept
<1>0. Flags'
  BY DEF Flags
<1>1. Control' /\ DoneIsPending'
  <2>1. PICK k \in Calls : responses[k] > 0 /\ Accept(k)
    OBVIOUS
  <2>2. k \in served
    BY <2>1 DEF Network
  <2> QED  BY <2>1, <2>2 DEF Control, InCall, DoneIsPending
<1>2. Network' /\ PrintedInv'
  BY DEF Network, PrintedInv
<1>3. NotYetAsked'
  BY DEF NotYetAsked, Unasked, Network, Control, DoneIsPending, Calls
<1> QED  BY <1>0, <1>1, <1>2, <1>3

LEMMA InvStep == IInv /\ [Next]_vars => IInv'
<1> SUFFICES ASSUME IInv, [Next]_vars PROVE IInv'
  OBVIOUS
<1>1. CASE Next
  BY <1>1, WorkerInv, NetworkInv, DispatcherInv DEF Next
<1>2. CASE UNCHANGED vars
  BY <1>2 DEF vars, sharedVars, netVars, histVars, IInv, Flags, Control, InCall, Network, PrintedInv, DoneIsPending,
     NotYetAsked, Unasked
<1> QED  BY <1>1, <1>2

THEOREM IInvHolds == Spec => []IInv
BY InvInit, InvStep, PTL DEF Spec

-----------------------------------------------------------------------------
(* The type invariant of the round-trip mode: one line per call, in call   *)
(* order, for every number of calls.                                       *)
THEOREM EchoTypes == Spec => []TypeOK
<1>1. IInv => TypeOK
  <2> SUFFICES ASSUME IInv PROVE TypeOK
    OBVIOUS
  <2>1. failed => printed = <<>>
    BY EmptySeq DEF IInv, Flags, PrintedInv
  <2> QED  BY <2>1 DEF IInv, Flags, Control, Network, PrintedInv, TypeOK
<1> QED  BY <1>1, IInvHolds, PTL

(* Every printed round trip was computed from its own call's stamp,        *)
(* whatever the network repeats or delivers late.                          *)
THEOREM RoundTripsAreOwn == Spec => []OwnRoundTrip
<1>1. IInv => OwnRoundTrip
  BY DEF IInv, PrintedInv, OwnRoundTrip
<1> QED  BY <1>1, IInvHolds, PTL

(* A call is printed as timed out only if no response to it was            *)
(* dispatched before.                                                      *)
THEOREM TimeoutsAreHonest == Spec => TimeoutIsHonest
<1>1. IInv /\ [Next]_vars => [\A k \in Calls : (TimesOut /\ call = k) => k \notin heard]_vars
  BY DEF IInv, NotYetAsked, TimesOut, GivesUp
<1> QED  BY <1>1, IInvHolds, PTL DEF Spec, TimeoutIsHonest

-----------------------------------------------------------------------------
\* What the refinement mapping makes of the worker's counter.
Asked == IF pc = "wait" THEN call + 1 ELSE call

LEMMA CountsCalls ==
    ASSUME IInv
    PROVE  Asked \in Nat /\ call \in Nat /\ Len(printed) = call /\ RpcCalls \in Nat
BY EchoAssumption DEF IInv, Control, PrintedInv, Asked

LEMMA WorkerRefines ==
    ASSUME IInv, Worker
    PROVE  Remote!Next \/ UNCHANGED <<Asked, served, printed>>
<1> USE CountsCalls DEF Asked, histVars
<1>1. CASE Start
  BY <1>1 DEF Start
<1>2. CASE Arm
  BY <1>2 DEF Arm
<1>3. CASE SendRequest
  BY <1>3 DEF SendRequest, IInv, Control, InCall, Remote!Next, Remote!Ask, Remote!Open
<1>4. CASE Answered \/ TimesOut
  <2>1. PICK ok \in BOOLEAN :
          /\ ok => call \in served
          /\ printed' = Append(printed, [call |-> call, ok |-> ok, of |-> call])
    <3>1. CASE Answered
      <4>1. rttOf = call /\ call \in served
        BY <3>1 DEF Answered, IInv, DoneIsPending
      <4> QED  BY <3>1, <4>1 DEF Answered
    <3>2. CASE TimesOut
      BY <3>2 DEF TimesOut
    <3> QED  BY <1>4, <3>1, <3>2
  <2>2. pc = "wait" /\ pc' # "wait" /\ call' = call + 1 /\ served' = served
    BY <1>4 DEF Answered, TimesOut, Leave
  <2>3. Asked = call + 1 /\ Asked' = Asked /\ Asked - 1 = call /\ Asked > Len(printed)
    BY <2>2
  <2> HIDE DEF Asked
  <2>4. Remote!Return
    BY <2>1, <2>2, <2>3 DEF Remote!Return, Remote!Open, Asked
  <2> QED  BY <2>4 DEF Remote!Next
<1> QED  BY <1>1, <1>2, <1>3, <1>4 DEF Worker

LEMMA ServiceRefines ==
    ASSUME IInv, Echo
    PROVE  Remote!Serve
<1>1. PICK k \in Calls : requests[k] > 0 /\ served' = served \cup {k}
  BY DEF Echo
<1>2. ~Unasked(k)
  BY <1>1 DEF IInv, NotYetAsked
<1>3. k \in 0 .. (Asked - 1)
  BY <1>2, CountsCalls DEF Unasked, Calls, Asked
<1>4. UNCHANGED <<Asked, printed>>
  BY DEF Echo, Asked
<1> QED  BY <1>1, <1>3, <1>4 DEF Remote!Serve, Asked

(* The round-trip mode implements RemoteCall: every step is the asking,    *)
(* the execution or the outcome of a call, or invisible to it.             *)
THEOREM CallsAreImplemented == Spec => ImplementsCalls
<1>1. Init => Remote!Init
  BY DEF Init, Remote!Init
<1>2. IInv /\ [Next]_vars => [Remote!Next]_(Remote!cvars)
  <2> SUFFICES ASSUME IInv, [Next]_vars
               PROVE  Remote!Next \/ UNCHANGED <<Asked, served, printed>>
    BY DEF Remote!cvars, Asked
  <2>1. CASE Worker
    BY <2>1, WorkerRefines
  <2>2. CASE Echo
    BY <2>2, ServiceRefines DEF Remote!Next
  <2>3. CASE OnEchoResponse \/ Lose \/ Duplicate
    BY <2>3 DEF OnEchoResponse, Lose, Duplicate, Asked, histVars
  <2>4. CASE UNCHANGED vars
    BY <2>4 DEF vars, histVars, Asked
  <2> QED  BY <2>1, <2>2, <2>3, <2>4 DEF Next
<1> QED  BY <1>1, <1>2, IInvHolds, PTL DEF Spec, ImplementsCalls, Remote!Spec
=============================================================================
