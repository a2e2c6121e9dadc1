----------------------------- MODULE RemoteCall -----------------------------
(***************************************************************************)
(* What the round-trip mode promises who reads its lines: calls are made   *)
(* one after the other, each has one outcome, and an outcome with a round  *)
(* trip is that of its own call, which the service has executed.  A call   *)
(* may be executed more than once, or after it was given up.               *)
(***************************************************************************)
EXTENDS Naturals, Sequences

CONSTANT Total           \* calls to make

VARIABLES asked,         \* calls asked so far
          served,        \* calls the service has executed
          outcomes       \* sequence of [call, ok, of]: a round trip taken from the
                         \* stamp of call "of", or none

cvars == <<asked, served, outcomes>>

Init == asked = 0 /\ served = {} /\ outcomes = <<>>

\* The call asked last has no outcome yet.
Open == asked > Len(outcomes)

Ask ==
    /\ ~Open /\ asked < Total
    /\ asked' = asked + 1
    /\ UNCHANGED <<served, outcomes>>

Serve ==
    /\ \E k \in 0 .. (asked - 1) : served' = served \cup {k}
    /\ UNCHANGED <<asked, outcomes>>

Return ==
    /\ Open
    /\ \E ok \in BOOLEAN :
         /\ ok => asked - 1 \in served
         /\ outcomes' = Append(outcomes, [call |-> asked - 1, ok |-> ok, of |-> asked - 1])
    /\ UNCHANGED <<asked, served>>

Next == Ask \/ Serve \/ Return

Spec == Init /\ [][Next]_cvars
=============================================================================
