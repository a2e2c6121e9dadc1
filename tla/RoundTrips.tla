----------------------------- MODULE RoundTrips -----------------------------
(***************************************************************************)
(* What a row of the network bench promises: once the two containers are   *)
(* linked there is one sample, which goes out, is taken, is sent back and  *)
(* is caught before the next one is served.  The row tells, in order, of   *)
(* the round trips after the warmup, all of them; a run that fails prints  *)
(* none.  How long a round trip takes, and whether the sample ever comes   *)
(* back, is left open.                                                     *)
(***************************************************************************)
EXTENDS Integers, Sequences

CONSTANTS Warmup, Count      \* round trips not recorded, and recorded

VARIABLES phase,             \* "linking", "measuring", "done", "failed"
          ball,              \* where the sample is: "pub", "out", "sub", "back"
          round,             \* round trips completed
          recorded,          \* for each entry of the row, the round it tells of
          printed            \* entries printed, or -1

tvars == <<phase, ball, round, recorded, printed>>

Init ==
    /\ phase = "linking" /\ ball = "pub" /\ round = 0
    /\ recorded = <<>> /\ printed = -1

Link ==
    /\ phase = "linking" /\ phase' = "measuring"
    /\ UNCHANGED <<ball, round, recorded, printed>>

Flies(from, to) ==
    /\ phase = "measuring"
    /\ ball = from /\ ball' = to
    /\ UNCHANGED <<phase, round, recorded, printed>>

Catch ==
    /\ phase = "measuring"
    /\ ball = "back" /\ ball' = "pub"
    /\ round' = round + 1
    /\ recorded' = IF round >= Warmup THEN Append(recorded, round') ELSE recorded
    /\ IF round' < Warmup + Count
         THEN UNCHANGED <<phase, printed>>
         ELSE phase' = "done" /\ printed' = Count

Fail ==
    /\ phase \in {"linking", "measuring"}
    /\ phase' = "failed" /\ ball' = "pub"
    /\ UNCHANGED <<round, recorded, printed>>

Next == \/ Link \/ Catch \/ Fail
        \/ Flies("pub", "out") \/ Flies("out", "sub") \/ Flies("sub", "back")

Spec == Init /\ [][Next]_tvars
=============================================================================
