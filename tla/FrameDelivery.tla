---------------------------- MODULE FrameDelivery ---------------------------
(***************************************************************************)
(* What the event stream promises its statistics: frames come out at most  *)
(* once, in the order they went in, only after they went in completely,    *)
(* and each with the stamp it was sent with.  Frames may be missing.       *)
(***************************************************************************)
EXTENDS Naturals, Sequences

CONSTANT Total           \* frames the publisher sends

VARIABLES published,     \* number of frames sent completely
          delivered      \* sequence of [seq, sendNs]

dvars == <<published, delivered>>

\* The stamp frame s carries.
StampOf(s) == s + 1

Init == published = 0 /\ delivered = <<>>

Publish ==
    /\ published < Total
    /\ published' = published + 1
    /\ UNCHANGED delivered

Deliver ==
    \E s \in 0 .. (published - 1) :
        /\ \A k \in 1 .. Len(delivered) : delivered[k].seq < s
        /\ delivered' = Append(delivered, [seq |-> s, sendNs |-> StampOf(s)])
        /\ UNCHANGED published

Next == Publish \/ Deliver

Spec == Init /\ [][Next]_dvars
=============================================================================
