--------------------------- MODULE MCChunkedBlock ---------------------------
(* Bounded command lines of ChunkedBlock.  The small sizes put every       *)
(* remainder of size modulo the budget, and both outcomes of HeadersFit,   *)
(* in reach; the other lists go around the ends of every range that is     *)
(* checked, or that nothing checks.                                        *)
EXTENDS ChunkedBlock

Arg(k, v) == [key |-> k, value |-> v]

\* A valid command line, one warmup and one measured frame.
Line(s, d, t) ==
    <<Arg("size", s), Arg("max_datagram", d), Arg("transport", t),
      Arg("warmup", 1), Arg("count", 1)>>

MCPlans ==
    {Line(s, d, "udp") : s \in 16 .. 75, d \in {13, 20, 28, 31, 36, 44, 60}}
        \cup {Line(s, 36, "tcp") : s \in 16 .. 75}

\* Below 13 the budget wraps; from SizeT - 27 on, size + budget - 1 does.
MCBudgets ==
    {Line(40, d, t) : d \in (0 .. 14) \cup {8164, 8165, 8191}, t \in {"udp", "tcp"}}

\* The last ints make warmup + count overflow.
MCCounts ==
    {Line(40, 36, "udp") \o <<Arg("warmup", w), Arg("count", n)>> :
        w \in {-2048, -2, -1, 0, 2, 2046, 2047}, n \in {-1, 0, 1, 2, 2047}} \
    {Line(40, 36, "udp") \o <<Arg("warmup", w), Arg("count", n)>> :
        w \in {0, 2046, 2047}, n \in {2047}}

MCRefused ==
    {Line(s, 36, "udp") : s \in {0, 11, 12, 15}}
        \cup {Line(40, 36, "other")}
        \cup {Line(40, 36, "udp") \o <<a>> :
                 a \in {Arg("rate_hz", 0), Arg("help", "other"), Arg("unknown", "other"), Arg("stack", "other")}}

MCArgvs == MCPlans \cup MCBudgets \cup MCCounts \cup MCRefused
=============================================================================
