---------------------------- MODULE LatencyStats ----------------------------
(***************************************************************************)
(* The statistics every bench prints: the sum of the mean, the percentile  *)
(* by interpolation, and the split of a multithreaded run's latencies into *)
(* samples that were queued when taken and samples that were waited for.   *)
(*                                                                         *)
(* Latencies are whole units; a percentile p/100 and its weight are kept   *)
(* as numerators over 100, so Percentile is a hundred times the printed    *)
(* value.  Rounding of doubles is left out.                                *)
(***************************************************************************)
EXTENDS Integers, Sequences, FiniteSets, Functions

CONSTANTS MaxLatency,   \* bound on a latency
          MaxSamples    \* bound on the samples of a run

ASSUME StatsAssumption == MaxLatency \in Nat /\ MaxSamples \in Nat \ {0}

VARIABLES
    lat,      \* the latencies, in the order they were taken
    queued,   \* for each, whether it was queued
    stats     \* MtTakeStats

statsVars == <<lat, queued, stats>>

StatsInit ==
    /\ lat = <<>> /\ queued = <<>>
    /\ stats = [n |-> 0, nQueued |-> 0, sum |-> 0, sumQueued |-> 0, sumFresh |-> 0]

-----------------------------------------------------------------------------
\* The latencies as they came.
AsTaken(v) == v

Sorted(v) ==
    LET order == CHOOSE p \in Bijection(DOMAIN v, DOMAIN v) :
                     \A i, j \in DOMAIN v : i < j => v[p[i]] <= v[p[j]]
    IN  [i \in DOMAIN v |-> v[order[i]]]

Mix(a, b, frac) == a * (100 - frac) + b * frac

Percentile(v, p) ==
    IF v = <<>> THEN 0
    ELSE LET s   == Sorted(v)
             idx == p * (Len(v) - 1)
             lo  == idx \div 100
             hi  == IF lo + 1 < Len(v) - 1 THEN lo + 1 ELSE Len(v) - 1
         IN  Mix(s[lo + 1], s[hi + 1], idx % 100)

Sum(v) ==
    LET partial[k \in 0 .. Len(v)] == IF k = 0 THEN 0 ELSE partial[k - 1] + v[k]
    IN  partial[Len(v)]

\* Every sample also counts as waited for.
CountBoth(s, e2e, wasQueued) ==
    [s EXCEPT !.n = @ + 1, !.sum = @ + e2e,
              !.nQueued = IF wasQueued THEN @ + 1 ELSE @,
              !.sumQueued = IF wasQueued THEN @ + e2e ELSE @,
              !.sumFresh = @ + e2e]

Record(s, e2e, wasQueued) ==
    IF wasQueued
    THEN [s EXCEPT !.n = @ + 1, !.sum = @ + e2e, !.nQueued = @ + 1, !.sumQueued = @ + e2e]
    ELSE [s EXCEPT !.n = @ + 1, !.sum = @ + e2e, !.sumFresh = @ + e2e]

TakeSample ==
    /\ Len(lat) < MaxSamples
    /\ \E e2e \in 0 .. MaxLatency, q \in BOOLEAN :
          /\ lat' = Append(lat, e2e)
          /\ queued' = Append(queued, q)
          /\ stats' = Record(stats, e2e, q)

StatsNext == TakeSample

StatsSpec == StatsInit /\ [][StatsNext]_statsVars

-----------------------------------------------------------------------------
(* The k-th smallest latency, by counting.                                 *)
OrderStatistic(v, k) ==
    CHOOSE x \in Range(v) :
        /\ Cardinality({i \in DOMAIN v : v[i] < x}) < k
        /\ Cardinality({i \in DOMAIN v : v[i] <= x}) >= k

Hundredths == {0, 25, 50, 99, 100}

(* The percentile is the piecewise linear function through the order       *)
(* statistics: rank 1 at p = 0, rank n at p = 1, equal steps between.      *)
PercentileAgrees ==
    lat # <<>> =>
        \A p \in Hundredths :
            LET n == Len(lat)
                k == CHOOSE j \in 1 .. n : 100 * (j - 1) <= p * (n - 1) /\ p * (n - 1) < 100 * j
                low == OrderStatistic(lat, k)
                rise == IF k = n THEN 0 ELSE OrderStatistic(lat, k + 1) - low
            IN  Percentile(lat, p) = 100 * low + (p * (n - 1) - 100 * (k - 1)) * rise

(* The queued and the fresh mean are those of the samples of that kind, so *)
(* that together they give the mean of all.                                *)
SplitExact ==
    LET SumOf(q) == Sum([i \in DOMAIN lat |-> IF queued[i] = q THEN lat[i] ELSE 0])
    IN  /\ stats.n = Len(lat)
        /\ stats.nQueued = Cardinality({i \in DOMAIN lat : queued[i]})
        /\ stats.sumQueued = SumOf(TRUE) /\ stats.sumFresh = SumOf(FALSE)
        /\ stats.sum = Sum(lat)
=============================================================================
