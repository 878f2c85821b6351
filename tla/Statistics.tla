----------------------------- MODULE Statistics -----------------------------
(***************************************************************************)
(* The summary of a configuration's trials (engine/src/stats.cpp), over    *)
(* natural numbers.  Percentiles are in hundredths, which makes numpy's    *)
(* linear interpolation exact for whole percentages.  The deviation is     *)
(* represented by n (n - 1) times the sample variance: it has the sign of  *)
(* the standard deviation and is 0 when that is.                           *)
(***************************************************************************)
EXTENDS Integers, Sequences, FiniteSets

\* The values in ascending order: at place k the one with k - 1 others before it.
Sorted(v) ==
    LET Before(i, j) == v[i] < v[j] \/ (v[i] = v[j] /\ i < j)
        Place(j) == Cardinality({i \in DOMAIN v : Before(i, j)}) + 1
    IN  [k \in DOMAIN v |-> v[CHOOSE j \in DOMAIN v : Place(j) = k]]

Total(v) ==
    LET sum[n \in 0..Len(v)] == IF n = 0 THEN 0 ELSE sum[n - 1] + v[n]
    IN  sum[Len(v)]

\* percentile_sorted(), in hundredths of the unit of s.
PercentileSorted(s, p) ==
    LET rank == p * (Len(s) - 1)
        lo == rank \div 100
        hi == (rank + 99) \div 100
    IN  100 * s[lo + 1] + (s[hi + 1] - s[lo + 1]) * (rank % 100)

Median(v) == PercentileSorted(Sorted(v), 50)

\* In hundredths of hundredths.
Mad(v) ==
    LET m == Median(v)
        Deviation(x) == IF 100 * x < m THEN m - 100 * x ELSE 100 * x - m
    IN  Median([i \in DOMAIN v |-> Deviation(v[i])])

SampleVariance(v) ==
    IF Len(v) < 2 THEN 0
    ELSE Len(v) * Total([i \in DOMAIN v |-> v[i] * v[i]]) - Total(v) * Total(v)

\* Mutant: the percentiles are taken from the values in the order of the trials.
SummarizeUnsorted(v) ==
    [n |-> Len(v), mean |-> (100 * Total(v)) \div Len(v), stddev |-> SampleVariance(v),
     cov |-> IF Total(v) = 0 THEN 0 ELSE SampleVariance(v),
     min |-> 100 * Sorted(v)[1], max |-> 100 * v[Len(v)], median |-> PercentileSorted(v, 50),
     p5 |-> PercentileSorted(v, 5), p95 |-> PercentileSorted(v, 95), mad |-> Mad(v)]

\* summarize() of at least one value.
Summarize(v) ==
    LET s == Sorted(v)
    IN  [n |-> Len(v), mean |-> (100 * Total(v)) \div Len(v), stddev |-> SampleVariance(v),
         cov |-> IF Total(v) = 0 THEN 0 ELSE SampleVariance(v),
         min |-> 100 * s[1], max |-> 100 * s[Len(s)], median |-> PercentileSorted(s, 50),
         p5 |-> PercentileSorted(s, 5), p95 |-> PercentileSorted(s, 95), mad |-> Mad(v)]

=============================================================================
