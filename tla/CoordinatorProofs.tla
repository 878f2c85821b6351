------------------------- MODULE CoordinatorProofs -------------------------
(***************************************************************************)
(* The coordinator writes whole configurations in order, each with the     *)
(* summaries of exactly its rows, leaves out trials only of a run that was *)
(* stopped, and stops at a trial boundary: for any list of configurations, *)
(* numbers of trials and retries, deadlines, budgets and amounts written.  *)
(***************************************************************************)
EXTENDS Coordinator, FiniteSetTheorems, TLAPS

(* Arithmetic of rows: row k of a session is metric (k - 1) % g of trial     *)
(* (k - 1) \div g.                                                           *)

\* Division with remainder.
LEMMA DivMod ==
    ASSUME NEW x \in Nat, NEW g \in Nat \ {0}
    PROVE  /\ x \div g \in Nat /\ x % g \in 0..(g - 1)
           /\ x = ((x \div g) * g) + (x % g)
OBVIOUS

\* Its result is the only one possible.
LEMMA DivModUnique ==
    ASSUME NEW t \in Nat, NEW g \in Nat \ {0}, NEW m \in 0..(g - 1)
    PROVE  (t * g + m) \div g = t /\ (t * g + m) % g = m
OBVIOUS

\* The rows of trial t end where those of a later trial n begin, or before.
LEMMA MulMono ==
    ASSUME NEW t \in Nat, NEW n \in Nat, NEW g \in Nat \ {0}, t < n
    PROVE  t * g \in Nat /\ n * g \in Nat /\ t * g + g <= n * g
OBVIOUS

\* From one row to the next, the metric or else the trial goes up by one.
LEMMA NextRow ==
    ASSUME NEW x \in Nat, NEW g \in Nat \ {0}
    PROVE  \/ (x + 1) \div g = x \div g /\ (x + 1) % g = (x % g) + 1
           \/ (x + 1) \div g = (x \div g) + 1
<1> DEFINE q == x \div g
           m == x % g
<1>1. q \in Nat /\ m \in 0..(g - 1) /\ x = (q * g) + m
  BY DivMod
<1> HIDE DEF q, m
<1>2. CASE m + 1 < g
  <2>1. x + 1 = q * g + (m + 1) /\ m + 1 \in 0..(g - 1)
    BY <1>1, <1>2
  <2>2. (q * g + (m + 1)) \div g = q /\ (q * g + (m + 1)) % g = m + 1
    BY <1>1, <2>1, DivModUnique
  <2>3. (x + 1) \div g = q /\ (x + 1) % g = m + 1
    BY <2>1, <2>2, Zenon
  <2> QED BY <2>3 DEF q, m
<1>3. CASE m + 1 = g
  <2>1. (q + 1) * g = q * g + g /\ q * g \in Nat
    BY <1>1
  <2>2. x + 1 = (q + 1) * g + 0
    BY <1>1, <1>3, <2>1
  <2>3. q + 1 \in Nat /\ 0 \in 0..(g - 1)
    BY <1>1
  <2>4. ((q + 1) * g + 0) \div g = q + 1
    BY <2>3, DivModUnique
  <2>5. (x + 1) \div g = q + 1
    BY <2>2, <2>4, Zenon
  <2> QED BY <2>5 DEF q
<1> QED BY <1>1, <1>2, <1>3

\* The row of a trial and a metric, and the trial and the metric of a row.
LEMMA RowPlaces ==
    ASSUME NEW n \in Nat, NEW g \in Nat \ {0}
    PROVE  /\ n * g \in Nat
           /\ \A t \in 0..(n - 1), m \in 0..(g - 1) :
                /\ t * g + m + 1 \in 1..(n * g)
                /\ ((t * g + m + 1) - 1) \div g = t
                /\ ((t * g + m + 1) - 1) % g = m
           /\ \A k \in 1..(n * g) :
                /\ (k - 1) \div g \in 0..(n - 1) /\ (k - 1) % g \in 0..(g - 1)
                /\ k = ((k - 1) \div g) * g + ((k - 1) % g) + 1
<1>1. n * g \in Nat
  OBVIOUS
<1>2. ASSUME NEW t \in 0..(n - 1), NEW m \in 0..(g - 1)
      PROVE  /\ t * g + m + 1 \in 1..(n * g)
             /\ ((t * g + m + 1) - 1) \div g = t
             /\ ((t * g + m + 1) - 1) % g = m
  <2>1. t \in Nat /\ t < n /\ m \in Nat /\ m < g
    OBVIOUS
  <2>2. t * g \in Nat /\ t * g + g <= n * g
    BY <2>1, MulMono
  <2>3. (t * g + m + 1) - 1 = t * g + m
    BY <2>1, <2>2
  <2> QED BY <1>1, <2>1, <2>2, <2>3, DivModUnique
<1>3. ASSUME NEW k \in 1..(n * g)
      PROVE  /\ (k - 1) \div g \in 0..(n - 1) /\ (k - 1) % g \in 0..(g - 1)
             /\ k = ((k - 1) \div g) * g + ((k - 1) % g) + 1
  <2> DEFINE q == (k - 1) \div g
             m == (k - 1) % g
  <2>1. k - 1 \in Nat /\ k - 1 < n * g
    BY <1>1
  <2>2. q \in Nat /\ m \in 0..(g - 1) /\ k - 1 = (q * g) + m
    BY <2>1, DivMod
  <2> HIDE DEF q, m
  <2>3. q < n
    <3> SUFFICES ASSUME n <= q PROVE FALSE
      BY <2>2
    <3>1. n * g <= q * g /\ q * g \in Nat
      BY <2>2
    <3> QED BY <1>1, <2>1, <2>2, <3>1
  <2>4. q * g \in Nat
    BY <2>2
  <2>5. k = q * g + m + 1
    BY <2>2, <2>4
  <2> QED BY <2>2, <2>3, <2>5 DEF q, m
<1> QED BY <1>1, <1>2, <1>3

-----------------------------------------------------------------------------
(* The envelope *)

AllRows      == [spec : 1..N, metric : Nat, trial : Nat, attempt : Nat]
AllSummaries == [spec : 1..N, metric : Nat, n : Nat, attempts : Nat]

\* There is a configuration, and each has a metric.
LEMMA SpecFacts ==
    /\ N \in Nat \ {0}
    /\ \A i \in 1..N : Groups[i] \in Nat \ {0}
BY SpecsAssumption DEF N

\* What the coordinator counts.
LEMMA SessionCounts ==
    ASSUME TypeOK, NEW i \in 1..N
    PROVE  /\ sess[i].warm \in 0..WarmupTrials /\ sess[i].timed \in 0..Trials
           /\ attempt \in Nat /\ Trials \in Nat
<1>1. sess[i] \in [warm : 0..WarmupTrials, timed : 0..Trials]
  BY DEF TypeOK
<1>2. attempt \in 0..(CanaryRetries + 1) /\ CanaryRetries \in Nat
  BY NumbersAssumption DEF TypeOK, Attempts
<1> QED BY <1>1, <1>2, NumbersAssumption

\* The rows of a session.
LEMMA SessionRows ==
    ASSUME TypeOK, NEW i \in 1..N
    PROVE  /\ sess[i].timed \in 0..Trials /\ sess[i].timed * Groups[i] \in Nat
           /\ Rows(i) \in Seq(AllRows) /\ Len(Rows(i)) = sess[i].timed * Groups[i]
           /\ \A k \in 1..Len(Rows(i)) : Rows(i)[k] =
                [spec |-> i, metric |-> (k - 1) % Groups[i],
                 trial |-> (k - 1) \div Groups[i], attempt |-> attempt]
           /\ \A k \in 1..Len(Rows(i)) : Rows(i)[k].spec = i
<1>1. sess[i].timed \in 0..Trials /\ attempt \in Nat
  BY SessionCounts
<1>2. Groups[i] \in Nat \ {0}
  BY SpecFacts
<1>3. sess[i].timed \in Nat
  BY <1>1, NumbersAssumption
<1> DEFINE P == sess[i].timed * Groups[i]
           f(k) == Row(i, (k - 1) % Groups[i], (k - 1) \div Groups[i])
<1>4. P \in Nat
  BY <1>2, <1>3
<1>5. ASSUME NEW k \in 1..P PROVE f(k) \in AllRows
  <2>1. k - 1 \in Nat
    BY <1>4
  <2>2. (k - 1) \div Groups[i] \in Nat /\ (k - 1) % Groups[i] \in 0..(Groups[i] - 1)
    BY <1>2, <2>1, DivMod
  <2>3. (k - 1) % Groups[i] \in Nat
    BY <1>2, <2>2
  <2> HIDE DEF P
  <2> QED BY <1>1, <2>2, <2>3 DEF Row, AllRows
<1>6. Rows(i) = [k \in 1..P |-> f(k)]
  BY DEF Rows
<1>7. \A k \in 1..P : f(k) = [spec |-> i, metric |-> (k - 1) % Groups[i],
                 trial |-> (k - 1) \div Groups[i], attempt |-> attempt]
  BY DEF Row
<1> HIDE DEF P, f
<1>8. Rows(i) \in Seq(AllRows) /\ Len(Rows(i)) = P
  BY <1>4, <1>5, <1>6
<1>9. \A k \in 1..P : Rows(i)[k] = f(k)
  BY <1>6
<1>10. \A k \in 1..P : Rows(i)[k].spec = i
  <2>1. \A k : f(k).spec = i
    BY DEF f, Row
  <2> QED BY <1>9, <2>1, Zenon
<1> QED BY <1>1, <1>4, <1>7, <1>8, <1>9, <1>10 DEF P

\* The summaries of a session.
LEMMA SessionSummaries ==
    ASSUME TypeOK, NEW i \in 1..N
    PROVE  LET n == sess[i].timed
               len == IF n = 0 THEN 0 ELSE Groups[i]
           IN  /\ Summaries(i) \in Seq(AllSummaries) /\ Len(Summaries(i)) = len
               /\ \A m \in 1..len : Summaries(i)[m] =
                    [spec |-> i, metric |-> m - 1, n |-> n, attempts |-> attempt]
               /\ \A m \in 1..Len(Summaries(i)) : Summaries(i)[m].spec = i
<1>1. sess[i].timed \in Nat /\ attempt \in Nat
  BY SessionCounts, NumbersAssumption
<1>2. Groups[i] \in Nat \ {0}
  BY SpecFacts
<1>3. CASE sess[i].timed = 0
  BY <1>3 DEF Summaries
<1>4. CASE sess[i].timed # 0
  <2> DEFINE f(m) == [spec |-> i, metric |-> m - 1, n |-> sess[i].timed,
                      attempts |-> attempt]
             g == Groups[i]
  <2>1. Summaries(i) = [m \in 1..g |-> f(m)]
    BY <1>4 DEF Summaries
  <2>2. \A m \in 1..g : f(m) \in AllSummaries
    BY <1>1, <1>2 DEF AllSummaries
  <2>3. g \in Nat
    BY <1>2
  <2> HIDE DEF f, g
  <2>4. Summaries(i) \in Seq(AllSummaries) /\ Len(Summaries(i)) = g
    BY <2>1, <2>2, <2>3
  <2>5. \A m \in 1..g : Summaries(i)[m] = f(m)
    BY <2>1
  <2>6. \A m \in 1..g : Summaries(i)[m].spec = i
    <3>1. \A m : f(m).spec = i
      BY DEF f
    <3> QED BY <2>5, <3>1, Zenon
  <2> QED BY <1>4, <2>4, <2>5, <2>6 DEF f, g
<1> QED BY <1>3, <1>4

\* What appending does to a sequence.
LEMMA Appended ==
    ASSUME NEW S, NEW s \in Seq(S), NEW t \in Seq(S)
    PROVE  /\ s \o t \in Seq(S) /\ Len(s \o t) = Len(s) + Len(t)
           /\ Len(s) \in Nat /\ Len(t) \in Nat
           /\ DOMAIN (s \o t) = 1..(Len(s) + Len(t)) /\ DOMAIN s = 1..Len(s)
           /\ \A k \in 1..Len(s) : (s \o t)[k] = s[k]
           /\ \A k \in 1..Len(t) : (s \o t)[Len(s) + k] = t[k]
OBVIOUS

\* The rows of one session are in the envelope's order.
LEMMA RowsInOrder ==
    ASSUME TypeOK, NEW i \in 1..N, NEW k \in 1..(Len(Rows(i)) - 1)
    PROVE  Before(Rows(i)[k], Rows(i)[k + 1])
<1> DEFINE g == Groups[i]
<1>1. g \in Nat \ {0}
  BY SpecFacts
<1>2. Len(Rows(i)) \in Nat /\ k \in 1..Len(Rows(i)) /\ k + 1 \in 1..Len(Rows(i))
      /\ k - 1 \in Nat /\ (k + 1) - 1 = (k - 1) + 1
  BY SessionRows
<1>3. /\ Rows(i)[k] = [spec |-> i, metric |-> (k - 1) % g,
                       trial |-> (k - 1) \div g, attempt |-> attempt]
      /\ Rows(i)[k + 1] = [spec |-> i, metric |-> ((k + 1) - 1) % g,
                           trial |-> ((k + 1) - 1) \div g, attempt |-> attempt]
  BY <1>2, SessionRows
<1> DEFINE x == k - 1
<1>4. /\ Rows(i)[k].spec = i /\ Rows(i)[k].metric = x % g /\ Rows(i)[k].trial = x \div g
      /\ Rows(i)[k + 1].spec = i /\ Rows(i)[k + 1].metric = (x + 1) % g
      /\ Rows(i)[k + 1].trial = (x + 1) \div g
  BY <1>2, <1>3
<1>5. /\ x \div g \in Nat /\ x % g \in 0..(g - 1)
      /\ \/ (x + 1) \div g = x \div g /\ (x + 1) % g = (x % g) + 1
         \/ (x + 1) \div g = (x \div g) + 1
  BY <1>1, <1>2, DivMod, NextRow
<1> HIDE DEF x, g
<1>6. CASE (x + 1) \div g = x \div g /\ (x + 1) % g = (x % g) + 1
  <2>1. x % g \in Nat
    BY <1>1, <1>5
  <2>2. x % g < (x % g) + 1
    BY <2>1
  <2>3. Rows(i)[k].metric < Rows(i)[k + 1].metric
    BY <1>4, <1>6, <2>2
  <2>4. Rows(i)[k].trial = Rows(i)[k + 1].trial /\ Rows(i)[k].spec = Rows(i)[k + 1].spec
    BY <1>4, <1>6
  <2> QED BY <2>3, <2>4 DEF Before
<1>7. CASE (x + 1) \div g = (x \div g) + 1
  <2>1. x \div g < (x \div g) + 1
    BY <1>5
  <2>2. Rows(i)[k].trial < Rows(i)[k + 1].trial
    BY <1>4, <1>7, <2>1
  <2> QED BY <1>4, <2>2 DEF Before
<1> QED BY <1>5, <1>6, <1>7

\* Nothing is emitted, and a run that was stopped stays stopped.
LEMMA EnvelopeFrame ==
    ASSUME EnvelopeInv, results' = results, summary' = summary,
           Emitted' = Emitted, stop' = "none" => stop = "none"
    PROVE  EnvelopeInv'
<1>1. ASSUME NEW i, Reported(i) PROVE Reported(i)'
  <2>1. PICK n \in 0..Trials, a \in Attempts :
          /\ \E off \in 0..Len(results) : RowBlock(i, off, n, a)
          /\ \E off \in 0..Len(summary) : SummaryBlock(i, off, n, a)
          /\ stop = "none" => n = Trials
    BY <1>1 DEF Reported
  <2>2. \A off : RowBlock(i, off, n, a) => RowBlock(i, off, n, a)'
    BY DEF RowBlock
  <2>3. \A off : SummaryBlock(i, off, n, a) => SummaryBlock(i, off, n, a)'
    BY DEF SummaryBlock
  <2> QED BY <2>1, <2>2, <2>3 DEF Reported
<1> QED BY <1>1 DEF EnvelopeInv

\* What was reported of a configuration stays, whatever is appended to it for
\* another one.
LEMMA StaysReported ==
    ASSUME TypeOK, NEW i \in 1..N, NEW j \in 1..N, i # j, Emit(i),
           Reported(j), stop' = stop
    PROVE  Reported(j)'
<1> DEFINE R == Rows(i)
           Z == Summaries(i)
<1>1. /\ results \in Seq(AllRows) /\ summary \in Seq(AllSummaries)
      /\ R \in Seq(AllRows) /\ Z \in Seq(AllSummaries)
  BY SessionRows, SessionSummaries DEF TypeOK, AllRows, AllSummaries
<1>2. results' = results \o R /\ summary' = summary \o Z
  BY DEF Emit
<1>3. /\ \A k \in 1..Len(R) : R[k].spec = i
      /\ \A k \in 1..Len(Z) : Z[k].spec = i
  BY SessionRows, SessionSummaries
<1> HIDE DEF R, Z
<1>4. /\ Len(results') = Len(results) + Len(R) /\ Len(results) \in Nat /\ Len(R) \in Nat
      /\ DOMAIN results' = 1..(Len(results) + Len(R)) /\ DOMAIN results = 1..Len(results)
      /\ \A k \in 1..Len(results) : results'[k] = results[k]
      /\ \A k \in 1..Len(R) : results'[Len(results) + k] = R[k]
  BY <1>1, <1>2, Appended
<1>5. /\ Len(summary') = Len(summary) + Len(Z) /\ Len(summary) \in Nat /\ Len(Z) \in Nat
      /\ DOMAIN summary' = 1..(Len(summary) + Len(Z)) /\ DOMAIN summary = 1..Len(summary)
      /\ \A k \in 1..Len(summary) : summary'[k] = summary[k]
      /\ \A k \in 1..Len(Z) : summary'[Len(summary) + k] = Z[k]
  BY <1>1, <1>2, Appended
<1>6. \A k \in DOMAIN results' : k \notin DOMAIN results => results'[k].spec = i
  <2> TAKE k \in DOMAIN results'
  <2> HAVE k \notin DOMAIN results
  <2>1. k - Len(results) \in 1..Len(R) /\ k = Len(results) + (k - Len(results))
    BY <1>4
  <2> QED BY <1>3, <1>4, <2>1
<1>7. \A k \in DOMAIN summary' : k \notin DOMAIN summary => summary'[k].spec = i
  <2> TAKE k \in DOMAIN summary'
  <2> HAVE k \notin DOMAIN summary
  <2>1. k - Len(summary) \in 1..Len(Z) /\ k = Len(summary) + (k - Len(summary))
    BY <1>5
  <2> QED BY <1>3, <1>5, <2>1
<1>8. PICK n \in 0..Trials, a \in Attempts :
          /\ \E off \in 0..Len(results) : RowBlock(j, off, n, a)
          /\ \E off \in 0..Len(summary) : SummaryBlock(j, off, n, a)
          /\ stop = "none" => n = Trials
  BY DEF Reported
<1>9. n \in Nat /\ n * Groups[j] \in Nat /\ Groups[j] \in Nat
  BY SpecFacts, NumbersAssumption
<1>10. ASSUME NEW off \in 0..Len(results), RowBlock(j, off, n, a)
       PROVE  RowBlock(j, off, n, a)'
  <2> DEFINE P == n * Groups[j]
  <2>1. /\ P \in Nat /\ off + P <= Len(results)
        /\ \A k \in DOMAIN results : results[k].spec = j <=> k \in (off + 1)..(off + P)
        /\ \A k \in 1..P : results[off + k] =
             [spec |-> j, metric |-> (k - 1) % Groups[j],
              trial |-> (k - 1) \div Groups[j], attempt |-> a]
    BY <1>9, <1>10 DEF RowBlock
  <2> HIDE DEF P
  <2>2. off + P <= Len(results')
    BY <1>4, <2>1
  <2>3. \A k \in DOMAIN results' : results'[k].spec = j <=> k \in (off + 1)..(off + P)
    <3> TAKE k \in DOMAIN results'
    <3>1. CASE k \in DOMAIN results
      BY <1>4, <2>1, <3>1
    <3>2. CASE k \notin DOMAIN results
      <4>1. results'[k].spec = i
        BY <1>6, <3>2
      <4>2. k \notin (off + 1)..(off + P)
        BY <1>4, <2>1, <3>2
      <4> QED BY <4>1, <4>2
    <3> QED BY <3>1, <3>2
  <2>4. \A k \in 1..P : results'[off + k] = results[off + k]
    BY <1>4, <2>1
  <2> QED BY <2>1, <2>2, <2>3, <2>4 DEF RowBlock, P
<1>11. ASSUME NEW off \in 0..Len(summary), SummaryBlock(j, off, n, a)
       PROVE  SummaryBlock(j, off, n, a)'
  <2> DEFINE P == IF n = 0 THEN 0 ELSE Groups[j]
  <2>1. /\ P \in Nat /\ off + P <= Len(summary)
        /\ \A k \in DOMAIN summary : summary[k].spec = j <=> k \in (off + 1)..(off + P)
        /\ \A m \in 1..P : summary[off + m] =
             [spec |-> j, metric |-> m - 1, n |-> n, attempts |-> a]
    BY <1>9, <1>11 DEF SummaryBlock
  <2> HIDE DEF P
  <2>2. off + P <= Len(summary')
    BY <1>5, <2>1
  <2>3. \A k \in DOMAIN summary' : summary'[k].spec = j <=> k \in (off + 1)..(off + P)
    <3> TAKE k \in DOMAIN summary'
    <3>1. CASE k \in DOMAIN summary
      BY <1>5, <2>1, <3>1
    <3>2. CASE k \notin DOMAIN summary
      <4>1. summary'[k].spec = i
        BY <1>7, <3>2
      <4>2. k \notin (off + 1)..(off + P)
        BY <1>5, <2>1, <3>2
      <4> QED BY <4>1, <4>2
    <3> QED BY <3>1, <3>2
  <2>4. \A m \in 1..P : summary'[off + m] = summary[off + m]
    BY <1>5, <2>1
  <2> QED BY <2>1, <2>2, <2>3, <2>4 DEF SummaryBlock, P
<1>12. 0..Len(results) \subseteq 0..Len(results') /\ 0..Len(summary) \subseteq 0..Len(summary')
  BY <1>4, <1>5
<1>13. /\ \E off \in 0..Len(results') : RowBlock(j, off, n, a)'
       /\ \E off \in 0..Len(summary') : SummaryBlock(j, off, n, a)'
  BY <1>8, <1>10, <1>11, <1>12
<1> QED BY <1>8, <1>13 DEF Reported

\* A configuration that is emitted, after the ones before it, is reported.
LEMMA EmitStep ==
    ASSUME TypeOK, EnvelopeInv, NEW i \in 1..N, Emit(i),
           Emitted = i - 1, Emitted' = i, stop' = stop,
           stop = "none" => sess[i].timed = Trials
    PROVE  /\ EnvelopeInv'
           /\ results' \in Seq(AllRows) /\ summary' \in Seq(AllSummaries)
<1> DEFINE R == Rows(i)
           Z == Summaries(i)
           n == sess[i].timed
           P == n * Groups[i]
           Q == IF n = 0 THEN 0 ELSE Groups[i]
<1>1. /\ results \in Seq(AllRows) /\ summary \in Seq(AllSummaries)
      /\ R \in Seq(AllRows) /\ Z \in Seq(AllSummaries)
  BY SessionRows, SessionSummaries DEF TypeOK, AllRows, AllSummaries
<1>2. results' = results \o R /\ summary' = summary \o Z
  BY DEF Emit
<1>3. /\ Len(R) = P /\ Len(Z) = Q /\ P \in Nat /\ n \in 0..Trials
      /\ \A k \in 1..P : R[k] = [spec |-> i, metric |-> (k - 1) % Groups[i],
                                 trial |-> (k - 1) \div Groups[i], attempt |-> attempt]
      /\ \A m \in 1..Q : Z[m] = [spec |-> i, metric |-> m - 1, n |-> n, attempts |-> attempt]
  BY SessionRows, SessionSummaries
<1>4. \A k \in 1..(Len(R) - 1) : Before(R[k], R[k + 1])
  BY RowsInOrder
<1> HIDE DEF R, Z, n, P, Q
<1>5. /\ results' \in Seq(AllRows)
      /\ Len(results') = Len(results) + P /\ Len(results) \in Nat
      /\ DOMAIN results' = 1..(Len(results) + P) /\ DOMAIN results = 1..Len(results)
      /\ \A k \in 1..Len(results) : results'[k] = results[k]
      /\ \A k \in 1..P : results'[Len(results) + k] = R[k]
  <2>1. PICK r \in Seq(AllRows) : r = results
    BY <1>1
  <2>2. /\ r \o R \in Seq(AllRows) /\ Len(r \o R) = Len(r) + Len(R) /\ Len(r) \in Nat
        /\ DOMAIN (r \o R) = 1..(Len(r) + Len(R)) /\ DOMAIN r = 1..Len(r)
        /\ \A k \in 1..Len(r) : (r \o R)[k] = r[k]
        /\ \A k \in 1..Len(R) : (r \o R)[Len(r) + k] = R[k]
    BY <1>1, Appended
  <2>3. results' = r \o R /\ Len(R) = P
    BY <1>2, <1>3, <2>1
  <2> QED BY <2>1, <2>2, <2>3, Zenon
<1>6. /\ summary' \in Seq(AllSummaries) /\ Q \in Nat
      /\ Len(summary') = Len(summary) + Q /\ Len(summary) \in Nat
      /\ DOMAIN summary' = 1..(Len(summary) + Q) /\ DOMAIN summary = 1..Len(summary)
      /\ \A k \in 1..Len(summary) : summary'[k] = summary[k]
      /\ \A k \in 1..Q : summary'[Len(summary) + k] = Z[k]
  <2>1. PICK r \in Seq(AllSummaries) : r = summary
    BY <1>1
  <2>2. /\ r \o Z \in Seq(AllSummaries) /\ Len(r \o Z) = Len(r) + Len(Z)
        /\ Len(r) \in Nat /\ Len(Z) \in Nat
        /\ DOMAIN (r \o Z) = 1..(Len(r) + Len(Z)) /\ DOMAIN r = 1..Len(r)
        /\ \A k \in 1..Len(r) : (r \o Z)[k] = r[k]
        /\ \A k \in 1..Len(Z) : (r \o Z)[Len(r) + k] = Z[k]
    BY <1>1, Appended
  <2>3. summary' = r \o Z /\ Len(Z) = Q
    BY <1>2, <1>3, <2>1
  <2> QED BY <2>1, <2>2, <2>3, Zenon
<1>7. /\ \A k \in DOMAIN results : results[k].spec \in 1..(i - 1)
      /\ \A k \in DOMAIN summary : summary[k].spec \in 1..(i - 1)
  BY DEF EnvelopeInv
<1>8. /\ \A k \in 1..P : R[k].spec = i
      /\ \A k \in 1..Q : Z[k].spec = i
  BY <1>3, SessionRows, SessionSummaries DEF R, Z
<1>9. \A k \in DOMAIN results' :
        \/ k \in DOMAIN results /\ results'[k].spec \in 1..(i - 1)
        \/ k \in (Len(results) + 1)..(Len(results) + P) /\ results'[k].spec = i
  <2> TAKE k \in DOMAIN results'
  <2>1. CASE k \in 1..Len(results)
    BY <1>5, <1>7, <2>1
  <2>2. CASE k \notin 1..Len(results)
    <3>1. k - Len(results) \in 1..P /\ k = Len(results) + (k - Len(results))
      BY <1>3, <1>5, <2>2
    <3>2. results'[Len(results) + (k - Len(results))].spec = i
      BY <1>5, <1>8, <3>1
    <3> QED BY <1>3, <1>5, <2>2, <3>1, <3>2
  <2> QED BY <2>1, <2>2
<1>10. \A k \in DOMAIN summary' :
        \/ k \in DOMAIN summary /\ summary'[k].spec \in 1..(i - 1)
        \/ k \in (Len(summary) + 1)..(Len(summary) + Q) /\ summary'[k].spec = i
  <2> TAKE k \in DOMAIN summary'
  <2>1. CASE k \in 1..Len(summary)
    BY <1>6, <1>7, <2>1
  <2>2. CASE k \notin 1..Len(summary)
    <3>1. k - Len(summary) \in 1..Q /\ k = Len(summary) + (k - Len(summary))
      BY <1>6, <2>2
    <3>2. summary'[Len(summary) + (k - Len(summary))].spec = i
      BY <1>6, <1>8, <3>1
    <3> QED BY <1>6, <2>2, <3>1, <3>2
  <2> QED BY <2>1, <2>2
<1>11. /\ \A k \in DOMAIN results' : results'[k].spec \in 1..i
       /\ \A k \in DOMAIN summary' : summary'[k].spec \in 1..i
  BY <1>9, <1>10, SpecFacts
<1>12. \A k \in 1..(Len(results') - 1) : Before(results'[k], results'[k + 1])
  <2> TAKE k \in 1..(Len(results') - 1)
  <2>1. CASE k < Len(results)
    <3>1. k \in 1..(Len(results) - 1) /\ k \in 1..Len(results) /\ k + 1 \in 1..Len(results)
      BY <1>3, <1>5, <2>1
    <3>2. Before(results[k], results[k + 1])
      BY <3>1 DEF EnvelopeInv
    <3> QED BY <1>5, <3>1, <3>2
  <2>2. CASE k = Len(results)
    <3>1. k \in DOMAIN results' /\ k + 1 \in DOMAIN results' /\ k \in DOMAIN results
          /\ k + 1 \notin DOMAIN results
      BY <1>3, <1>5, <2>2
    <3>2. k \notin (Len(results) + 1)..(Len(results) + P)
      BY <1>5, <2>2
    <3>3. results'[k].spec \in 1..(i - 1) /\ results'[k + 1].spec = i
      BY <1>9, <3>1, <3>2
    <3> QED BY <3>3, SpecFacts DEF Before
  <2>3. CASE k > Len(results)
    <3> DEFINE q == k - Len(results)
    <3>1. /\ q \in 1..(Len(R) - 1) /\ q \in 1..P /\ q + 1 \in 1..P
          /\ k = Len(results) + q /\ k + 1 = Len(results) + (q + 1)
      BY <1>3, <1>5, <2>3
    <3>2. results'[k] = R[q] /\ results'[k + 1] = R[q + 1]
      BY <1>5, <3>1
    <3> QED BY <1>4, <3>1, <3>2
  <2>4. k \in Nat /\ Len(results) \in Nat
    BY <1>3, <1>5
  <2> QED BY <2>1, <2>2, <2>3, <2>4
<1>13. Reported(i)'
  <2> PICK off, soff, c, a :
        off = Len(results) /\ soff = Len(summary) /\ c = n /\ a = attempt
    OBVIOUS
  <2>1. RowBlock(i, off, c, a)'
    <3>1. \A k \in DOMAIN results' :
            results'[k].spec = i <=> k \in (Len(results) + 1)..(Len(results) + P)
      BY <1>3, <1>5, <1>9, SpecFacts
    <3>2. \A k \in 1..P : results'[Len(results) + k] =
            [spec |-> i, metric |-> (k - 1) % Groups[i],
             trial |-> (k - 1) \div Groups[i], attempt |-> attempt]
      BY <1>3, <1>5
    <3>3. P = c * Groups[i]
      BY DEF P
    <3> QED BY <1>5, <3>1, <3>2, <3>3 DEF RowBlock
  <2>2. SummaryBlock(i, soff, c, a)'
    <3>1. \A k \in DOMAIN summary' :
            summary'[k].spec = i <=> k \in (Len(summary) + 1)..(Len(summary) + Q)
      BY <1>6, <1>10, SpecFacts
    <3>2. \A m \in 1..Q : summary'[Len(summary) + m] =
            [spec |-> i, metric |-> m - 1, n |-> n, attempts |-> attempt]
      BY <1>3, <1>6
    <3>3. Q = IF c = 0 THEN 0 ELSE Groups[i]
      BY DEF Q
    <3> QED BY <1>6, <3>1, <3>2, <3>3 DEF SummaryBlock
  <2>3. off \in 0..Len(results') /\ soff \in 0..Len(summary')
    BY <1>3, <1>5, <1>6
  <2>4. c \in 0..Trials /\ a \in Attempts
    BY <1>3 DEF TypeOK
  <2>5. stop' = "none" => c = Trials
    BY DEF n
  <2> QED BY <2>1, <2>2, <2>3, <2>4, <2>5 DEF Reported
<1>14. ASSUME NEW j \in 1..i PROVE Reported(j)'
  <2>1. CASE j = i
    BY <1>13, <2>1
  <2>2. CASE j # i
    <3>1. j \in 1..N /\ j \in 1..Emitted
      BY <2>2, SpecFacts
    <3>2. Reported(j)
      BY <3>1 DEF EnvelopeInv
    <3> QED BY <2>2, <3>1, <3>2, StaysReported
  <2> QED BY <2>1, <2>2
<1> QED BY <1>5, <1>6, <1>11, <1>12, <1>14 DEF EnvelopeInv

-----------------------------------------------------------------------------
(* Every step keeps the invariant. *)

\* The run begins with nothing reported, nothing written and no reason to stop.
LEMMA InitIInv == Init => IInv
<1> SUFFICES ASSUME Init PROVE IInv
  OBVIOUS
<1>1. N \in Nat \ {0} /\ CanaryRetries \in Nat /\ Trials \in Nat
      /\ WarmupTrials \in Nat
  BY SpecFacts, NumbersAssumption
<1>2. interleave \in BOOLEAN /\ deadline \in Nat /\ budget \in Nat
  BY NumbersAssumption DEF Init, RunConfig
<1>3. sess \in [1..N -> [warm : 0..WarmupTrials, timed : 0..Trials]]
  BY <1>1 DEF Init, Fresh
<1>4. TypeOK
  <2>1. pc \in IF interleave THEN Interleaved ELSE Sequential
    BY DEF Init, Interleaved, Sequential
  <2>2. si \in 1..(N + 1) /\ (pc # "visit" => si <= N)
    BY <1>1 DEF Init
  <2>3. attempt \in Attempts /\ attempt <= CanaryRetries
    BY <1>1 DEF Init, Attempts
  <2>4. /\ results \in Seq([spec : 1..N, metric : Nat, trial : Nat, attempt : Nat])
        /\ summary \in Seq([spec : 1..N, metric : Nat, n : Nat, attempts : Nat])
    BY DEF Init
  <2> QED BY <1>2, <1>3, <2>1, <2>2, <2>3, <2>4 DEF Init, TypeOK, Verdicts, Reasons
<1>5. BudgetOvershootBounded
  <2>1. PICK b \in Writes : b \in Nat
    BY NumbersAssumption
  <2> QED BY <1>2, <2>1 DEF Init, BudgetOvershootBounded
<1>6. TrialInv /\ StopInv
  BY <1>5 DEF Init, TrialInv, StopInv
<1>7. EnvelopeInv
  <2>1. Emitted = 0 /\ DOMAIN results = {} /\ DOMAIN summary = {} /\ Len(results) = 0
    BY DEF Init, Emitted
  <2> QED BY <2>1 DEF EnvelopeInv
<1> QED BY <1>4, <1>6, <1>7 DEF IInv

\* The environment's steps: the flag may be raised and time may pass at any
\* moment, also between the decision to run a trial and the trial.
LEMMA EnvironmentStep ==
    ASSUME IInv, Interrupt \/ Tick \/ UNCHANGED vars
    PROVE  IInv'
<1>1. /\ UNCHANGED <<config, pc, si, attempt, canaryStart, room, any, sess, stop,
                     written, envelope, ghosts>>
      /\ abort' \in BOOLEAN /\ (abort => abort') /\ now' \in Nat
  <2>1. CASE Interrupt
    BY <2>1 DEF IInv, TypeOK, Interrupt
  <2>2. CASE Tick
    BY <2>2 DEF IInv, TypeOK, Tick
  <2>3. CASE UNCHANGED vars
    BY <2>3 DEF IInv, TypeOK, vars, world
  <2> QED BY <2>1, <2>2, <2>3
<1> USE DEF config, envelope, ghosts
<1>2. TypeOK'
  BY <1>1 DEF IInv, TypeOK
<1>3. TrialInv' /\ StopInv'
  BY <1>1 DEF IInv, TrialInv, StopInv, WantsMoreTrials, BudgetOvershootBounded
<1>4. EnvelopeInv'
  <2>1. Emitted' = Emitted
    BY <1>1 DEF Emitted
  <2> QED BY <1>1, <2>1, EnvelopeFrame DEF IInv
<1> QED BY <1>2, <1>3, <1>4 DEF IInv

\* The canary before an attempt, and the wait for a quieter host.
LEMMA CanaryStep ==
    ASSUME IInv, CanaryStart \/ WaitForQuiet \/ StartThrows
    PROVE  IInv'
<1>1. /\ UNCHANGED <<config, si, any, sess, stop, abort, written, envelope, ghosts>>
      /\ stop = "none"
  BY DEF IInv, StopInv, CanaryStart, WaitForQuiet, StartThrows, world
<1> USE DEF config, envelope, ghosts
<1>2. CanaryRetries \in Nat
  BY NumbersAssumption
<1>3. TypeOK'
  <2>1. CASE CanaryStart
    BY <1>1, <1>2, <2>1 DEF IInv, TypeOK, CanaryStart, RoomToRetry, Sequential, Interleaved,
       Attempts, world
  <2>2. CASE WaitForQuiet
    BY <1>1, <1>2, <2>2 DEF IInv, TypeOK, WaitForQuiet, Sequential, Interleaved,
       Attempts, MayRetry, LastAttempt, Backoff
  <2>3. CASE StartThrows
    BY <1>1, <1>2, <2>3 DEF IInv, TypeOK, StartThrows, Sequential, Interleaved, world
  <2> QED BY <2>1, <2>2, <2>3
<1>4. pc' \in {"begin", "canaryStart", "threw"}
  BY DEF CanaryStart, WaitForQuiet, StartThrows
<1>5. TrialInv' /\ StopInv'
  BY <1>1, <1>4 DEF IInv, TrialInv, StopInv, BudgetOvershootBounded
<1>6. EnvelopeInv'
  <2>1. Emitted' = Emitted
    BY <1>1, <1>4 DEF IInv, TypeOK, Emitted, CanaryStart, WaitForQuiet, StartThrows,
       Sequential, Interleaved
  <2> QED BY <1>1, <2>1, EnvelopeFrame DEF IInv
<1> QED BY <1>3, <1>5, <1>6 DEF IInv

\* An attempt begins with a session of its own.
LEMMA StartSessionStep ==
    ASSUME IInv, StartSession
    PROVE  IInv'
<1> USE DEF StartSession, config, world, envelope, ghosts
<1>1. sess' \in [1..N -> [warm : 0..WarmupTrials, timed : 0..Trials]]
  BY NumbersAssumption DEF IInv, TypeOK, Fresh
<1>2. TypeOK'
  BY <1>1 DEF IInv, TypeOK, Sequential, Interleaved
<1>3. ~interleave
  BY DEF IInv, TypeOK, Interleaved
<1>4. TrialInv' /\ StopInv'
  BY <1>3 DEF IInv, TrialInv, StopInv, BudgetOvershootBounded
<1>5. EnvelopeInv'
  <2>1. Emitted' = Emitted
    BY <1>3 DEF Emitted
  <2> QED BY <2>1, EnvelopeFrame DEF IInv
<1> QED BY <1>2, <1>4, <1>5 DEF IInv

\* should_stop() says no only if the flag is down and the budget not spent.
LEMMA GoAhead ==
    ASSUME TypeOK
    PROVE  /\ ShouldStop \in Reasons
           /\ ShouldStop = "none" => ~abort /\ (budget > 0 => written < budget)
<1>1. ShouldStop \in Reasons
  BY DEF ShouldStop, Reasons
<1>2. ASSUME ShouldStop = "none" PROVE ~abort /\ (budget > 0 => written < budget)
  BY <1>2 DEF ShouldStop, TypeOK
<1> QED BY <1>1, <1>2

\* The loop condition of a sequential attempt.
LEMMA CheckLoopStep ==
    ASSUME IInv, CheckLoop
    PROVE  IInv'
<1> USE DEF CheckLoop, config, world, envelope, ghosts
<1>1. ~interleave /\ stop = "none" /\ TypeOK /\ TrialInv
  BY DEF IInv, TypeOK, StopInv, Interleaved
<1>2. stop' \in Reasons /\ pc' \in {"trial", "judge"}
  BY <1>1, GoAhead DEF Reasons
<1>3. TypeOK'
  BY <1>1, <1>2 DEF TypeOK, Sequential
<1>4. WantsMoreTrials(si)' <=> WantsMoreTrials(si)
  BY DEF WantsMoreTrials
<1>5. pc' = "trial" => WantsMoreTrials(si) /\ ShouldStop = "none"
  OBVIOUS
<1>6. TrialInv'
  BY <1>1, <1>4, <1>5, GoAhead DEF TrialInv, BudgetOvershootBounded
<1>7. StopInv'
  BY <1>1, <1>2, <1>4 DEF StopInv
<1>8. EnvelopeInv'
  <2>1. Emitted' = Emitted
    BY <1>1, <1>2 DEF Emitted
  <2> QED BY <1>1, <2>1, EnvelopeFrame DEF IInv
<1> QED BY <1>3, <1>6, <1>7, <1>8 DEF IInv

\* A trial adds one to a counter that had not reached its end, and it is the
\* only one since the flag was raised or the budget was spent.
LEMMA TrialEffect ==
    ASSUME IInv, pc = "trial", RunTrial(si), budget' = budget, abort' = abort
    PROVE  /\ sess' \in [1..N -> [warm : 0..WarmupTrials, timed : 0..Trials]]
           /\ \A i \in (1..N) \ {si} : sess'[i] = sess[i]
           /\ written' \in Nat /\ sinceAbort' \in 0..1
           /\ (~abort => sinceAbort' = 0)
           /\ BudgetOvershootBounded'
<1>1. TypeOK /\ si \in 1..N /\ WantsMoreTrials(si) /\ sinceAbort = 0
      /\ (budget > 0 => written < budget)
  BY DEF IInv, TypeOK, TrialInv
<1>2. /\ sess[si].warm \in 0..WarmupTrials /\ sess[si].timed \in 0..Trials
      /\ sess \in [1..N -> [warm : 0..WarmupTrials, timed : 0..Trials]]
      /\ WarmupTrials \in Nat /\ Trials \in Nat
  BY <1>1, SessionCounts, NumbersAssumption DEF TypeOK
<1>3. /\ sess' \in [1..N -> [warm : 0..WarmupTrials, timed : 0..Trials]]
      /\ \A i \in (1..N) \ {si} : sess'[i] = sess[i]
  <2>1. CASE sess[si].warm < WarmupTrials
    <3>1. sess' = [sess EXCEPT ![si].warm = @ + 1] /\ sess[si].warm + 1 \in 0..WarmupTrials
      BY <1>2, <2>1 DEF RunTrial
    <3> QED BY <1>1, <1>2, <3>1
  <2>2. CASE ~(sess[si].warm < WarmupTrials)
    <3>1. sess' = [sess EXCEPT ![si].timed = @ + 1] /\ sess[si].timed + 1 \in 0..Trials
      BY <1>1, <1>2, <2>2 DEF RunTrial, WantsMoreTrials
    <3> QED BY <1>1, <1>2, <3>1
  <2> QED BY <2>1, <2>2
<1>4. PICK b \in Writes : written' = written + b
  BY DEF RunTrial
<1>5. b \in Nat /\ written \in Nat /\ budget \in Nat
  BY <1>1, NumbersAssumption DEF TypeOK
<1>6. written' \in Nat /\ BudgetOvershootBounded'
  BY <1>1, <1>4, <1>5 DEF BudgetOvershootBounded
<1>7. sinceAbort' \in 0..1 /\ (~abort => sinceAbort' = 0)
  BY <1>1 DEF RunTrial
<1> QED BY <1>3, <1>6, <1>7

\* One trial, in either mode.
LEMMA TrialStep ==
    ASSUME IInv, SequentialTrial \/ InterleavedTrial
    PROVE  IInv'
<1>1. /\ pc = "trial" /\ RunTrial(si) /\ TypeOK /\ si \in 1..N /\ stop = "none"
      /\ UNCHANGED <<config, attempt, canaryStart, room, stop, abort, now, envelope>>
  BY DEF IInv, TypeOK, StopInv, SequentialTrial, InterleavedTrial
<1> USE DEF config, envelope
<1>2. /\ sess' \in [1..N -> [warm : 0..WarmupTrials, timed : 0..Trials]]
      /\ \A i \in (1..N) \ {si} : sess'[i] = sess[i]
      /\ written' \in Nat /\ sinceAbort' \in 0..1
      /\ (~abort => sinceAbort' = 0)
      /\ BudgetOvershootBounded'
  BY <1>1, TrialEffect
<1>3. \/ ~interleave /\ pc' = "loop" /\ si' = si /\ any' = any
      \/ interleave /\ pc' = "visit" /\ si' = si + 1 /\ any' = TRUE
  BY DEF SequentialTrial, InterleavedTrial
<1>4. TypeOK'
  <2>1. pc' \in (IF interleave THEN Interleaved ELSE Sequential) /\ pc' # "canaryStart"
    BY <1>3 DEF Sequential, Interleaved
  <2>2. si' \in 1..(N + 1) /\ (pc' # "visit" => si' <= N)
    BY <1>1, <1>3, SpecFacts
  <2>3. any' \in BOOLEAN
    BY <1>1, <1>3 DEF TypeOK
  <2>4. sinceAbort' \in Nat
    BY <1>2
  <2> QED BY <1>1, <1>2, <2>1, <2>2, <2>3, <2>4 DEF TypeOK
<1>5. TrialInv'
  BY <1>1, <1>2, <1>3 DEF TrialInv
<1>6. StopInv'
  BY <1>1, <1>3 DEF StopInv
<1>7. EnvelopeInv'
  <2>1. Emitted' = Emitted
    BY <1>1, <1>3 DEF Emitted
  <2> QED BY <1>1, <2>1, EnvelopeFrame DEF IInv
<1> QED BY <1>4, <1>5, <1>6, <1>7 DEF IInv

\* A discarded attempt leaves nothing behind.
LEMMA DiscardStep ==
    ASSUME IInv, Discard
    PROVE  IInv'
<1> USE DEF Discard, config, envelope
<1>1. ~interleave /\ stop = "none" /\ TypeOK /\ attempt <= CanaryRetries
  <2>1. attempt \in Int /\ CanaryRetries \in Int
    BY NumbersAssumption DEF IInv, TypeOK, Attempts
  <2> QED BY <2>1 DEF IInv, TypeOK, Interleaved, MayRetry, LastAttempt
<1>2. TypeOK'
  <2>1. pc' \in Sequential /\ now' \in Nat /\ sinceAbort' = sinceAbort
    BY <1>1 DEF TypeOK, Sequential, Backoff
  <2> QED BY <1>1, <2>1 DEF TypeOK
<1>3. TrialInv' /\ StopInv'
  BY <1>1 DEF IInv, TrialInv, StopInv, BudgetOvershootBounded
<1>4. EnvelopeInv'
  <2>1. Emitted' = Emitted
    BY <1>1 DEF Emitted
  <2> QED BY <1>1, <2>1, EnvelopeFrame DEF IInv
<1> QED BY <1>2, <1>3, <1>4 DEF IInv

\* A session that wants no more trials has them all.
LEMMA AllTrialsDone ==
    ASSUME TypeOK, NEW i \in 1..N, ~WantsMoreTrials(i)
    PROVE  sess[i].timed = Trials
BY SessionCounts DEF WantsMoreTrials

\* A kept attempt of a sequential run.
LEMMA EmitAndGoOnStep ==
    ASSUME IInv, EmitAndGoOn
    PROVE  IInv'
<1> USE DEF EmitAndGoOn, config, world, ghosts
<1>1. /\ ~interleave /\ TypeOK /\ si \in 1..N /\ pc = "judge" /\ EnvelopeInv
      /\ N \in Nat \ {0} /\ CanaryRetries \in Nat
  BY SpecFacts, NumbersAssumption DEF IInv, TypeOK, Interleaved
<1>2. stop = "none" => sess[si].timed = Trials
  BY <1>1, AllTrialsDone DEF IInv, StopInv
<1>3. \/ pc' = "done" /\ si' = si
      \/ pc' = "canaryStart" /\ si' = si + 1 /\ si # N /\ stop = "none"
  OBVIOUS
<1>4. Emitted = si - 1 /\ Emitted' = si
  BY <1>1, <1>3 DEF Emitted
<1>5. PICK k \in 1..N : k = si
  BY <1>1
<1>6. /\ EnvelopeInv'
      /\ results' \in Seq(AllRows) /\ summary' \in Seq(AllSummaries)
  BY <1>1, <1>2, <1>4, <1>5, EmitStep
<1>7. TypeOK'
  <2>1. pc' \in Sequential /\ si' \in 1..(N + 1) /\ si' <= N
    BY <1>1, <1>3 DEF Sequential
  <2>2. attempt' \in Attempts /\ attempt' <= CanaryRetries
    BY <1>1 DEF Attempts
  <2> QED BY <1>1, <1>6, <2>1, <2>2 DEF TypeOK, AllRows, AllSummaries
<1>8. TrialInv' /\ StopInv'
  BY <1>1, <1>3 DEF IInv, TrialInv, StopInv, BudgetOvershootBounded
<1> QED BY <1>6, <1>7, <1>8 DEF IInv

\* The sessions of an interleaved run are all started before the first trial.
LEMMA CreateStep ==
    ASSUME IInv, CreateSession
    PROVE  IInv'
<1> USE DEF CreateSession, config, world, envelope, ghosts
<1>1. /\ interleave /\ TypeOK /\ si \in 1..N /\ stop = "none"
      /\ N \in Nat \ {0} /\ CanaryRetries \in Nat
  BY SpecFacts, NumbersAssumption DEF IInv, TypeOK, Sequential, StopInv
<1>2. \/ pc' = "visit" /\ si' = 1
      \/ pc' = "create" /\ si' = si + 1 /\ si # N
  OBVIOUS
<1>3. TypeOK'
  BY <1>1, <1>2 DEF TypeOK, Interleaved, Attempts
<1>4. TrialInv' /\ StopInv'
  BY <1>1, <1>2 DEF IInv, TrialInv, StopInv, BudgetOvershootBounded
<1>5. EnvelopeInv'
  <2>1. Emitted' = Emitted
    BY <1>1, <1>2 DEF Emitted
  <2> QED BY <1>1, <2>1, EnvelopeFrame DEF IInv
<1> QED BY <1>3, <1>4, <1>5 DEF IInv

\* The decision about one session of a round.
LEMMA VisitStep ==
    ASSUME IInv, Visit
    PROVE  IInv'
<1> USE DEF Visit, config, world, envelope, ghosts
<1>1. /\ interleave /\ TypeOK /\ TrialInv /\ StopInv /\ si \in 1..N /\ stop = "none"
      /\ N \in Nat \ {0} /\ pc = "visit"
  BY SpecFacts DEF IInv, TypeOK, Sequential, StopInv
<1>2. \/ stop' # "none" /\ pc' = "emit" /\ si' = 1
      \/ stop' = "none" /\ WantsMoreTrials(si) /\ pc' = "trial" /\ si' = si
      \/ stop' = "none" /\ ~WantsMoreTrials(si) /\ pc' = "visit" /\ si' = si + 1
  OBVIOUS
<1>3. /\ stop' \in Reasons
      /\ stop' = "none" => ~abort /\ (budget > 0 => written < budget)
  BY <1>1, GoAhead
<1>4. TypeOK'
  <2>1. pc' \in Interleaved /\ si' \in 1..(N + 1) /\ (pc' # "visit" => si' <= N)
    BY <1>1, <1>2 DEF Interleaved
  <2>2. pc' # "canaryStart"
    BY <1>2
  <2> QED BY <1>1, <1>3, <2>1, <2>2 DEF TypeOK
<1>5. \A i : WantsMoreTrials(i)' <=> WantsMoreTrials(i)
  BY DEF WantsMoreTrials
<1>6. TrialInv'
  <2>1. WantsMoreTrials(si') => WantsMoreTrials(si)'
    BY DEF WantsMoreTrials
  <2> QED BY <1>1, <1>2, <1>3, <2>1 DEF TrialInv, BudgetOvershootBounded
<1>7. StopInv'
  <2>1. (pc' \in {"visit", "trial"} /\ ~any) => \A i \in 1..(si' - 1) : ~WantsMoreTrials(i)
    BY <1>1, <1>2 DEF StopInv
  <2> QED BY <1>1, <1>2, <1>5, <2>1 DEF StopInv
<1>8. EnvelopeInv'
  <2>1. Emitted' = Emitted
    BY <1>1, <1>2 DEF Emitted
  <2> QED BY <1>1, <2>1, EnvelopeFrame DEF IInv
<1> QED BY <1>4, <1>6, <1>7, <1>8 DEF IInv

\* A round in which nobody ran found that nobody wanted to.
LEMMA EndRoundStep ==
    ASSUME IInv, EndRound
    PROVE  IInv'
<1> USE DEF EndRound, config, world, envelope, ghosts
<1>1. /\ interleave /\ TypeOK /\ StopInv /\ si = N + 1 /\ stop = "none"
      /\ N \in Nat \ {0} /\ pc = "visit" /\ any \in BOOLEAN
  BY SpecFacts DEF IInv, TypeOK, Sequential, StopInv
<1>2. \/ any /\ pc' = "visit"
      \/ ~any /\ pc' = "emit"
  BY <1>1
<1>3. TypeOK'
  <2>1. pc' \in Interleaved /\ pc' # "canaryStart"
    BY <1>2 DEF Interleaved
  <2>2. si' \in 1..(N + 1) /\ si' <= N
    BY <1>1
  <2>3. any' = FALSE
    OBVIOUS
  <2> QED BY <1>1, <2>1, <2>2, <2>3 DEF TypeOK
<1>4. TrialInv'
  BY <1>2 DEF IInv, TrialInv, BudgetOvershootBounded
<1>5. \A i : WantsMoreTrials(i)' <=> WantsMoreTrials(i)
  BY DEF WantsMoreTrials
<1>6. StopInv'
  <2>1. ~any => \A i \in 1..N : ~WantsMoreTrials(i)
    BY <1>1 DEF StopInv
  <2> QED BY <1>1, <1>2, <1>5, <2>1 DEF StopInv
<1>7. EnvelopeInv'
  <2>1. Emitted' = Emitted
    BY <1>1, <1>2 DEF Emitted
  <2> QED BY <1>1, <2>1, EnvelopeFrame DEF IInv
<1> QED BY <1>3, <1>4, <1>6, <1>7 DEF IInv

\* The sessions of an interleaved run are emitted one after the other.
LEMMA EmitNextStep ==
    ASSUME IInv, EmitNext
    PROVE  IInv'
<1> USE DEF EmitNext, config, world, ghosts
<1>1. /\ interleave /\ TypeOK /\ StopInv /\ EnvelopeInv /\ si \in 1..N
      /\ N \in Nat \ {0} /\ pc = "emit"
  BY SpecFacts DEF IInv, TypeOK, Sequential
<1>2. stop = "none" => sess[si].timed = Trials
  BY <1>1, AllTrialsDone DEF StopInv
<1>3. \/ pc' = "done" /\ si' = si
      \/ pc' = "emit" /\ si' = si + 1 /\ si # N
  BY <1>1
<1>4. Emitted = si - 1 /\ Emitted' = si
  BY <1>1, <1>3 DEF Emitted
<1>5. PICK k \in 1..N : k = si
  BY <1>1
<1>6. /\ EnvelopeInv'
      /\ results' \in Seq(AllRows) /\ summary' \in Seq(AllSummaries)
  BY <1>1, <1>2, <1>4, <1>5, EmitStep
<1>7. TypeOK'
  <2>1. pc' \in Interleaved /\ si' \in 1..(N + 1) /\ si' <= N
    BY <1>1, <1>3 DEF Interleaved
  <2>2. pc' # "canaryStart"
    BY <1>3
  <2> QED BY <1>1, <1>6, <2>1, <2>2 DEF TypeOK, AllRows, AllSummaries
<1>8. TrialInv' /\ StopInv'
  BY <1>1, <1>3 DEF IInv, TrialInv, StopInv, BudgetOvershootBounded, WantsMoreTrials
<1> QED BY <1>6, <1>7, <1>8 DEF IInv

\* Every step keeps the invariant.
LEMMA NextIInv ==
    ASSUME IInv, [Next]_vars
    PROVE  IInv'
BY EnvironmentStep, CanaryStep, StartSessionStep, CheckLoopStep, TrialStep,
   DiscardStep, EmitAndGoOnStep, CreateStep, VisitStep, EndRoundStep, EmitNextStep
   DEF Next, Step, Finished

-----------------------------------------------------------------------------

\* The invariant holds in every reachable state.
THEOREM Invariance == Spec => []IInv
<1>1. Init => IInv
  BY InitIInv
<1>2. IInv /\ [Next]_vars => IInv'
  BY NextIInv
<1> QED BY <1>1, <1>2, PTL DEF Spec

\* Ctrl-C and a spent write budget take effect at the next trial boundary: the
\* flag raised between should_stop() and run_one_trial() costs one trial, and
\* the budget is exceeded by less than one trial's writes, in both modes and
\* over all configurations and attempts.
THEOREM StopsPromptly == Spec => []StopsInTime
<1>1. IInv => StopsInTime
  BY DEF IInv, TrialInv, StopsInTime, AbortIsPrompt
<1> QED BY <1>1, Invariance, PTL

\* A configuration that has rows has been emitted.
LEMMA RowsAreReported ==
    ASSUME IInv, NEW k \in DOMAIN results
    PROVE  results[k].spec \in 1..N /\ Reported(results[k].spec)
<1>1. results[k].spec \in 1..N
  <2>1. results \in Seq(AllRows)
    BY DEF IInv, TypeOK, AllRows
  <2>2. results[k] \in AllRows
    BY <2>1
  <2> QED BY <2>2 DEF AllRows
<1>2. results[k].spec \in 1..Emitted
  BY DEF IInv, EnvelopeInv
<1> QED BY <1>1, <1>2 DEF IInv, EnvelopeInv

\* The block of a reported configuration, in terms of trials and metrics.
LEMMA BlockFacts ==
    ASSUME IInv, NEW i \in 1..N, NEW off \in 0..Len(results), NEW n \in 0..Trials,
           NEW a, RowBlock(i, off, n, a)
    PROVE  /\ off \in Nat /\ n \in Nat /\ Groups[i] \in Nat \ {0}
           /\ \A t \in 0..(n - 1), m \in 0..(Groups[i] - 1) :
                LET k == off + (t * Groups[i] + m + 1)
                IN  k \in DOMAIN results /\ results[k] =
                      [spec |-> i, metric |-> m, trial |-> t, attempt |-> a]
           /\ \A k \in DOMAIN results : results[k].spec = i =>
                \E t \in 0..(n - 1), m \in 0..(Groups[i] - 1) :
                    k = off + (t * Groups[i] + m + 1)
<1> DEFINE g == Groups[i]
           P == n * g
<1>1. /\ off \in Nat /\ n \in Nat /\ g \in Nat \ {0}
      /\ Len(results) \in Nat /\ DOMAIN results = 1..Len(results)
  BY SpecFacts, NumbersAssumption DEF IInv, TypeOK
<1>2. /\ P \in Nat
      /\ \A t \in 0..(n - 1), m \in 0..(g - 1) :
                /\ t * g + m + 1 \in 1..P
                /\ ((t * g + m + 1) - 1) \div g = t
                /\ ((t * g + m + 1) - 1) % g = m
      /\ \A k \in 1..P :
                /\ (k - 1) \div g \in 0..(n - 1) /\ (k - 1) % g \in 0..(g - 1)
                /\ k = ((k - 1) \div g) * g + ((k - 1) % g) + 1
  BY <1>1, RowPlaces
<1>3. /\ \A k \in DOMAIN results : results[k].spec = i <=> k \in (off + 1)..(off + P)
      /\ off + P <= Len(results)
      /\ \A k \in 1..P : results[off + k] =
           [spec |-> i, metric |-> (k - 1) % g, trial |-> (k - 1) \div g, attempt |-> a]
  BY DEF RowBlock
<1> HIDE DEF g, P
<1>4. ASSUME NEW t \in 0..(n - 1), NEW m \in 0..(g - 1)
      PROVE  LET k == off + (t * g + m + 1)
             IN  k \in DOMAIN results /\ results[k] =
                   [spec |-> i, metric |-> m, trial |-> t, attempt |-> a]
  <2>1. PICK j \in 1..P : j = t * g + m + 1
    BY <1>2
  <2>2. (j - 1) \div g = t /\ (j - 1) % g = m
    BY <1>2, <2>1, Zenon
  <2>3. results[off + j] = [spec |-> i, metric |-> m, trial |-> t, attempt |-> a]
    BY <1>3, <2>2, Zenon
  <2>4. off + j \in DOMAIN results
    BY <1>1, <1>2, <1>3
  <2> QED BY <2>1, <2>3, <2>4
<1>5. ASSUME NEW k \in DOMAIN results, results[k].spec = i
      PROVE  \E t \in 0..(n - 1), m \in 0..(g - 1) : k = off + (t * g + m + 1)
  <2>1. k \in (off + 1)..(off + P)
    BY <1>3, <1>5
  <2>2. PICK j \in 1..P : k = off + j
    <3>1. k - off \in 1..P /\ k = off + (k - off)
      <4>1. P \in Nat
        BY <1>2
      <4> QED BY <1>1, <2>1, <4>1
    <3> QED BY <3>1
  <2>3. /\ (j - 1) \div g \in 0..(n - 1) /\ (j - 1) % g \in 0..(g - 1)
        /\ j = ((j - 1) \div g) * g + ((j - 1) % g) + 1
    BY <1>2
  <2> QED BY <2>2, <2>3, Zenon
<1> QED BY <1>1, <1>4, <1>5 DEF g

\* emit()'s promise: the envelope's rows are grouped by configuration and
\* ordered within it, those of one configuration come from one attempt, and no
\* trial before a reported one is missing, in both modes and however often the
\* canary threw a configuration away.
THEOREM EnvelopeIsWhole == Spec => []EnvelopeWhole
<1>1. ASSUME IInv, NEW j \in DOMAIN results, NEW k \in DOMAIN results,
             results[j].spec = results[k].spec
      PROVE  results[j].attempt = results[k].attempt
  <2>1. PICK i \in 1..N : i = results[k].spec /\ Reported(i)
    BY <1>1, RowsAreReported
  <2>2. PICK n \in 0..Trials, a \in Attempts, off \in 0..Len(results) :
          RowBlock(i, off, n, a)
    BY <2>1 DEF Reported
  <2>3. ASSUME NEW q \in DOMAIN results, results[q].spec = i
        PROVE  results[q].attempt = a
    <3>1. PICK t \in 0..(n - 1), m \in 0..(Groups[i] - 1) :
            q = off + (t * Groups[i] + m + 1)
      BY <1>1, <2>2, <2>3, BlockFacts
    <3>2. results[q] = [spec |-> i, metric |-> m, trial |-> t, attempt |-> a]
      BY <1>1, <2>2, <3>1, BlockFacts
    <3> QED BY <3>2
  <2> QED BY <1>1, <2>1, <2>3
<1>2. ASSUME IInv, NEW k \in DOMAIN results, NEW t \in 0..results[k].trial
      PROVE  \E j \in DOMAIN results :
               results[j].spec = results[k].spec /\ results[j].trial = t
  <2>1. PICK i \in 1..N : i = results[k].spec /\ Reported(i)
    BY <1>2, RowsAreReported
  <2>2. PICK n \in 0..Trials, a \in Attempts, off \in 0..Len(results) :
          RowBlock(i, off, n, a)
    BY <2>1 DEF Reported
  <2>3. PICK u \in 0..(n - 1), m \in 0..(Groups[i] - 1) :
          k = off + (u * Groups[i] + m + 1)
    BY <1>2, <2>1, <2>2, BlockFacts
  <2>4. results[k] = [spec |-> i, metric |-> m, trial |-> u, attempt |-> a]
    BY <1>2, <2>2, <2>3, BlockFacts
  <2>5. results[k].trial = u /\ n \in Nat
    BY <2>4, NumbersAssumption
  <2>6. t \in 0..(n - 1)
    BY <2>5
  <2>7. m \in 0..(Groups[i] - 1)
    OBVIOUS
  <2>8. PICK j : j = off + (t * Groups[i] + m + 1)
    OBVIOUS
  <2>9. j \in DOMAIN results /\ results[j] =
          [spec |-> i, metric |-> m, trial |-> t, attempt |-> a]
    BY <1>2, <2>2, <2>6, <2>7, <2>8, BlockFacts
  <2> QED BY <2>1, <2>9
<1>3. IInv => EnvelopeWhole
  BY <1>1, <1>2 DEF IInv, EnvelopeInv, EnvelopeWhole
<1> QED BY <1>3, Invariance, PTL

\* The rows of one metric of a reported configuration: one per trial.
LEMMA RowsPerMetric ==
    ASSUME IInv, NEW i \in 1..N, NEW off \in 0..Len(results), NEW n \in 0..Trials,
           NEW a, RowBlock(i, off, n, a), NEW m \in 0..(Groups[i] - 1)
    PROVE  /\ Cardinality(RowsOf(i, m)) = n
           /\ RowsOf(i, m) = {} <=> n = 0
           /\ \A j \in RowsOf(i, m) : results[j].attempt = a
<1> DEFINE g == Groups[i]
           T == 0..(n - 1)
           f == [t \in T |-> off + (t * g + m + 1)]
<1>1. /\ off \in Nat /\ n \in Nat /\ g \in Nat \ {0}
      /\ \A t \in T : f[t] \in DOMAIN results /\ results[f[t]] =
           [spec |-> i, metric |-> m, trial |-> t, attempt |-> a]
  <2>1. off \in Nat /\ n \in Nat /\ g \in Nat \ {0}
    BY BlockFacts
  <2>2. ASSUME NEW t \in T
        PROVE  f[t] \in DOMAIN results /\ results[f[t]] =
                 [spec |-> i, metric |-> m, trial |-> t, attempt |-> a]
    <3>1. PICK k : k = off + (t * g + m + 1)
      OBVIOUS
    <3>2. k \in DOMAIN results /\ results[k] =
            [spec |-> i, metric |-> m, trial |-> t, attempt |-> a]
      BY <3>1, BlockFacts
    <3>3. f[t] = k
      BY <3>1
    <3> HIDE DEF f
    <3> QED BY <3>2, <3>3
  <2> HIDE DEF f, T, g
  <2> QED BY <2>1, <2>2
<1>2. \A k \in RowsOf(i, m) : \E t \in T : k = f[t]
  <2> TAKE k \in RowsOf(i, m)
  <2>1. k \in DOMAIN results /\ results[k].spec = i /\ results[k].metric = m
    BY DEF RowsOf
  <2>2. PICK t \in T, q \in 0..(g - 1) : k = off + (t * g + q + 1)
    BY <2>1, BlockFacts
  <2>3. results[k] = [spec |-> i, metric |-> q, trial |-> t, attempt |-> a]
    BY <2>2, BlockFacts
  <2>4. q = m
    BY <2>1, <2>3
  <2> QED BY <2>2, <2>4
<1>3. f \in Bijection(T, RowsOf(i, m))
  <2>1. f \in [T -> RowsOf(i, m)]
    <3>1. ASSUME NEW t \in T
          PROVE  f[t] \in DOMAIN results /\ results[f[t]].spec = i /\ results[f[t]].metric = m
      <4>1. PICK row : row = results[f[t]]
        OBVIOUS
      <4>2. row = [spec |-> i, metric |-> m, trial |-> t, attempt |-> a]
            /\ f[t] \in DOMAIN results
        BY <1>1, <4>1, Zenon
      <4> QED BY <4>1, <4>2
    <3>2. \A t \in T : f[t] \in RowsOf(i, m)
      BY <3>1 DEF RowsOf
    <3> QED BY <3>2
  <2>2. \A s, t \in T : f[s] = f[t] => s = t
    <3> TAKE s, t \in T
    <3> HAVE f[s] = f[t]
    <3> HIDE DEF f, T
    <3>1. ASSUME NEW u \in T PROVE results[f[u]].trial = u
      <4>1. results[f[u]] = [spec |-> i, metric |-> m, trial |-> u, attempt |-> a]
        BY <1>1
      <4> QED BY <4>1
    <3> QED BY <3>1
  <2> HIDE DEF f, T
  <2>3. f \in Injection(T, RowsOf(i, m))
    BY <2>1, <2>2 DEF Injection, IsInjective
  <2>4. f \in Surjection(T, RowsOf(i, m))
    BY <1>2, <2>1 DEF Surjection
  <2> QED BY <2>3, <2>4 DEF Bijection
<1>4. IsFiniteSet(T) /\ Cardinality(T) = n
  <2>1. 0 \in Int /\ n - 1 \in Int
    BY <1>1
  <2>2. IsFiniteSet(T) /\ Cardinality(T) = IF 0 > n - 1 THEN 0 ELSE (n - 1) - 0 + 1
    BY <2>1, FS_Interval
  <2> QED BY <1>1, <2>2
<1>5. Cardinality(RowsOf(i, m)) = n
  <2> HIDE DEF f, T
  <2>1. ExistsBijection(T, RowsOf(i, m))
    BY <1>3 DEF ExistsBijection
  <2> QED BY <1>4, <2>1, FS_Bijection
<1>6. \A j \in RowsOf(i, m) : results[j].attempt = a
  <2> TAKE j \in RowsOf(i, m)
  <2>1. PICK t \in T : j = f[t]
    BY <1>2
  <2>2. results[j] = [spec |-> i, metric |-> m, trial |-> t, attempt |-> a]
    BY <1>1, <2>1
  <2> QED BY <2>2
<1>7. RowsOf(i, m) = {} <=> n = 0
  <2>1. ASSUME n # 0 PROVE RowsOf(i, m) # {}
    <3>1. 0 \in T
      BY <1>1, <2>1
    <3>2. f[0] \in RowsOf(i, m)
      BY <1>3, <3>1 DEF Bijection, Injection
    <3> QED BY <3>2
  <2>2. ASSUME n = 0 PROVE RowsOf(i, m) = {}
    <3>1. T = {}
      BY <2>2
    <3> QED BY <1>2, <3>1
  <2> QED BY <2>1, <2>2
<1> QED BY <1>5, <1>6, <1>7

\* Nothing is in the envelope for a configuration that was not emitted.
LEMMA NothingElse ==
    ASSUME IInv, NEW i \in 1..N, i \notin 1..Emitted, NEW m
    PROVE  /\ RowsOf(i, m) = {}
           /\ {k \in DOMAIN summary : summary[k].spec = i /\ summary[k].metric = m} = {}
BY DEF IInv, EnvelopeInv, RowsOf

\* finish_summary()'s promise: each metric with rows has exactly one summary,
\* over exactly those rows and from the attempt they were measured in; a
\* configuration without a timed trial has none.
THEOREM SummariesOfRows == Spec => []SummariesMatchRows
<1> DEFINE S(i, m) ==
      {k \in DOMAIN summary : summary[k].spec = i /\ summary[k].metric = m}
<1>1. ASSUME IInv, NEW i \in 1..N, NEW m \in 0..(Groups[i] - 1)
      PROVE  IF RowsOf(i, m) = {} THEN S(i, m) = {}
             ELSE \E k \in S(i, m) : /\ S(i, m) = {k}
                            /\ summary[k].n = Cardinality(RowsOf(i, m))
                            /\ \A j \in RowsOf(i, m) :
                                  results[j].attempt = summary[k].attempts
  <2>1. CASE i \notin 1..Emitted
    BY <1>1, <2>1, NothingElse
  <2>2. CASE i \in 1..Emitted
    <3>1. Reported(i)
      BY <1>1, <2>2 DEF IInv, EnvelopeInv
    <3>2. PICK n \in 0..Trials, a \in Attempts :
            /\ \E off \in 0..Len(results) : RowBlock(i, off, n, a)
            /\ \E off \in 0..Len(summary) : SummaryBlock(i, off, n, a)
      BY <3>1 DEF Reported
    <3>3. /\ Cardinality(RowsOf(i, m)) = n
          /\ RowsOf(i, m) = {} <=> n = 0
          /\ \A j \in RowsOf(i, m) : results[j].attempt = a
      BY <1>1, <3>2, RowsPerMetric
    <3>4. PICK off \in 0..Len(summary) : SummaryBlock(i, off, n, a)
      BY <3>2
    <3> DEFINE len == IF n = 0 THEN 0 ELSE Groups[i]
    <3>5. /\ \A k \in DOMAIN summary : summary[k].spec = i <=> k \in (off + 1)..(off + len)
          /\ off + len <= Len(summary)
          /\ \A q \in 1..len : summary[off + q] =
               [spec |-> i, metric |-> q - 1, n |-> n, attempts |-> a]
      BY <3>4 DEF SummaryBlock
    <3>6. /\ Len(summary) \in Nat /\ DOMAIN summary = 1..Len(summary)
          /\ off \in Nat /\ Groups[i] \in Nat \ {0}
      BY <1>1, SpecFacts DEF IInv, TypeOK
    <3>7. len \in Nat
      BY <3>6
    <3>8. ASSUME NEW k \in DOMAIN summary, summary[k].spec = i
          PROVE  k - off \in 1..len /\ summary[k].metric = (k - off) - 1
      <4> HIDE DEF len
      <4>1. k \in (off + 1)..(off + len)
        BY <3>5, <3>8
      <4>2. k - off \in 1..len /\ k = off + (k - off)
        BY <3>6, <3>7, <4>1
      <4>3. summary[off + (k - off)] =
              [spec |-> i, metric |-> (k - off) - 1, n |-> n, attempts |-> a]
        BY <3>5, <4>2
      <4> QED BY <4>2, <4>3
    <3>9. CASE n = 0
      <4>1. S(i, m) = {}
        BY <3>8, <3>9
      <4> QED BY <3>3, <3>9, <4>1
    <3>10. CASE n # 0
      <4>1. len = Groups[i] /\ m + 1 \in 1..len /\ m \in Int
        BY <3>6, <3>10
      <4> HIDE DEF len
      <4>2. summary[off + (m + 1)] =
              [spec |-> i, metric |-> (m + 1) - 1, n |-> n, attempts |-> a]
        BY <3>5, <4>1
      <4>3. PICK k \in DOMAIN summary : k = off + (m + 1)
        BY <3>5, <3>6, <3>7, <4>1
      <4>4. summary[k].spec = i /\ summary[k].metric = m /\ summary[k].n = n
            /\ summary[k].attempts = a
        BY <4>1, <4>2, <4>3
      <4>5. S(i, m) = {k}
        <5>1. ASSUME NEW q \in S(i, m) PROVE q = k
          <6>1. q \in DOMAIN summary /\ summary[q].spec = i /\ summary[q].metric = m
            OBVIOUS
          <6>2. q - off \in 1..len /\ m = (q - off) - 1
            BY <3>8, <6>1
          <6> QED BY <3>6, <4>1, <4>3, <6>1, <6>2
        <5>2. k \in S(i, m)
          BY <4>4
        <5> HIDE DEF S
        <5> QED BY <5>1, <5>2
      <4>6. k \in S(i, m)
        BY <4>4
      <4> HIDE DEF S
      <4> QED BY <3>3, <3>10, <4>4, <4>5, <4>6
    <3> QED BY <3>9, <3>10
  <2> QED BY <2>1, <2>2
<1>2. IInv => SummariesMatchRows
  BY <1>1 DEF SummariesMatchRows
<1> QED BY <1>2, Invariance, PTL

\* A run that ends without a stop reason has emitted every configuration.
LEMMA EndsComplete ==
    ASSUME IInv, NEW i \in 1..N, pc = "done", stop = "none"
    PROVE  \A m \in 0..(Groups[i] - 1) : Cardinality(RowsOf(i, m)) = Trials
<1>1. Reported(i)
  <2>1. Emitted = N
    BY DEF IInv, StopInv, Emitted
  <2> QED BY <2>1 DEF IInv, EnvelopeInv
<1>2. PICK a \in Attempts, off \in 0..Len(results) : RowBlock(i, off, Trials, a)
  BY <1>1 DEF Reported
<1>3. Trials \in 0..Trials
  BY NumbersAssumption
<1> QED BY <1>2, <1>3, RowsPerMetric

\* run_benchmarks() leaves trials out only when it says why: a run that ends
\* without a stop reason has every trial of every metric of every
\* configuration, however often the canary made it start over.
THEOREM CompleteOrStopped == Spec => []CompleteUnlessStopped
<1>1. IInv => CompleteUnlessStopped
  BY EndsComplete DEF CompleteUnlessStopped
<1> QED BY <1>1, Invariance, PTL

=============================================================================
