-------------------------------- MODULE Reads --------------------------------
(***************************************************************************)
(* The read handlers of the API that look at single measurements, while    *)
(* ingests commit: the keyset pages of GET /v1/measurements, followed by a *)
(* client to the end, and GET /v1/trials with LTTB downsampling.           *)
(*                                                                         *)
(* Rows get their ids from a sequence when they are inserted and become    *)
(* visible when their transaction commits, so ids do not become visible in *)
(* order.  A handler sees one snapshot per query.  Filters are left out:   *)
(* the rows are those that pass them.                                      *)
(***************************************************************************)
EXTENDS Integers, Sequences, FiniteSets, FiniteSetsExt

CONSTANTS Txns,        \* ingest transactions
          RowsOf,      \* per transaction, its rows: trial and recorded_at
          Values,      \* what a measurement may have come to
          PageLimit,   \* ?limit of the pages
          TrialsLimit, \* ?limit of the trials
          Thresholds,  \* N of ?downsample=lttb:N; 0 when it is not given
          MayRoundDown \* allow for products rounded down (see Bound)

ASSUME RowsAssumption ==
    /\ DOMAIN RowsOf = Txns
    /\ \A t \in Txns : RowsOf[t] \in Seq([trial : Nat, at : Nat])
    /\ Values \subseteq Int
ASSUME LimitsAssumption ==
    /\ PageLimit \in Nat \ {0} /\ TrialsLimit \in Nat \ {0}
    /\ \A n \in Thresholds : n \in Nat /\ (n = 0 \/ n >= 3)
    /\ MayRoundDown \in BOOLEAN

VARIABLES
    tx,        \* per transaction: "new", "open", "committed" or "rolledback"
    id,        \* per row, its id; 0 before it is inserted
    lastId,    \* the sequence behind measurements.id
    pc,        \* where the reader is
    cursor, seen, owed,   \* the walk: ?cursor, the rows received; ghost: the
                          \* rows that were visible when it began
    points, value,        \* the rows of Trials() and their values
    threshold, low,       \* N; where a product is rounded down (see Bound)
    a, out,               \* Downsample: last selected point, selected points
    j, mapped, keep       \* buildTrialsResponse: where it searches, survivors
                          \* looked at, rows found

resp   == <<j, mapped, keep>>
table  == <<tx, id, lastId>>
walk   == <<cursor, seen, owed>>
sample == <<points, value, threshold, low, a, out>>
vars   == <<table, pc, walk, sample, resp>>

Rows == UNION {{<<t, k>> : k \in DOMAIN RowsOf[t]} : t \in Txns}
Trial(r) == RowsOf[r[1]][r[2]].trial
At(r)    == RowsOf[r[1]][r[2]].at

Init ==
    /\ tx = [t \in Txns |-> "new"] /\ id = [r \in Rows |-> 0] /\ lastId = 0
    /\ pc = "idle"
    /\ cursor = 0 /\ seen = <<>> /\ owed = {}
    /\ points = <<>> /\ value = <<>> /\ threshold = 0 /\ low = {}
    /\ a = 0 /\ out = <<>> /\ j = 1 /\ mapped = 0 /\ keep = <<>>

-----------------------------------------------------------------------------
(* The table *)

Inserted(t) == {r \in Rows : r[1] = t /\ id[r] # 0}
Visible == {r \in Rows : tx[r[1]] = "committed"}

\* The next row of a transaction is inserted and takes the next id.
InsertRow(t) ==
    /\ tx[t] \in {"new", "open"}
    /\ Cardinality(Inserted(t)) < Len(RowsOf[t])
    /\ tx' = [tx EXCEPT ![t] = "open"]
    /\ lastId' = lastId + 1
    /\ id' = [id EXCEPT ![<<t, Cardinality(Inserted(t)) + 1>>] = lastId']
    /\ UNCHANGED <<pc, walk, sample, resp>>

\* Its rows become visible all at once, or never; the ids are used up anyhow.
EndTxn(t) ==
    /\ tx[t] = "open"
    /\ \/ /\ Cardinality(Inserted(t)) = Len(RowsOf[t])
          /\ tx' = [tx EXCEPT ![t] = "committed"]
       \/ tx' = [tx EXCEPT ![t] = "rolledback"]
    /\ UNCHANGED <<id, lastId, pc, walk, sample, resp>>

\* SELECT ... ORDER BY: the rows of S in the order of a strict order on them.
Ordered(S, Precedes(_, _)) ==
    [k \in 1..Cardinality(S) |->
        CHOOSE r \in S : Cardinality({s \in S : Precedes(s, r)}) = k - 1]

\* LIMIT n
Limited(s, n) == SubSeq(s, 1, IF Len(s) < n THEN Len(s) ELSE n)

-----------------------------------------------------------------------------
(* GET /v1/measurements *)

StartWalk ==
    /\ pc = "idle"
    /\ pc' = "walk" /\ owed' = Visible
    /\ UNCHANGED <<table, cursor, seen, sample, resp>>

\* Mutant: the page starts at the cursor.
AfterOrAt(c) == {r \in Visible : c > 0 => id[r] >= c}

\* WHERE id > cursor; a cursor of 0 adds no condition.
After(c) == {r \in Visible : c > 0 => id[r] > c}

\* ORDER BY id LIMIT n
ListMeasurements(c) ==
    Limited(Ordered(After(c), LAMBDA r, s : id[r] < id[s]), PageLimit)

\* Mutant: only a page that is longer than the limit has a successor.
HasNextTooFew(page) == Len(page) > PageLimit

\* next_cursor is only there when the page is full.
HasNext(page) == Len(page) = PageLimit /\ Len(page) > 0

\* One request of the client: the page, and the cursor for the next one.
NextPage ==
    /\ pc = "walk"
    /\ LET page == ListMeasurements(cursor) IN
         /\ seen' = seen \o page
         /\ IF HasNext(page)
            THEN pc' = pc /\ cursor' = id[page[Len(page)]]
            ELSE pc' = "walked" /\ cursor' = cursor
    /\ UNCHANGED <<table, owed, sample, resp>>

-----------------------------------------------------------------------------
(* GET /v1/trials *)

\* Rows of one time and trial come in no particular order, here that of their ids.
Earlier(r, s) ==
    \/ At(r) < At(s)
    \/ At(r) = At(s) /\ (Trial(r) < Trial(s) \/ (Trial(r) = Trial(s) /\ id[r] < id[s]))

\* Trials(): ORDER BY recorded_at, trial.  The values are of interest here only
\* and chosen here.
QueryTrials(n) ==
    /\ pc = "idle"
    /\ points' = Limited(Ordered(Visible, Earlier), TrialsLimit)
    /\ value' \in [DOMAIN points' -> Values]
    /\ threshold' = n
    /\ IF n > 0 /\ n < Len(points')
       THEN /\ pc' = "lttb" /\ a' = 1 /\ out' = <<1>> /\ keep' = <<>>
            /\ low' \in SUBSET {i \in 1..(n - 1) : MayRoundDown /\
                                   (i * (Len(points') - 2)) % (n - 2) = 0}
       ELSE /\ pc' = "answered" /\ keep' = [k \in DOMAIN points' |-> k]
            /\ UNCHANGED <<a, out, low>>
    /\ UNCHANGED <<table, walk, j, mapped>>

\* Mutant: the first point is not set aside.
BoundFromZero(i) ==
    (i * (Len(points) - 2)) \div (threshold - 2) - (IF i \in low THEN 1 ELSE 0)

\* int(float64(i)*every) + 1: the floor of the quotient.  Where the exact product
\* is whole the product of the rounded quotient may be just below it (17 points
\* and N = 13 are the smallest such case).
Bound(i) ==
    (i * (Len(points) - 2)) \div (threshold - 2) - (IF i \in low THEN 1 ELSE 0) + 1

X(k) == Trial(points[k])
Y(k) == value[k]

\* The points of bucket i and of the one after it, counted from 1.
Bucket(i) ==
    LET end == IF Bound(i + 1) > Len(points) - 1 THEN Len(points) - 1 ELSE Bound(i + 1)
    IN  (Bound(i) + 1)..end
NextBucket(i) ==
    LET end == IF Bound(i + 2) > Len(points) THEN Len(points) ELSE Bound(i + 2)
    IN  (Bound(i + 1) + 1)..end

Absolute(n) == IF n < 0 THEN -n ELSE n

\* triangleArea() of the last selected point, point k and the average of the
\* points in S, times 2 and times the number of them: it is only compared.
Area(k, S) ==
    LET n  == Cardinality(S)
        sx == MapThenSumSet(X, S)
        sy == MapThenSumSet(Y, S)
    IN  Absolute((n * X(a) - sx) * (Y(k) - Y(a)) - (X(a) - X(k)) * (sy - n * Y(a)))

\* The first point of bucket i with the largest triangle; the start of the
\* bucket should it be empty.
Best(i) ==
    LET third == IF NextBucket(i) = {} THEN {Len(points)} ELSE NextBucket(i)
        area(k) == Area(k, third)
        best == {k \in Bucket(i) : \A l \in Bucket(i) : area(l) <= area(k)}
    IN  IF best = {} THEN Bound(i) + 1 ELSE Min(best)

\* Downsample(): one bucket of its loop, and after the last one the last point.
Select ==
    /\ pc = "lttb"
    /\ IF Len(out) - 1 < threshold - 2
       THEN /\ a' = Best(Len(out) - 1)
            /\ out' = Append(out, a')
            /\ pc' = pc
       ELSE /\ out' = Append(out, Len(points))
            /\ a' = a /\ pc' = "map"
    /\ UNCHANGED <<table, walk, points, value, threshold, low, resp>>

\* Mutant: one row too many is passed over.
MapBackSkipping ==
    /\ pc = "map"
    /\ LET found == {k \in DOMAIN points : k >= j /\ X(k) = X(out[mapped + 1])}
       IN  IF found = {} THEN j' = Len(points) + 1 /\ keep' = keep
           ELSE j' = Min(found) + 2 /\ keep' = Append(keep, Min(found))
    /\ mapped' = mapped + 1
    /\ pc' = IF mapped' = Len(out) THEN "answered" ELSE pc
    /\ UNCHANGED <<table, walk, sample>>

\* A survivor is looked for by its trial number, from the row after the last
\* one found; one that is not found leaves nothing to look through.  keep shares
\* the array of points (keep[:0]) and is never longer than j, so what it
\* overwrites has been looked at.
MapBack ==
    /\ pc = "map"
    /\ LET found == {k \in DOMAIN points : k >= j /\ X(k) = X(out[mapped + 1])}
       IN  IF found = {} THEN j' = Len(points) + 1 /\ keep' = keep
           ELSE j' = Min(found) + 1 /\ keep' = Append(keep, Min(found))
    /\ mapped' = mapped + 1
    /\ pc' = IF mapped' = Len(out) THEN "answered" ELSE pc
    /\ UNCHANGED <<table, walk, sample>>

-----------------------------------------------------------------------------

Answered == pc \in {"walked", "answered"}
Finished == Answered /\ (\A t \in Txns : tx[t] \in {"committed", "rolledback"})
            /\ UNCHANGED vars

Read ==
    \/ StartWalk \/ NextPage
    \/ (\E n \in Thresholds : QueryTrials(n)) \/ Select \/ MapBack

Next ==
    \/ \E t \in Txns : InsertRow(t) \/ EndTxn(t)
    \/ Read \/ Finished

Spec == Init /\ [][Next]_vars

-----------------------------------------------------------------------------
(* Properties *)

Ascending(s) == \A k, l \in DOMAIN s : k < l => s[k] < s[l]

\* No row comes twice in a walk, although rows with smaller ids than the cursor
\* may become visible behind it and others between two pages.
PagesAscend == Ascending([k \in DOMAIN seen |-> id[seen[k]]])

\* A walk that has ended has returned every row that was visible when it began,
\* also when their number is a multiple of the page size.
SnapshotCovered ==
    pc = "walked" => owed \subseteq {seen[k] : k \in DOMAIN seen}

\* "Downsample reduces data to at most threshold points, keeping the first and
\* last": the points selected are N different ones in their order, first and
\* last among them, however the bucket boundaries are rounded, and so are the
\* rows of the response.
SampleOrdered ==
    /\ Ascending(out) /\ Ascending(keep)
    /\ \A k \in DOMAIN out : out[k] \in DOMAIN points
    /\ pc = "map" => Len(out) = threshold /\ out[1] = 1 /\ out[threshold] = Len(points)

\* For a series in which trial numbers ascend (one configuration of one run)
\* the response is the rows that LTTB selected.
OneRunExact ==
    (pc = "answered" /\ out # <<>> /\ Ascending([k \in DOMAIN points |-> X(k)])) =>
        keep = out

\* Handing out pages: none twice, none left out.
WalkComplete == PagesAscend /\ SnapshotCovered

\* Downsampling: N points in order, and the rows behind them where trial
\* numbers tell the rows apart.
SeriesExact == SampleOrdered /\ OneRunExact

-----------------------------------------------------------------------------
(* The inductive invariant.                                                  *)

\* The rows of a transaction are inserted in their order, each with an id of its
\* own; all of them are when it commits.
InsertedUpTo(t, n) ==
    /\ \A k \in DOMAIN RowsOf[t] : id[<<t, k>>] # 0 <=> k <= n
    /\ tx[t] = "committed" => n = Len(RowsOf[t])

TableInv ==
    /\ tx \in [Txns -> {"new", "open", "committed", "rolledback"}]
    /\ id \in [Rows -> Nat] /\ lastId \in Nat
    /\ \A r \in Rows : id[r] <= lastId
    /\ \A r, s \in Rows : r # s /\ id[r] = id[s] => id[r] = 0
    /\ \A t \in Txns : \E n \in 0..Len(RowsOf[t]) : InsertedUpTo(t, n)

\* What was to be seen up to the cursor has been seen, and nothing beyond it.
WalkInv ==
    /\ cursor \in Nat /\ seen \in Seq(Visible) /\ owed \subseteq Visible
    /\ PagesAscend
    /\ pc = "idle" => cursor = 0
    /\ pc \in {"idle", "walk"} =>
          /\ \A k \in DOMAIN seen : id[seen[k]] <= cursor
          /\ \A r \in owed : id[r] <= cursor => \E k \in DOMAIN seen : seen[k] = r
    /\ SnapshotCovered

Last(s, none) == IF s = <<>> THEN none ELSE s[Len(s)]

TrialsAscend == Ascending([k \in DOMAIN points |-> X(k)])

SampleType ==
    /\ pc \in {"idle", "walk", "walked", "lttb", "map", "answered"}
    /\ points \in Seq(Rows) /\ threshold \in Nat
    /\ out \in Seq(DOMAIN points) /\ Ascending(out)
    /\ keep \in Seq(DOMAIN points) /\ Ascending(keep)

\* Fewer points are selected than there are, beginning with the first.
BucketsInv ==
    /\ threshold >= 3 /\ threshold < Len(points)
    /\ low \subseteq {i \in 1..(threshold - 1) :
                          (i * (Len(points) - 2)) % (threshold - 2) = 0}
    /\ Len(out) >= 1 /\ out[1] = 1

\* The last point selected is in a bucket in front of the next.
SelectInv ==
    /\ pc = "idle" => out = <<>>
    /\ pc \in {"idle", "lttb"} => keep = <<>> /\ mapped = 0 /\ j = 1
    /\ pc \in {"lttb", "map"} => BucketsInv
    /\ pc = "lttb" => Len(out) < threshold /\ out[Len(out)] <= Bound(Len(out) - 1)

\* The rows found so far are in front of j, and are the points selected where
\* trial numbers ascend.
MapInv ==
    /\ Len(out) = threshold /\ out[threshold] = Len(points)
    /\ mapped \in 0..(threshold - 1) /\ j \in Nat /\ Last(keep, 0) < j
    /\ TrialsAscend => keep = SubSeq(out, 1, mapped) /\ j = Last(keep, 0) + 1

SampleInv ==
    SampleType /\ SelectInv /\ (pc = "map" => MapInv) /\ OneRunExact

ReadsInv == TableInv /\ WalkInv /\ SampleInv

=============================================================================
