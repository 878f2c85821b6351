---------------------------- MODULE ReadsProofs ----------------------------
(***************************************************************************)
(* The read side of the API.  For any transactions, limits and thresholds, *)
(* the pages of a walk hand out every row that was there once, and         *)
(* downsampling selects as many points as it was asked for, in their       *)
(* order.  For any handlers, queries and machines, the cache keeps a stale *)
(* answer only after a fill that overlapped an invalidation, and where no  *)
(* query repeats machine_id it answers each with an answer to it.          *)
(***************************************************************************)
EXTENDS Reads, CacheAside, FiniteSetTheorems, WellFoundedInduction, TLAPS

-----------------------------------------------------------------------------
(* ORDER BY. *)

\* A total order on a set, given by its pairs.
TotalOrder(R, S) ==
    /\ \A r \in S : <<r, r>> \notin R
    /\ \A r, s, t \in S : <<r, s>> \in R /\ <<s, t>> \in R => <<r, t>> \in R
    /\ \A r, s \in S : r # s => <<r, s>> \in R \/ <<s, r>> \in R

Below(R, S, r) == {s \in S : <<s, r>> \in R}

\* A list that has at each place a member with that many members below it.
ByRank(q, R, S) ==
    /\ q = [k \in 1..Cardinality(S) |-> q[k]]
    /\ \A k \in 1..Cardinality(S) :
          (\E r \in S : Cardinality(Below(R, S, r)) = k - 1) =>
              q[k] \in S /\ Cardinality(Below(R, S, q[k])) = k - 1

\* A member of a finite set has fewer members below it than another one above it.
LEMMA FewerBelow ==
    ASSUME NEW S, IsFiniteSet(S), NEW R, TotalOrder(R, S), NEW r \in S
    PROVE  /\ IsFiniteSet(Below(R, S, r)) /\ Cardinality(Below(R, S, r)) \in 0..(Cardinality(S) - 1)
           /\ \A s \in S : <<r, s>> \in R =>
                 Cardinality(Below(R, S, r)) < Cardinality(Below(R, S, s))
<1>1. ASSUME NEW t \in S
      PROVE  /\ IsFiniteSet(Below(R, S, t)) /\ Cardinality(Below(R, S, t)) \in Nat
             /\ Cardinality(S) \in Nat /\ Cardinality(Below(R, S, t)) < Cardinality(S)
  <2>1. Below(R, S, t) \in SUBSET S /\ t \notin Below(R, S, t)
    BY DEF Below, TotalOrder
  <2>2. /\ IsFiniteSet(Below(R, S, t)) /\ Cardinality(Below(R, S, t)) <= Cardinality(S)
        /\ Cardinality(S) = Cardinality(Below(R, S, t)) => S = Below(R, S, t)
    BY <2>1, FS_Subset
  <2>3. Cardinality(Below(R, S, t)) \in Nat /\ Cardinality(S) \in Nat
    BY <2>2, FS_CardinalityType
  <2>4. S # Below(R, S, t)
    BY <2>1
  <2> QED BY <2>2, <2>3, <2>4
<1>2. ASSUME NEW s \in S, <<r, s>> \in R
      PROVE  Cardinality(Below(R, S, r)) < Cardinality(Below(R, S, s))
  <2>1. /\ Below(R, S, r) \in SUBSET Below(R, S, s)
        /\ r \in Below(R, S, s) /\ r \notin Below(R, S, r)
    BY <1>2 DEF Below, TotalOrder
  <2>2. IsFiniteSet(Below(R, S, s))
    BY <1>1
  <2>3. /\ Cardinality(Below(R, S, r)) <= Cardinality(Below(R, S, s))
        /\ Cardinality(Below(R, S, s)) = Cardinality(Below(R, S, r)) =>
              Below(R, S, s) = Below(R, S, r)
    BY <2>1, <2>2, FS_Subset
  <2>4. Cardinality(Below(R, S, r)) \in Nat /\ Cardinality(Below(R, S, s)) \in Nat
    BY <1>1
  <2> QED BY <2>1, <2>3, <2>4
<1>3. /\ Cardinality(Below(R, S, r)) \in Nat /\ Cardinality(S) \in Nat
      /\ Cardinality(Below(R, S, r)) < Cardinality(S) /\ IsFiniteSet(Below(R, S, r))
  BY <1>1
<1> QED BY <1>2, <1>3

\* Listing the members of a finite set by the number of those below them gives
\* all of them in their order.
LEMMA Ranked ==
    ASSUME NEW S, IsFiniteSet(S), NEW R, TotalOrder(R, S), NEW q, ByRank(q, R, S)
    PROVE  /\ q \in Seq(S) /\ Len(q) = Cardinality(S)
           /\ \A k, l \in DOMAIN q : k < l => <<q[k], q[l]>> \in R
           /\ \A r \in S : \E k \in DOMAIN q : q[k] = r
<1> DEFINE n == Cardinality(S)
           f == [r \in S |-> Cardinality(Below(R, S, r))]
           T == 0..(n - 1)
<1>1. n \in Nat
  BY FS_CardinalityType
<1>2. \A r \in S : f[r] \in T /\ f[r] = Cardinality(Below(R, S, r))
  BY FewerBelow
<1>3. ASSUME NEW r \in S, NEW s \in S, f[r] = f[s] PROVE r = s
  <2>1. Cardinality(Below(R, S, r)) \in T /\ Cardinality(Below(R, S, s)) \in T
        /\ Cardinality(Below(R, S, r)) = Cardinality(Below(R, S, s))
    BY <1>2, <1>3
  <2>2. /\ <<r, s>> \in R => Cardinality(Below(R, S, r)) < Cardinality(Below(R, S, s))
        /\ <<s, r>> \in R => Cardinality(Below(R, S, s)) < Cardinality(Below(R, S, r))
    BY FewerBelow
  <2>3. r # s => <<r, s>> \in R \/ <<s, r>> \in R
    BY DEF TotalOrder
  <2> QED BY <1>1, <2>1, <2>2, <2>3
<1>4. f \in Injection(S, T)
  <2>1. f \in [S -> T] /\ \A r, s \in S : f[r] = f[s] => r = s
    BY <1>2, <1>3
  <2> HIDE DEF f, T
  <2> QED BY <2>1 DEF Injection, IsInjective
<1>5. IsFiniteSet(T) /\ Cardinality(T) = n
  <2>1. 0 \in Int /\ n - 1 \in Int
    BY <1>1
  <2>2. IsFiniteSet(T) /\ Cardinality(T) = IF 0 > n - 1 THEN 0 ELSE (n - 1) - 0 + 1
    BY <2>1, FS_Interval
  <2> HIDE DEF n
  <2> QED BY <1>1, <2>2
<1>6. f \in Surjection(S, T)
  <2> HIDE DEF f, T
  <2> QED BY <1>4, <1>5, FS_Injection
<1>7. \A k \in T : \E r \in S : f[r] = k
  <2> HIDE DEF f, T
  <2> QED BY <1>6 DEF Surjection
<1>8. \A k \in 1..n : q[k] \in S /\ f[q[k]] = k - 1
  <2> SUFFICES ASSUME NEW k \in 1..n PROVE q[k] \in S /\ f[q[k]] = k - 1
    OBVIOUS
  <2>1. k - 1 \in T
    BY <1>1
  <2>2. PICK r \in S : f[r] = k - 1
    BY <1>7, <2>1
  <2>3. Cardinality(Below(R, S, r)) = k - 1
    BY <1>2, <2>2
  <2>4. q[k] \in S /\ Cardinality(Below(R, S, q[k])) = k - 1
    BY <2>3 DEF ByRank
  <2> QED BY <1>2, <2>4
<1>9. q \in [1..n -> S] /\ DOMAIN q = 1..n
  <2>1. q = [k \in 1..n |-> q[k]]
    BY DEF ByRank
  <2> QED BY <1>8, <2>1
<1>10. q \in Seq(S) /\ Len(q) = n
  BY <1>1, <1>9
<1>11. ASSUME NEW k \in 1..n, NEW l \in 1..n, k < l PROVE <<q[k], q[l]>> \in R
  <2>1. q[k] \in S /\ q[l] \in S /\ f[q[k]] = k - 1 /\ f[q[l]] = l - 1
    BY <1>8
  <2>2. q[k] # q[l]
    BY <1>11, <2>1
  <2>3. <<q[l], q[k]>> \in R => f[q[l]] < f[q[k]]
    BY <1>2, <2>1, FewerBelow
  <2>4. <<q[k], q[l]>> \in R \/ <<q[l], q[k]>> \in R
    BY <2>1, <2>2 DEF TotalOrder
  <2> QED BY <1>11, <2>1, <2>3, <2>4
<1>12. ASSUME NEW r \in S PROVE \E k \in 1..n : q[k] = r
  <2>1. f[r] \in T
    BY <1>2
  <2>2. PICK k : k = f[r] + 1
    OBVIOUS
  <2>a. k \in 1..n /\ k - 1 = f[r]
    BY <1>1, <2>1, <2>2
  <2>3. q[k] \in S /\ f[q[k]] = f[r]
    BY <1>8, <2>a
  <2>4. q[k] = r
    BY <1>3, <2>3
  <2> QED BY <2>4, <2>a
<1> QED BY <1>9, <1>10, <1>11, <1>12

\* ORDER BY id lists all rows, and in the order of their ids.
LEMMA OrderedById ==
    ASSUME NEW S \in SUBSET Rows, IsFiniteSet(S), \A r \in S : id[r] \in Nat,
           \A r, s \in S : r # s => id[r] # id[s]
    PROVE  LET q == Ordered(S, LAMBDA r, s : id[r] < id[s])
           IN  /\ q \in Seq(S) /\ Len(q) = Cardinality(S)
               /\ \A k, l \in DOMAIN q : k < l => id[q[k]] < id[q[l]]
               /\ \A r \in S : \E k \in DOMAIN q : q[k] = r
<1>1. PICK q : q = Ordered(S, LAMBDA r, s : id[r] < id[s])
  OBVIOUS
<1>2. PICK R : R = {p \in S \X S : id[p[1]] < id[p[2]]}
  OBVIOUS
<1>3. \A r, s \in S : <<r, s>> \in R <=> id[r] < id[s]
  BY <1>2
<1>4. TotalOrder(R, S)
  BY <1>3 DEF TotalOrder
<1>5. \A r \in S : Below(R, S, r) = {s \in S : id[s] < id[r]}
  BY <1>3 DEF Below
<1>6. q = [k \in 1..Cardinality(S) |->
             CHOOSE r \in S : Cardinality({s \in S : id[s] < id[r]}) = k - 1]
  BY <1>1 DEF Ordered
<1>7. ASSUME NEW k \in 1..Cardinality(S), \E r \in S : Cardinality(Below(R, S, r)) = k - 1
      PROVE  q[k] \in S /\ Cardinality(Below(R, S, q[k])) = k - 1
  <2>1. \E r \in S : Cardinality({s \in S : id[s] < id[r]}) = k - 1
    BY <1>5, <1>7
  <2>2. q[k] \in S /\ Cardinality({s \in S : id[s] < id[q[k]]}) = k - 1
    BY <1>6, <2>1
  <2> QED BY <1>5, <2>2
<1>8. ByRank(q, R, S)
  <2> DEFINE e(k) == CHOOSE r \in S : Cardinality({s \in S : id[s] < id[r]}) = k - 1
  <2>1. q = [k \in 1..Cardinality(S) |-> e(k)]
    BY <1>6
  <2> HIDE DEF e
  <2>2. q = [k \in 1..Cardinality(S) |-> q[k]]
    BY <2>1
  <2> QED BY <1>7, <2>2 DEF ByRank
<1>9. /\ q \in Seq(S) /\ Len(q) = Cardinality(S)
      /\ \A k, l \in DOMAIN q : k < l => <<q[k], q[l]>> \in R
      /\ \A r \in S : \E k \in DOMAIN q : q[k] = r
  BY <1>4, <1>8, Ranked
<1>10. \A k \in DOMAIN q : q[k] \in S
  BY <1>9
<1> QED BY <1>1, <1>3, <1>9, <1>10

-----------------------------------------------------------------------------
(* The table. *)

\* A row is a number within its transaction.
LEMMA RowFacts ==
    /\ \A t \in Txns : Len(RowsOf[t]) \in Nat /\ DOMAIN RowsOf[t] = 1..Len(RowsOf[t])
    /\ \A t \in Txns : \A k \in 1..Len(RowsOf[t]) : <<t, k>> \in Rows
    /\ \A r \in Rows : \E t \in Txns : \E k \in 1..Len(RowsOf[t]) : r = <<t, k>>
    /\ \A r \in Rows : r[1] \in Txns /\ Trial(r) \in Nat /\ At(r) \in Nat
<1>1. \A t \in Txns : RowsOf[t] \in Seq([trial : Nat, at : Nat])
  BY RowsAssumption
<1>2. \A t \in Txns : /\ Len(RowsOf[t]) \in Nat /\ DOMAIN RowsOf[t] = 1..Len(RowsOf[t])
                      /\ \A k \in DOMAIN RowsOf[t] : RowsOf[t][k] \in [trial : Nat, at : Nat]
  <2> SUFFICES ASSUME NEW t \in Txns
               PROVE  /\ Len(RowsOf[t]) \in Nat /\ DOMAIN RowsOf[t] = 1..Len(RowsOf[t])
                      /\ \A k \in DOMAIN RowsOf[t] : RowsOf[t][k] \in [trial : Nat, at : Nat]
    OBVIOUS
  <2> DEFINE R == [trial : Nat, at : Nat]
  <2>1. RowsOf[t] \in Seq(R)
    BY <1>1
  <2> HIDE DEF R
  <2>2. /\ Len(RowsOf[t]) \in Nat /\ DOMAIN RowsOf[t] = 1..Len(RowsOf[t])
        /\ \A k \in DOMAIN RowsOf[t] : RowsOf[t][k] \in R
    BY <2>1
  <2> QED BY <2>2 DEF R
<1>3. \A r \in Rows : \E t \in Txns : \E k \in DOMAIN RowsOf[t] : r = <<t, k>>
  BY DEF Rows
<1>4. \A t \in Txns : \A k \in DOMAIN RowsOf[t] : <<t, k>> \in Rows
  BY DEF Rows
<1>5. ASSUME NEW r \in Rows PROVE r[1] \in Txns /\ Trial(r) \in Nat /\ At(r) \in Nat
  <2>1. PICK t \in Txns : \E k \in DOMAIN RowsOf[t] : r = <<t, k>>
    BY <1>3
  <2>2. PICK k \in DOMAIN RowsOf[t] : r = <<t, k>>
    BY <2>1
  <2>3. r[1] = t /\ r[2] = k
    BY <2>2
  <2>4. RowsOf[t][k] \in [trial : Nat, at : Nat]
    BY <1>2
  <2> QED BY <2>3, <2>4 DEF Trial, At
<1> QED BY <1>2, <1>3, <1>4, <1>5

\* The rows that can be seen are finitely many, and have ids of their own.
LEMMA VisibleFacts ==
    ASSUME TableInv
    PROVE  /\ Visible \in SUBSET Rows /\ IsFiniteSet(Visible)
           /\ \A r \in Visible : id[r] \in Nat \ {0}
           /\ \A r, s \in Visible : r # s => id[r] # id[s]
<1>1. Visible \subseteq Rows
  BY DEF Visible
<1>2. ASSUME NEW r \in Visible PROVE id[r] \in 1..lastId /\ id[r] # 0
  <2>1. PICK t \in Txns : \E k \in 1..Len(RowsOf[t]) : r = <<t, k>>
    BY <1>1, RowFacts
  <2>2. PICK k \in 1..Len(RowsOf[t]) : r = <<t, k>>
    BY <2>1
  <2>3. tx[t] = "committed"
    BY <2>2 DEF Visible
  <2>4. PICK n \in 0..Len(RowsOf[t]) : InsertedUpTo(t, n)
    BY DEF TableInv
  <2>5. id[<<t, k>>] # 0
    BY <2>3, <2>4, RowFacts DEF InsertedUpTo
  <2>6. id[r] \in Nat /\ id[r] <= lastId /\ lastId \in Nat
    BY <1>1 DEF TableInv
  <2> QED BY <2>2, <2>5, <2>6
<1>3. \A r, s \in Visible : r # s => id[r] # id[s]
  BY <1>1, <1>2 DEF TableInv
<1>4. IsFiniteSet(Visible)
  <2> DEFINE f == [r \in Visible |-> id[r]]
  <2>1. f \in [Visible -> 1..lastId] /\ \A r, s \in Visible : f[r] = f[s] => r = s
    BY <1>2, <1>3
  <2> HIDE DEF f
  <2>2. f \in Injection(Visible, 1..lastId)
    BY <2>1 DEF Injection, IsInjective
  <2>3. 1 \in Int /\ lastId \in Int
    BY DEF TableInv
  <2>4. IsFiniteSet(1..lastId)
    BY <2>3, FS_Interval
  <2> QED BY <2>2, <2>4, FS_Injection
<1> QED BY <1>1, <1>2, <1>3, <1>4

\* The rows inserted so far are counted by Inserted.
LEMMA InsertedCount ==
    ASSUME TableInv, NEW t \in Txns, NEW n \in 0..Len(RowsOf[t]), InsertedUpTo(t, n)
    PROVE  Cardinality(Inserted(t)) = n
<1>1. Len(RowsOf[t]) \in Nat /\ DOMAIN RowsOf[t] = 1..Len(RowsOf[t]) /\ n \in Nat
  BY RowFacts
<1> DEFINE f == [k \in 1..n |-> <<t, k>>]
<1>2. ASSUME NEW r \in Inserted(t) PROVE \E k \in 1..n : r = <<t, k>>
  <2>1. r \in Rows /\ r[1] = t /\ id[r] # 0
    BY DEF Inserted
  <2>2. PICK u \in Txns : \E k \in 1..Len(RowsOf[u]) : r = <<u, k>>
    BY <2>1, RowFacts
  <2>3. PICK k \in 1..Len(RowsOf[u]) : r = <<u, k>>
    BY <2>2
  <2>4. u = t
    BY <2>1, <2>3
  <2>5. k <= n
    BY <1>1, <2>1, <2>3, <2>4 DEF InsertedUpTo
  <2> QED BY <1>1, <2>3, <2>4, <2>5
<1>3. ASSUME NEW k \in 1..n PROVE <<t, k>> \in Inserted(t)
  <2>1. k \in 1..Len(RowsOf[t])
    BY <1>1
  <2>2. <<t, k>> \in Rows /\ id[<<t, k>>] # 0
    BY <1>1, <2>1, RowFacts DEF InsertedUpTo
  <2> QED BY <2>2 DEF Inserted
<1>4. f \in Bijection(1..n, Inserted(t))
  <2>1. f \in [1..n -> Inserted(t)] /\ \A k, l \in 1..n : f[k] = f[l] => k = l
    BY <1>3
  <2>2. \A r \in Inserted(t) : \E k \in 1..n : f[k] = r
    BY <1>2
  <2> HIDE DEF f
  <2>3. f \in Injection(1..n, Inserted(t))
    BY <2>1 DEF Injection, IsInjective
  <2>4. f \in Surjection(1..n, Inserted(t))
    BY <2>1, <2>2 DEF Surjection
  <2> QED BY <2>3, <2>4 DEF Bijection
<1>5. IsFiniteSet(1..n) /\ Cardinality(1..n) = n
  <2>1. 1 \in Int /\ n \in Int
    BY <1>1
  <2>2. IsFiniteSet(1..n) /\ Cardinality(1..n) = IF 1 > n THEN 0 ELSE n - 1 + 1
    BY <2>1, FS_Interval
  <2> QED BY <1>1, <2>2
<1>6. ExistsBijection(1..n, Inserted(t))
  BY <1>4 DEF ExistsBijection
<1> QED BY <1>5, <1>6, FS_Bijection

\* What can be seen remains to be seen, under the same id.
StaysVisible == Visible \subseteq Visible' /\ \A r \in Visible : id'[r] = id[r]

\* An insertion shows nobody anything.
LEMMA InsertStep ==
    ASSUME TableInv, NEW t \in Txns, InsertRow(t)
    PROVE  TableInv' /\ StaysVisible
<1>1. PICK n \in 0..Len(RowsOf[t]) : InsertedUpTo(t, n)
  BY DEF TableInv
<1>2. Cardinality(Inserted(t)) = n
  BY <1>1, InsertedCount
<1> DEFINE r == <<t, n + 1>>
<1>3. /\ tx[t] \in {"new", "open"} /\ n < Len(RowsOf[t])
      /\ tx' = [tx EXCEPT ![t] = "open"] /\ lastId' = lastId + 1
      /\ id' = [id EXCEPT ![r] = lastId + 1]
  BY <1>2 DEF InsertRow
<1>4. /\ tx \in [Txns -> {"new", "open", "committed", "rolledback"}]
      /\ id \in [Rows -> Nat] /\ lastId \in Nat /\ \A s \in Rows : id[s] <= lastId
  BY DEF TableInv
<1>5. n \in Nat /\ n + 1 \in 1..Len(RowsOf[t]) /\ r \in Rows
  <2>1. n \in Nat /\ n + 1 \in 1..Len(RowsOf[t])
    BY <1>3, RowFacts
  <2> QED BY <2>1, RowFacts
<1> HIDE DEF r
<1>6. /\ tx' \in [Txns -> {"new", "open", "committed", "rolledback"}]
      /\ id' \in [Rows -> Nat] /\ lastId' \in Nat
      /\ id'[r] = lastId + 1 /\ \A s \in Rows : s # r => id'[s] = id[s]
  BY <1>3, <1>4, <1>5
<1>7. \A s \in Rows : id'[s] <= lastId'
  BY <1>3, <1>4, <1>6
<1>8. \A s, u \in Rows : s # u /\ id'[s] = id'[u] => id'[s] = 0
  <2> SUFFICES ASSUME NEW s \in Rows, NEW u \in Rows, s # u, id'[s] = id'[u] PROVE id'[s] = 0
    OBVIOUS
  <2>1. s # r /\ u # r
    BY <1>4, <1>6
  <2> QED BY <1>6, <2>1 DEF TableInv
<1>9. ASSUME NEW u \in Txns PROVE \E m \in 0..Len(RowsOf[u]) : InsertedUpTo(u, m)'
  <2>1. CASE u = t
    <3>1. n + 1 \in 0..Len(RowsOf[t])
      BY <1>5
    <3>2. \A k \in DOMAIN RowsOf[t] : id'[<<t, k>>] # 0 <=> k <= n + 1
      <4> SUFFICES ASSUME NEW k \in DOMAIN RowsOf[t] PROVE id'[<<t, k>>] # 0 <=> k <= n + 1
        OBVIOUS
      <4>1. k \in Nat /\ <<t, k>> \in Rows
        BY RowFacts
      <4>2. CASE k = n + 1
        BY <1>4, <1>6, <4>1, <4>2 DEF r
      <4>3. CASE k # n + 1
        <5>1. <<t, k>> # r
          BY <4>3 DEF r
        <5>2. id'[<<t, k>>] = id[<<t, k>>]
          BY <1>6, <4>1, <5>1
        <5>3. id[<<t, k>>] # 0 <=> k <= n
          BY <1>1 DEF InsertedUpTo
        <5> QED BY <1>5, <4>1, <4>3, <5>2, <5>3
      <4> QED BY <4>2, <4>3
    <3>3. tx'[t] # "committed"
      BY <1>3, <1>4
    <3> QED BY <2>1, <3>1, <3>2, <3>3 DEF InsertedUpTo
  <2>2. CASE u # t
    <3>1. PICK m \in 0..Len(RowsOf[u]) : InsertedUpTo(u, m)
      BY DEF TableInv
    <3>2. tx'[u] = tx[u]
      BY <1>3, <1>4, <2>2
    <3>3. \A k \in DOMAIN RowsOf[u] : id'[<<u, k>>] = id[<<u, k>>]
      <4> SUFFICES ASSUME NEW k \in DOMAIN RowsOf[u] PROVE id'[<<u, k>>] = id[<<u, k>>]
        OBVIOUS
      <4>1. <<u, k>> \in Rows /\ <<u, k>> # r
        BY <2>2, RowFacts DEF r
      <4> QED BY <1>6, <4>1
    <3> QED BY <3>1, <3>2, <3>3 DEF InsertedUpTo
  <2> QED BY <2>1, <2>2
<1>10. TableInv'
  BY <1>6, <1>7, <1>8, <1>9 DEF TableInv
<1>11. ASSUME NEW s \in Visible PROVE s \in Visible' /\ id'[s] = id[s]
  <2>1. s \in Rows /\ s[1] \in Txns /\ tx[s[1]] = "committed"
    BY RowFacts DEF Visible
  <2>2. s[1] # t
    BY <1>3, <2>1
  <2>3. s # r
    BY <2>2 DEF r
  <2>4. tx'[s[1]] = tx[s[1]]
    BY <1>3, <1>4, <2>1, <2>2
  <2> QED BY <1>6, <2>1, <2>3, <2>4 DEF Visible
<1> QED BY <1>10, <1>11 DEF StaysVisible

\* Nor does the end of a transaction take anything away.
LEMMA EndStep ==
    ASSUME TableInv, NEW t \in Txns, EndTxn(t)
    PROVE  TableInv' /\ StaysVisible
<1>1. /\ tx[t] = "open" /\ id' = id /\ lastId' = lastId
      /\ \/ tx' = [tx EXCEPT ![t] = "committed"] /\ Cardinality(Inserted(t)) = Len(RowsOf[t])
         \/ tx' = [tx EXCEPT ![t] = "rolledback"]
  BY DEF EndTxn
<1>2. tx \in [Txns -> {"new", "open", "committed", "rolledback"}]
  BY DEF TableInv
<1>3. /\ tx' \in [Txns -> {"new", "open", "committed", "rolledback"}]
      /\ \A u \in Txns : u # t => tx'[u] = tx[u]
      /\ tx'[t] = "committed" => Cardinality(Inserted(t)) = Len(RowsOf[t])
  BY <1>1, <1>2
<1>4. ASSUME NEW u \in Txns PROVE \E m \in 0..Len(RowsOf[u]) : InsertedUpTo(u, m)'
  <2>1. PICK m \in 0..Len(RowsOf[u]) : InsertedUpTo(u, m)
    BY DEF TableInv
  <2>2. tx'[u] = "committed" => m = Len(RowsOf[u])
    BY <1>3, <2>1, InsertedCount DEF InsertedUpTo
  <2> QED BY <1>1, <2>1, <2>2 DEF InsertedUpTo
<1>5. TableInv'
  BY <1>1, <1>3, <1>4 DEF TableInv
<1>6. ASSUME NEW s \in Visible PROVE s \in Visible' /\ id'[s] = id[s]
  <2>1. s \in Rows /\ s[1] \in Txns /\ tx[s[1]] = "committed"
    BY RowFacts DEF Visible
  <2>2. s[1] # t
    BY <1>1, <2>1
  <2> QED BY <1>1, <1>3, <2>1, <2>2 DEF Visible
<1> QED BY <1>5, <1>6 DEF StaysVisible

-----------------------------------------------------------------------------
(* The walk. *)

\* A walk is not disturbed by what becomes visible.
LEMMA WalkKept ==
    ASSUME WalkInv, StaysVisible, UNCHANGED walk,
           pc' = pc \/ pc' \notin {"idle", "walk", "walked"}
    PROVE  WalkInv'
<1>1. cursor' = cursor /\ seen' = seen /\ owed' = owed
  BY DEF walk
<1>2. /\ cursor \in Nat /\ seen \in Seq(Visible) /\ owed \subseteq Visible
      /\ PagesAscend /\ SnapshotCovered
      /\ pc = "idle" => cursor = 0
      /\ pc \in {"idle", "walk"} =>
            /\ \A k \in DOMAIN seen : id[seen[k]] <= cursor
            /\ \A r \in owed : id[r] <= cursor => \E k \in DOMAIN seen : seen[k] = r
  BY DEF WalkInv
<1>3. seen \in Seq(Visible') /\ owed \subseteq Visible'
      /\ \A k \in DOMAIN seen : id'[seen[k]] = id[seen[k]]
  <2> DEFINE V == Visible
             W == Visible'
  <2>1. seen \in Seq(V) /\ V \subseteq W /\ owed \subseteq V
    BY <1>2 DEF StaysVisible
  <2> HIDE DEF V, W
  <2>2. seen \in Seq(W) /\ owed \subseteq W /\ \A k \in DOMAIN seen : seen[k] \in V
    BY <2>1
  <2> QED BY <2>2 DEF V, W, StaysVisible
<1>4. \A r \in owed : id'[r] = id[r]
  BY <1>2 DEF StaysVisible
<1>5. PagesAscend'
  BY <1>1, <1>2, <1>3 DEF PagesAscend, Ascending
<1>6. SnapshotCovered'
  BY <1>1, <1>2 DEF SnapshotCovered
<1>7. (pc \in {"idle", "walk"} =>
            /\ \A k \in DOMAIN seen : id[seen[k]] <= cursor
            /\ \A r \in owed : id[r] <= cursor => \E k \in DOMAIN seen : seen[k] = r)'
  BY <1>1, <1>2, <1>3, <1>4
<1> QED BY <1>1, <1>2, <1>3, <1>5, <1>6, <1>7 DEF WalkInv

\* When a walk begins no row has been seen, and none is at the cursor.
LEMMA StartWalkStep ==
    ASSUME TableInv, WalkInv, StartWalk
    PROVE  WalkInv'
<1>1. /\ pc = "idle" /\ pc' = "walk" /\ owed' = Visible /\ cursor' = cursor /\ seen' = seen
      /\ tx' = tx /\ id' = id
  BY DEF StartWalk, table
<1>2. Visible' = Visible
  BY <1>1 DEF Visible
<1>3. /\ cursor = 0 /\ seen \in Seq(Visible) /\ PagesAscend
      /\ \A k \in DOMAIN seen : id[seen[k]] <= cursor
  BY <1>1 DEF WalkInv
<1>4. \A r \in Visible : ~(id[r] <= cursor)
  BY <1>3, VisibleFacts
<1>5. PagesAscend'
  BY <1>1, <1>3 DEF PagesAscend, Ascending
<1> QED BY <1>1, <1>2, <1>3, <1>4, <1>5 DEF WalkInv, SnapshotCovered

\* A page: the rows behind the cursor in the order of their ids, all of them or
\* as many as the limit allows.
LEMMA PageFacts ==
    ASSUME TableInv, cursor \in Nat
    PROVE  LET page == ListMeasurements(cursor)
           IN  /\ page \in Seq(Visible) /\ Len(page) <= PageLimit
               /\ \A k \in DOMAIN page : id[page[k]] \in Nat /\ id[page[k]] > cursor
               /\ \A k, l \in DOMAIN page : k < l => id[page[k]] < id[page[l]]
               /\ \A r \in Visible : id[r] > cursor =>
                     \/ \E k \in DOMAIN page : page[k] = r
                     \/ Len(page) = PageLimit /\ id[page[Len(page)]] < id[r]
<1> DEFINE S == After(cursor)
           L == Ordered(S, LAMBDA r, s : id[r] < id[s])
           n == Len(L)
           m == IF n < PageLimit THEN n ELSE PageLimit
           page == ListMeasurements(cursor)
<1>1. /\ Visible \in SUBSET Rows /\ IsFiniteSet(Visible)
      /\ \A r \in Visible : id[r] \in Nat \ {0}
      /\ \A r, s \in Visible : r # s => id[r] # id[s]
  BY VisibleFacts
<1>2. S \subseteq Visible /\ \A r \in Visible : r \in S <=> id[r] > cursor
  BY <1>1 DEF After
<1>3. IsFiniteSet(S)
  BY <1>1, <1>2, FS_Subset
<1>4. S \in SUBSET Rows /\ (\A r \in S : id[r] \in Nat)
      /\ \A r, s \in S : r # s => id[r] # id[s]
  BY <1>1, <1>2
<1> HIDE DEF S
<1>5. /\ L \in Seq(S)
      /\ \A k, l \in DOMAIN L : k < l => id[L[k]] < id[L[l]]
      /\ \A r \in S : \E k \in DOMAIN L : L[k] = r
  BY <1>3, <1>4, OrderedById
<1>6. page = SubSeq(L, 1, m)
  BY DEF ListMeasurements, Limited, S
<1> HIDE DEF L, page
<1>7. PageLimit \in Nat \ {0}
  BY LimitsAssumption
<1>8. n \in Nat /\ DOMAIN L = 1..n /\ m \in 0..n /\ m <= PageLimit /\ (m < PageLimit => m = n)
  BY <1>5, <1>7
<1>9. page \in Seq(S) /\ Len(page) = m /\ DOMAIN page = 1..m /\ \A k \in 1..m : page[k] = L[k]
  BY <1>5, <1>6, <1>8
<1>10. \A k \in 1..m : k \in DOMAIN L /\ page[k] \in S
  BY <1>8, <1>9
<1>11. page \in Seq(Visible)
  <2> DEFINE V == Visible
  <2>1. S \subseteq V
    BY <1>2
  <2> HIDE DEF V
  <2>2. page \in Seq(V)
    BY <1>9, <2>1
  <2> QED BY <2>2 DEF V
<1>12. \A k \in DOMAIN page : id[page[k]] \in Nat /\ id[page[k]] > cursor
  BY <1>1, <1>2, <1>9, <1>10
<1>13. \A k, l \in DOMAIN page : k < l => id[page[k]] < id[page[l]]
  BY <1>5, <1>9, <1>10
<1>14. ASSUME NEW r \in Visible, id[r] > cursor, ~\E k \in DOMAIN page : page[k] = r
       PROVE  m = PageLimit /\ id[page[m]] < id[r]
  <2>1. r \in S
    BY <1>2, <1>14
  <2>2. PICK k \in 1..n : L[k] = r
    BY <1>5, <1>8, <2>1
  <2>3. ~(k <= m)
    BY <1>8, <1>9, <1>14, <2>2
  <2> HIDE DEF m, n
  <2>a. n \in Nat /\ m \in 0..n /\ m <= PageLimit /\ (m < PageLimit => m = n)
    BY <1>8
  <2>b. k \in 1..n
    BY <2>2
  <2>4. m = PageLimit /\ m \in 1..n /\ m < k
    BY <1>7, <2>a, <2>b, <2>3
  <2>5. id[L[m]] < id[L[k]]
    BY <1>5, <1>8, <2>b, <2>4
  <2> QED BY <1>9, <2>2, <2>4, <2>5
<1>15. \A r \in Visible : id[r] > cursor =>
          \/ \E k \in DOMAIN page : page[k] = r
          \/ m = PageLimit /\ id[page[m]] < id[r]
  BY <1>14
<1> HIDE DEF m
<1> QED BY <1>8, <1>9, <1>11, <1>12, <1>13, <1>15 DEF page

\* A page carries the walk up to the next cursor, or to its end.
LEMMA NextPageStep ==
    ASSUME TableInv, WalkInv, NextPage
    PROVE  WalkInv'
<1>1. PICK page : page = ListMeasurements(cursor)
  OBVIOUS
<1>2. /\ pc = "walk" /\ seen' = seen \o page /\ tx' = tx /\ id' = id /\ owed' = owed
      /\ IF HasNext(page) THEN pc' = pc /\ cursor' = id[page[Len(page)]]
                          ELSE pc' = "walked" /\ cursor' = cursor
  BY <1>1 DEF NextPage, table
<1>3. /\ cursor \in Nat /\ seen \in Seq(Visible) /\ owed \subseteq Visible /\ PagesAscend
      /\ \A k \in DOMAIN seen : id[seen[k]] <= cursor
      /\ \A r \in owed : id[r] <= cursor => \E k \in DOMAIN seen : seen[k] = r
  BY <1>2 DEF WalkInv
<1>4. /\ page \in Seq(Visible) /\ Len(page) <= PageLimit
      /\ \A k \in DOMAIN page : id[page[k]] \in Nat /\ id[page[k]] > cursor
      /\ \A k, l \in DOMAIN page : k < l => id[page[k]] < id[page[l]]
      /\ \A r \in Visible : id[r] > cursor =>
            \/ \E k \in DOMAIN page : page[k] = r
            \/ Len(page) = PageLimit /\ id[page[Len(page)]] < id[r]
  BY <1>1, <1>3, PageFacts
<1>5. Visible' = Visible
  BY <1>2 DEF Visible
<1>6. \A r \in Visible : id[r] \in Nat
  BY VisibleFacts
<1> DEFINE V == Visible
           n == Len(seen)
           m == Len(page)
<1>7. /\ n \in Nat /\ m \in Nat /\ DOMAIN seen = 1..n /\ DOMAIN page = 1..m
      /\ seen' \in Seq(V) /\ DOMAIN seen' = 1..(n + m)
      /\ \A k \in 1..n : seen'[k] = seen[k] /\ k \in 1..(n + m) /\ seen[k] \in V
      /\ \A k \in 1..m : seen'[n + k] = page[k] /\ n + k \in 1..(n + m) /\ page[k] \in V
      /\ \A k \in 1..(n + m) : k \in 1..n \/ (k - n \in 1..m /\ n + (k - n) = k)
  <2>1. seen \in Seq(V) /\ page \in Seq(V) /\ seen' = seen \o page
    BY <1>2, <1>3, <1>4
  <2> HIDE DEF V
  <2> QED BY <2>1
<1> HIDE DEF n, m, V
<1>8. ASSUME NEW k \in 1..(n + m), NEW l \in 1..(n + m), k < l
      PROVE  id[seen'[k]] < id[seen'[l]]
  <2>1. CASE k \in 1..n /\ l \in 1..n
    BY <1>3, <1>7, <1>8, <2>1 DEF PagesAscend, Ascending
  <2>2. CASE k \in 1..n /\ l - n \in 1..m
    <3>1. seen'[k] = seen[k] /\ seen'[l] = page[l - n]
      BY <1>7, <2>2
    <3>2. id[seen[k]] <= cursor /\ id[seen[k]] \in Nat /\ id[page[l - n]] \in Nat
          /\ id[page[l - n]] > cursor
      BY <1>3, <1>4, <1>6, <1>7, <2>2 DEF V
    <3> QED BY <1>3, <3>1, <3>2
  <2>3. CASE k - n \in 1..m /\ l - n \in 1..m
    <3>1. seen'[k] = page[k - n] /\ seen'[l] = page[l - n] /\ k - n < l - n
      BY <1>7, <1>8, <2>3
    <3>2. \A u, v \in 1..m : u < v => id[page[u]] < id[page[v]]
      BY <1>4, <1>7
    <3>3. id[page[k - n]] < id[page[l - n]]
      BY <2>3, <3>1, <3>2
    <3> QED BY <3>1, <3>3
  <2>4. ~(k - n \in 1..m /\ l \in 1..n)
    BY <1>7, <1>8
  <2> QED BY <1>7, <2>1, <2>2, <2>3, <2>4
<1>9. PagesAscend'
  BY <1>2, <1>7, <1>8 DEF PagesAscend, Ascending
<1>10. ASSUME NEW r \in owed
       PROVE  \/ \E k \in DOMAIN seen' : seen'[k] = r
              \/ m = PageLimit /\ id[page[m]] < id[r]
  <2>1. r \in Visible /\ id[r] \in Nat
    BY <1>3, <1>6
  <2>2. CASE id[r] <= cursor
    <3>1. PICK k \in 1..n : seen[k] = r
      BY <1>3, <1>7, <2>2
    <3>2. k \in DOMAIN seen' /\ seen'[k] = r
      BY <1>7, <3>1
    <3> QED BY <3>2
  <2>3. CASE id[r] > cursor
    <3>1. \/ \E k \in 1..m : page[k] = r
          \/ m = PageLimit /\ id[page[m]] < id[r]
      BY <1>4, <1>7, <2>1, <2>3 DEF m
    <3>2. \A k \in 1..m : n + k \in DOMAIN seen' /\ seen'[n + k] = page[k]
      BY <1>7
    <3> QED BY <3>1, <3>2
  <2> QED BY <1>3, <2>1, <2>2, <2>3
<1>11. CASE HasNext(page)
  <2>1. m > 0 /\ m \in 1..m
    BY <1>7, <1>11 DEF HasNext, m
  <2>2. cursor' = id[page[m]] /\ cursor' \in Nat /\ cursor' > cursor /\ pc' = "walk"
    BY <1>2, <1>4, <1>7, <1>11, <2>1 DEF m
  <2>3. \A k \in 1..(n + m) : id[seen'[k]] <= cursor'
    <3> SUFFICES ASSUME NEW k \in 1..(n + m) PROVE id[seen'[k]] <= cursor'
      OBVIOUS
    <3>1. seen'[n + m] = page[m] /\ n + m \in 1..(n + m)
      BY <1>7, <2>1
    <3>2. k = n + m \/ k < n + m
      BY <1>7
    <3>3. seen'[k] \in V /\ seen'[n + m] \in V
      BY <1>7, <3>1
    <3>4. id[seen'[k]] \in Nat /\ id[seen'[n + m]] \in Nat
      BY <1>6, <3>3 DEF V
    <3> QED BY <1>8, <2>2, <3>1, <3>2, <3>4
  <2>4. \A r \in owed : id[r] <= cursor' => \E k \in DOMAIN seen' : seen'[k] = r
    <3> SUFFICES ASSUME NEW r \in owed, id[r] <= cursor' PROVE \E k \in DOMAIN seen' : seen'[k] = r
      OBVIOUS
    <3>1. id[r] \in Nat
      BY <1>3, <1>6
    <3> QED BY <1>10, <2>2, <3>1
  <2> QED BY <1>2, <1>3, <1>5, <1>7, <1>9, <2>2, <2>3, <2>4 DEF WalkInv, SnapshotCovered, V
<1>12. CASE ~HasNext(page)
  <2>a. PageLimit \in Nat \ {0}
    BY LimitsAssumption
  <2>b. ~(Len(page) = PageLimit /\ Len(page) > 0)
    BY <1>12 DEF HasNext
  <2>1. m # PageLimit
    BY <2>a, <2>b DEF m
  <2>2. pc' = "walked" /\ cursor' = cursor
    BY <1>2, <1>12
  <2>3. SnapshotCovered'
    BY <1>2, <1>10, <2>1 DEF SnapshotCovered
  <2> QED BY <1>2, <1>3, <1>5, <1>7, <1>9, <2>2, <2>3 DEF WalkInv, V
<1> QED BY <1>11, <1>12

-----------------------------------------------------------------------------
(* The boundaries of the buckets. *)

\* A factor can be cancelled.
LEMMA Cancel ==
    ASSUME NEW d \in Nat \ {0}, NEW u \in Int, NEW v \in Int, d * u < d * v
    PROVE  u < v
<1> SUFFICES ASSUME v <= u PROVE FALSE
  OBVIOUS
<1>1. PICK w \in Nat : u = v + w
  <2>1. u - v \in Nat /\ u = v + (u - v)
    OBVIOUS
  <2> QED BY <2>1
<1>2. d * u = d * v + d * w
  BY <1>1
<1>3. d * w \in Nat /\ d * v \in Int
  OBVIOUS
<1> QED BY <1>2, <1>3

\* Quotient and remainder.
LEMMA Quotient ==
    ASSUME NEW x \in Nat, NEW d \in Nat \ {0}
    PROVE  /\ x \div d \in Nat /\ x % d \in Nat /\ x % d < d
           /\ x = d * (x \div d) + (x % d)
OBVIOUS

\* With fewer buckets than points between the first and the last every boundary
\* is beyond the one before it, also when it is rounded down where the product
\* is whole.
LEMMA NextBoundary ==
    ASSUME NEW d \in Nat \ {0}, NEW e \in Nat, e > d, NEW i \in Nat
    PROVE  /\ (i * e) \div d \in Nat /\ ((i + 1) * e) \div d \in Nat
           /\ (i * e) \div d + 1 <= ((i + 1) * e) \div d
           /\ ((i + 1) * e) % d = 0 => (i * e) \div d + 2 <= ((i + 1) * e) \div d
<1> DEFINE x == i * e
           y == (i + 1) * e
           q == x \div d
           s == y \div d
           r == x % d
           t == y % d
<1>1. x \in Nat /\ y \in Nat /\ y = x + e
  OBVIOUS
<1> HIDE DEF x, y
<1>2. q \in Nat /\ r \in Nat /\ x = d * q + r
  BY <1>1, Quotient
<1>3. s \in Nat /\ t \in Nat /\ t < d /\ y = d * s + t
  BY <1>1, Quotient
<1> HIDE DEF q, s, r, t
<1>4. d * q \in Nat /\ d * s \in Nat /\ d * (q + 1) = d * q + d /\ d * (s + 1) = d * s + d
  BY <1>2, <1>3
<1>5. d * (q + 1) < d * (s + 1)
  BY <1>1, <1>2, <1>3, <1>4
<1>6. q + 1 \in Int /\ s + 1 \in Int /\ s \in Int
  BY <1>2, <1>3
<1>7. q + 1 < s + 1
  BY <1>5, <1>6, Cancel
<1>8. ASSUME t = 0 PROVE q + 1 < s
  <2>1. d * (q + 1) < d * s
    BY <1>1, <1>2, <1>3, <1>4, <1>8
  <2> QED BY <2>1, <1>6, Cancel
<1>9. /\ q + 1 <= s
      /\ t = 0 => q + 2 <= s
  BY <1>2, <1>3, <1>7, <1>8
<1> QED BY <1>2, <1>3, <1>9 DEF q, s, t, x, y

\* No boundary within the loop is beyond the last point but one.
LEMMA LastBoundary ==
    ASSUME NEW d \in Nat \ {0}, NEW e \in Nat, NEW i \in 0..d
    PROVE  (i * e) \div d <= e
<1> DEFINE x == i * e
           q == x \div d
           r == x % d
<1>1. x \in Nat /\ x <= d * e
  <2>1. PICK k \in Nat : d = i + k
    <3>1. d - i \in Nat /\ d = i + (d - i)
      OBVIOUS
    <3> QED BY <3>1
  <2>2. i \in Nat
    OBVIOUS
  <2>3. i * e \in Nat /\ k * e \in Nat /\ (i + k) * e = i * e + k * e
    BY <2>1, <2>2
  <2>4. x \in Nat /\ (i + k) * e = x + k * e
    BY <2>3
  <2> HIDE DEF x
  <2> QED BY <2>1, <2>3, <2>4
<1> HIDE DEF x
<1>2. q \in Nat /\ r \in Nat /\ r < d /\ x = d * q + r
  BY <1>1, Quotient
<1> HIDE DEF q, r
<1>3. d * q < d * (e + 1)
  <2>1. d * q \in Nat /\ d * e \in Nat /\ d * (e + 1) = d * e + d
    BY <1>2
  <2> QED BY <1>1, <1>2, <2>1
<1>4. q < e + 1
  <2>1. q \in Int /\ e + 1 \in Int
    BY <1>2
  <2> QED BY <1>3, <2>1, Cancel
<1> QED BY <1>2, <1>4 DEF q, x

\* What is known of a series that is being downsampled.
Sampling ==
    /\ Len(points) \in Nat /\ threshold \in Nat
    /\ threshold >= 3 /\ threshold < Len(points)
    /\ low \subseteq {i \in 1..(threshold - 1) :
                          (i * (Len(points) - 2)) % (threshold - 2) = 0}

\* The boundaries begin at the first point and ascend to the last but one.
LEMMA Bounds ==
    ASSUME Sampling
    PROVE  /\ Bound(0) = 1
           /\ \A i \in 0..(threshold - 2) : Bound(i) \in Nat /\ Bound(i) <= Len(points) - 1
           /\ \A i \in 0..(threshold - 3) : Bound(i) < Bound(i + 1)
<1> DEFINE d == threshold - 2
           e == Len(points) - 2
<1>1. d \in Nat \ {0} /\ e \in Nat /\ e > d
  BY DEF Sampling
<1>2. \A i \in low : i \in 1..(threshold - 1) /\ (i * e) % d = 0
  BY DEF Sampling
<1>3. \A i : Bound(i) = (i * e) \div d - (IF i \in low THEN 1 ELSE 0) + 1
  BY DEF Bound
<1>4. \A i \in 0..(threshold - 2) : i \in Nat /\ i \in 0..d
  BY DEF Sampling
<1>5. \A i \in 0..(threshold - 3) : i \in Nat /\ i \in 0..d /\ i + 1 \in 0..d
  BY DEF Sampling
<1>6. 0 \notin low
  BY <1>2
<1> HIDE DEF d, e
<1>7. Bound(0) = 1
  <2>1. 0 * e = 0 /\ 0 \div d = 0
    BY <1>1
  <2> QED BY <1>3, <1>6, <2>1
<1>8. ASSUME NEW i \in Nat
      PROVE  (i * e) \div d \in Nat /\ Bound(i) \in Int /\ Bound(i) <= (i * e) \div d + 1
  <2>1. (i * e) \div d \in Nat
    BY <1>1, NextBoundary
  <2> QED BY <1>3, <2>1
<1>9. ASSUME NEW i \in Nat PROVE Bound(i) < Bound(i + 1)
  <2>1. /\ (i * e) \div d \in Nat /\ ((i + 1) * e) \div d \in Nat
        /\ (i * e) \div d + 1 <= ((i + 1) * e) \div d
        /\ ((i + 1) * e) % d = 0 => (i * e) \div d + 2 <= ((i + 1) * e) \div d
    BY <1>1, NextBoundary
  <2>2. CASE i + 1 \in low
    <3>1. ((i + 1) * e) % d = 0
      BY <1>2, <2>2
    <3>2. Bound(i + 1) = ((i + 1) * e) \div d
      BY <1>3, <2>1, <2>2
    <3> QED BY <1>8, <2>1, <3>1, <3>2
  <2>3. CASE i + 1 \notin low
    <3>1. Bound(i + 1) = ((i + 1) * e) \div d + 1
      BY <1>3, <2>1, <2>3
    <3> QED BY <1>8, <2>1, <3>1
  <2> QED BY <2>2, <2>3
<1>10. ASSUME NEW i \in 0..d PROVE Bound(i) \in Nat /\ Bound(i) <= e + 1
  <2>1. (i * e) \div d <= e
    BY <1>1, LastBoundary
  <2>2. i \in Nat
    BY <1>1
  <2>3. (i * e) \div d \in Nat /\ Bound(i) \in Int /\ Bound(i) <= (i * e) \div d + 1
    BY <1>8, <2>2
  <2>4. Bound(i) >= 0
    BY <1>3, <2>3
  <2> QED BY <1>1, <2>1, <2>3, <2>4
<1>11. Len(points) - 1 = e + 1
  BY DEF Sampling, e
<1>12. \A i \in 0..(threshold - 2) : Bound(i) \in Nat /\ Bound(i) <= Len(points) - 1
  BY <1>4, <1>10, <1>11
<1>13. \A i \in 0..(threshold - 3) : Bound(i) < Bound(i + 1)
  BY <1>5, <1>9
<1> QED BY <1>7, <1>12, <1>13

-----------------------------------------------------------------------------
(* The points that are selected. *)

\* A set of numbers has a least one.
LEMMA LeastOf ==
    ASSUME NEW T, T \subseteq Nat, T # {}
    PROVE  Min(T) \in T /\ \A y \in T : Min(T) <= y
<1> DEFINE Less == OpToRel(<, Nat)
<1>1. IsWellFoundedOn(Less, Nat)
  BY NatLessThanWellFounded
<1>2. \A m, n \in Nat : m < n => <<m, n>> \in Less
  BY DEF OpToRel
<1> HIDE DEF Less
<1>3. PICK n \in T : \A m \in T : ~(<<m, n>> \in Less)
  BY <1>1, WFMin
<1>4. \A m \in T : n <= m
  <2> SUFFICES ASSUME NEW m \in T PROVE n <= m
    OBVIOUS
  <2>1. m \in Nat /\ n \in Nat
    OBVIOUS
  <2>2. ~(m < n)
    BY <1>2, <1>3, <2>1
  <2> QED BY <2>1, <2>2
<1> QED BY <1>4 DEF Min

\* The point selected from a bucket is one of it.
LEMMA BestInBucket ==
    ASSUME Sampling, NEW i \in 0..(threshold - 3)
    PROVE  Best(i) \in Nat /\ Bound(i) < Best(i) /\ Best(i) <= Bound(i + 1)
<1>1. /\ Bound(i) \in Nat /\ Bound(i + 1) \in Nat
      /\ Bound(i) < Bound(i + 1) /\ Bound(i + 1) <= Len(points) - 1
  <2>1. i \in 0..(threshold - 2) /\ i + 1 \in 0..(threshold - 2)
    BY DEF Sampling
  <2> QED BY <2>1, Bounds
<1>2. Bucket(i) = (Bound(i) + 1)..Bound(i + 1)
  <2>1. ~(Bound(i + 1) > Len(points) - 1)
    BY <1>1 DEF Sampling
  <2> QED BY <2>1 DEF Bucket
<1>3. PICK best : /\ best \subseteq Bucket(i)
                  /\ Best(i) = IF best = {} THEN Bound(i) + 1 ELSE Min(best)
  <2> DEFINE third == IF NextBucket(i) = {} THEN {Len(points)} ELSE NextBucket(i)
             best == {k \in Bucket(i) : \A l \in Bucket(i) : Area(l, third) <= Area(k, third)}
  <2>1. Best(i) = IF best = {} THEN Bound(i) + 1 ELSE Min(best)
    BY DEF Best
  <2>2. best \subseteq Bucket(i)
    OBVIOUS
  <2> HIDE DEF best
  <2> QED BY <2>1, <2>2
<1>4. Best(i) \in (Bound(i) + 1)..Bound(i + 1)
  <2>1. CASE best = {}
    BY <1>1, <1>3, <2>1
  <2>2. CASE best # {}
    <3>1. best \subseteq Nat
      BY <1>1, <1>2, <1>3
    <3>2. Min(best) \in best
      BY <2>2, <3>1, LeastOf
    <3> QED BY <1>2, <1>3, <2>2, <3>2
  <2> QED BY <2>1, <2>2
<1> QED BY <1>1, <1>4

\* A longer list still ascends when what is appended is beyond its last.
LEMMA AppendAscends ==
    ASSUME NEW P \in Nat, NEW s \in Seq(1..P), Ascending(s),
           NEW x \in 1..P, Last(s, 0) < x
    PROVE  /\ Append(s, x) \in Seq(1..P) /\ Ascending(Append(s, x))
           /\ Len(Append(s, x)) = Len(s) + 1 /\ Last(Append(s, x), 0) = x
           /\ \A k \in 1..Len(s) : Append(s, x)[k] = s[k]
<1> DEFINE n == Len(s)
           t == Append(s, x)
<1>1. /\ n \in Nat /\ DOMAIN s = 1..n /\ \A k \in 1..n : s[k] \in 1..P
      /\ t \in Seq(1..P) /\ Len(t) = n + 1 /\ DOMAIN t = 1..(n + 1)
      /\ t[n + 1] = x /\ \A k \in 1..n : t[k] = s[k]
  OBVIOUS
<1>2. Last(t, 0) = x
  <2>1. t # <<>>
    BY <1>1
  <2> HIDE DEF t
  <2> QED BY <1>1, <2>1 DEF Last
<1> HIDE DEF n, t
<1>3. \A k, l \in 1..n : k < l => s[k] < s[l]
  BY <1>1 DEF Ascending
<1>4. n > 0 => s[n] < x /\ n \in 1..n
  <2>1. n > 0 => s # <<>>
    BY DEF n
  <2> QED BY <1>1, <2>1 DEF Last, n
<1>5. ASSUME NEW k \in 1..(n + 1), NEW l \in 1..(n + 1), k < l PROVE t[k] < t[l]
  <2>1. k \in 1..n /\ (l \in 1..n \/ l = n + 1)
    BY <1>1, <1>5
  <2>2. CASE l \in 1..n
    BY <1>1, <1>3, <1>5, <2>1, <2>2
  <2>3. CASE l = n + 1
    <3>1. n > 0 /\ (k = n \/ k < n)
      BY <1>1, <2>1
    <3>2. s[k] \in 1..P /\ s[n] \in 1..P /\ (s[k] = s[n] \/ s[k] < s[n])
      BY <1>1, <1>3, <1>4, <2>1, <3>1
    <3>3. t[k] = s[k] /\ t[l] = x /\ s[n] < x
      BY <1>1, <1>4, <2>1, <2>3, <3>1
    <3> QED BY <3>2, <3>3
  <2> QED BY <2>1, <2>2, <2>3
<1>6. Ascending(t)
  BY <1>1, <1>5 DEF Ascending
<1> QED BY <1>1, <1>2, <1>6 DEF n, t

\* The rows of the response do not depend on the table or on a walk.
LEMMA SampleKept ==
    ASSUME SampleInv, UNCHANGED <<sample, resp>>,
           pc' = pc \/ (pc \in {"idle", "walk"} /\ pc' \in {"walk", "walked"})
    PROVE  SampleInv'
<1>1. /\ points' = points /\ value' = value /\ threshold' = threshold /\ low' = low
      /\ out' = out /\ j' = j /\ mapped' = mapped /\ keep' = keep
  BY DEF sample, resp
<1>2. \A k : X(k)' = X(k) /\ Bound(k)' = Bound(k)
  BY <1>1 DEF X, Trial, Bound
<1>3. OneRunExact'
  <2>1. TrialsAscend' = TrialsAscend
    BY <1>1 DEF TrialsAscend, Ascending, X, Trial
  <2>2. OneRunExact
    BY DEF SampleInv
  <2>3. pc' = "answered" => pc = "answered"
    OBVIOUS
  <2>4. (pc = "answered" /\ out # <<>> /\ TrialsAscend) => keep = out
    BY <2>2 DEF OneRunExact, TrialsAscend
  <2>5. ((pc = "answered" /\ out # <<>> /\ TrialsAscend) => keep = out)'
    BY <1>1, <2>1, <2>3, <2>4
  <2> QED BY <2>5 DEF OneRunExact, TrialsAscend
<1>4. TrialsAscend' = TrialsAscend
  BY <1>1 DEF TrialsAscend, Ascending, X, Trial
<1>5. Ascending(out)' /\ Ascending(keep)'
  BY <1>1 DEF SampleInv, SampleType, Ascending
<1>6. BucketsInv' = BucketsInv
  BY <1>1 DEF BucketsInv
<1>7. SampleType'
  BY <1>1, <1>5 DEF SampleInv, SampleType
<1>8. SelectInv'
  BY <1>1, <1>2, <1>6 DEF SampleInv, SelectInv
<1>9. (pc = "map" => MapInv)'
  <2>1. MapInv' = MapInv
    BY <1>1, <1>4 DEF MapInv, Last
  <2> QED BY <2>1 DEF SampleInv
<1> QED BY <1>3, <1>7, <1>8, <1>9 DEF SampleInv

\* ORDER BY recorded_at, trial lists rows.
LEMMA OrderedByTime ==
    ASSUME TableInv
    PROVE  Ordered(Visible, Earlier) \in Seq(Rows)
<1> DEFINE S == Visible
           q == Ordered(S, Earlier)
           e(k) == CHOOSE r \in S : Cardinality({s \in S : Earlier(s, r)}) = k - 1
<1>1. /\ S \in SUBSET Rows /\ IsFiniteSet(S)
      /\ \A r \in S : id[r] \in Nat /\ Trial(r) \in Nat /\ At(r) \in Nat
      /\ \A r, s \in S : r # s => id[r] # id[s]
  BY VisibleFacts, RowFacts
<1>2. q = [k \in 1..Cardinality(S) |-> e(k)]
  BY DEF Ordered
<1> HIDE DEF S, q
<1>3. PICK R : R = {p \in S \X S : Earlier(p[1], p[2])}
  OBVIOUS
<1>4. \A r, s \in S : <<r, s>> \in R <=> Earlier(r, s)
  BY <1>3
<1>5. TotalOrder(R, S)
  <2>1. \A r \in S : <<r, r>> \notin R
    BY <1>1, <1>4 DEF Earlier
  <2>2. ASSUME NEW r \in S, NEW s \in S, NEW t \in S, <<r, s>> \in R, <<s, t>> \in R
        PROVE  <<r, t>> \in R
    <3>1. Earlier(r, s) /\ Earlier(s, t)
      BY <1>4, <2>2
    <3>2. Earlier(r, t)
      BY <1>1, <3>1 DEF Earlier
    <3> QED BY <1>4, <3>2
  <2>3. ASSUME NEW r \in S, NEW s \in S, r # s PROVE <<r, s>> \in R \/ <<s, r>> \in R
    <3>1. Earlier(r, s) \/ Earlier(s, r)
      BY <1>1, <2>3 DEF Earlier
    <3> QED BY <1>4, <3>1
  <2> QED BY <2>1, <2>2, <2>3 DEF TotalOrder
<1>6. \A r \in S : Below(R, S, r) = {s \in S : Earlier(s, r)}
  BY <1>4 DEF Below
<1>7. ASSUME NEW k \in 1..Cardinality(S), \E r \in S : Cardinality(Below(R, S, r)) = k - 1
      PROVE  q[k] \in S /\ Cardinality(Below(R, S, q[k])) = k - 1
  <2>1. \E r \in S : Cardinality({s \in S : Earlier(s, r)}) = k - 1
    BY <1>6, <1>7
  <2>2. e(k) \in S /\ Cardinality({s \in S : Earlier(s, e(k))}) = k - 1
    BY <2>1
  <2>3. q[k] = e(k)
    BY <1>2
  <2> HIDE DEF e
  <2> QED BY <1>6, <2>2, <2>3
<1> HIDE DEF e
<1>8. q = [k \in 1..Cardinality(S) |-> q[k]]
  BY <1>2
<1>9. ByRank(q, R, S)
  BY <1>7, <1>8 DEF ByRank
<1>10. q \in Seq(S)
  BY <1>1, <1>5, <1>9, Ranked
<1>11. q \in Seq(Rows)
  BY <1>1, <1>10
<1> QED BY <1>11 DEF q, S

\* The query begins a sample at its first point, or answers with every row.
LEMMA QueryTrialsStep ==
    ASSUME TableInv, SampleInv, NEW n \in Thresholds, QueryTrials(n)
    PROVE  SampleInv'
<1> DEFINE q == Ordered(Visible, Earlier)
           m == IF Len(q) < TrialsLimit THEN Len(q) ELSE TrialsLimit
           P == Len(points')
<1>1. /\ pc = "idle" /\ points' = SubSeq(q, 1, m) /\ threshold' = n
      /\ mapped' = mapped /\ j' = j
      /\ IF n > 0 /\ n < P
         THEN /\ pc' = "lttb" /\ out' = <<1>> /\ keep' = <<>>
              /\ low' \in SUBSET {i \in 1..(n - 1) : MayRoundDown /\ (i * (P - 2)) % (n - 2) = 0}
         ELSE /\ pc' = "answered" /\ keep' = [k \in DOMAIN points' |-> k] /\ out' = out
  BY DEF QueryTrials, Limited
<1>2. out = <<>> /\ keep = <<>> /\ mapped = 0 /\ j = 1
  BY <1>1 DEF SampleInv, SelectInv
<1>3. q \in Seq(Rows)
  BY OrderedByTime
<1> HIDE DEF q
<1>4. n \in Nat /\ (n = 0 \/ n >= 3) /\ TrialsLimit \in Nat
  BY LimitsAssumption
<1>5. points' \in Seq(Rows) /\ P \in Nat /\ DOMAIN points' = 1..P
  <2>1. m \in 0..Len(q)
    BY <1>3, <1>4
  <2> HIDE DEF m
  <2>2. SubSeq(q, 1, m) \in Seq(Rows)
    BY <1>3, <2>1
  <2> QED BY <1>1, <2>2
<1> HIDE DEF P
<1>6. CASE n > 0 /\ n < P
  <2>1. /\ pc' = "lttb" /\ out' = <<1>> /\ keep' = <<>> /\ n >= 3 /\ 1 \in 1..P
        /\ low' \subseteq {i \in 1..(n - 1) : (i * (P - 2)) % (n - 2) = 0}
    BY <1>1, <1>4, <1>5, <1>6
  <2>2. Sampling'
    BY <1>1, <1>4, <1>5, <1>6, <2>1 DEF Sampling, P
  <2>3. (Bound(0))' = 1
    <3>1. 0 \notin low'
      BY <2>1
    <3>2. PICK d : d = n - 2
      OBVIOUS
    <3>3. 0 * (P - 2) = 0 /\ d \in Nat /\ d > 0
      BY <1>4, <1>5, <2>1, <3>2
    <3>4. 0 \div d = 0
      BY <3>3
    <3>5. (0 * (P - 2)) \div (n - 2) = 0
      BY <3>2, <3>3, <3>4
    <3>6. Bound(0)' = (0 * (P - 2)) \div (n - 2) - 0 + 1
      BY <1>1, <3>1 DEF Bound, P
    <3> QED BY <3>5, <3>6
  <2>4. /\ out' \in Seq(DOMAIN points') /\ Ascending(out')
        /\ keep' \in Seq(DOMAIN points') /\ Ascending(keep')
        /\ Len(out') = 1 /\ out'[1] = 1
    BY <1>5, <2>1 DEF Ascending
  <2>5. BucketsInv'
    <3>1. Len(out') >= 1 /\ out'[1] = 1
      BY <2>4
    <3> QED BY <2>2, <3>1 DEF Sampling, BucketsInv
  <2>6. OneRunExact'
    BY <2>1 DEF OneRunExact
  <2>7. (Len(out) < threshold /\ out[Len(out)] <= Bound(Len(out) - 1))'
    <3>1. Len(out)' - 1 = 0
      BY <2>4
    <3>2. (Bound(Len(out) - 1))' = (Bound(0))'
      BY <3>1 DEF Bound
    <3>3. Len(out') < threshold' /\ out'[Len(out')] = 1
      BY <1>1, <1>4, <2>1, <2>4
    <3> QED BY <2>3, <3>2, <3>3
  <2>8. SampleType'
    BY <1>1, <1>4, <1>5, <2>1, <2>4 DEF SampleType
  <2>9. SelectInv'
    BY <1>1, <1>2, <2>1, <2>5, <2>7 DEF SelectInv
  <2> QED BY <2>1, <2>6, <2>8, <2>9 DEF SampleInv
<1>7. CASE ~(n > 0 /\ n < P)
  <2>1. pc' = "answered" /\ keep' = [k \in 1..P |-> k] /\ out' = <<>>
    BY <1>1, <1>2, <1>5, <1>7
  <2>2. /\ out' \in Seq(DOMAIN points') /\ Ascending(out')
        /\ keep' \in Seq(DOMAIN points') /\ Ascending(keep')
    <3>1. keep' \in [1..P -> 1..P] /\ DOMAIN keep' = 1..P
      BY <2>1
    <3>2. keep' \in Seq(1..P)
      BY <1>5, <3>1
    <3>3. Ascending(keep')
      BY <2>1, <3>1 DEF Ascending
    <3>4. out' \in Seq(1..P) /\ Ascending(out')
      BY <2>1 DEF Ascending
    <3> QED BY <1>5, <3>2, <3>3, <3>4
  <2>3. OneRunExact'
    BY <2>1 DEF OneRunExact
  <2>4. SampleType'
    BY <1>1, <1>4, <1>5, <2>1, <2>2 DEF SampleType
  <2>5. SelectInv'
    BY <2>1 DEF SelectInv
  <2> QED BY <2>1, <2>3, <2>4, <2>5 DEF SampleInv
<1> QED BY <1>6, <1>7

\* Selecting from a bucket, and the last point after them.
LEMMA SelectStep ==
    ASSUME SampleInv, Select
    PROVE  SampleInv'
<1> DEFINE P == Len(points)
           n == Len(out)
<1>1. /\ pc = "lttb" /\ points' = points /\ threshold' = threshold /\ low' = low
      /\ j' = j /\ mapped' = mapped /\ keep' = keep
      /\ IF n - 1 < threshold - 2
         THEN out' = Append(out, Best(n - 1)) /\ pc' = pc
         ELSE out' = Append(out, P) /\ pc' = "map"
  BY DEF Select, resp
<1>2. /\ points \in Seq(Rows) /\ P \in Nat /\ DOMAIN points = 1..P
      /\ out \in Seq(1..P) /\ Ascending(out) /\ n \in Nat /\ n >= 1 /\ out[1] = 1
      /\ threshold \in Nat /\ threshold >= 3 /\ threshold < P
      /\ n < threshold /\ out[n] <= Bound(n - 1) /\ out[n] \in 1..P
      /\ Last(out, 0) = out[n]
      /\ keep = <<>> /\ mapped = 0 /\ j = 1 /\ keep \in Seq(DOMAIN points)
  <2>1. /\ points \in Seq(Rows) /\ P \in Nat /\ DOMAIN points = 1..P
        /\ threshold \in Nat /\ threshold >= 3 /\ threshold < P
    BY <1>1 DEF SampleInv, SampleType, SelectInv, BucketsInv
  <2>2. out \in Seq(1..P) /\ n >= 1 /\ n < threshold /\ out[n] <= Bound(n - 1) /\ out[1] = 1
        /\ keep = <<>> /\ mapped = 0 /\ j = 1 /\ Ascending(out)
    BY <1>1, <2>1 DEF SampleInv, SampleType, SelectInv, BucketsInv
  <2>3. n \in Nat /\ n \in 1..n /\ out[n] \in 1..P /\ out # <<>>
    BY <2>2
  <2> QED BY <2>1, <2>2, <2>3 DEF Last
<1>3. Sampling
  BY <1>1, <1>2 DEF Sampling, SampleInv, SelectInv, BucketsInv
<1>4. n - 1 \in 0..(threshold - 2)
  BY <1>2
<1>5. Bound(n - 1) \in Nat /\ Bound(n - 1) <= P - 1
  BY <1>3, <1>4, Bounds
<1>6. Sampling'
  BY <1>1, <1>3 DEF Sampling
<1>7. Len(out') >= 1 /\ out'[1] = 1 => BucketsInv'
  BY <1>6 DEF Sampling, BucketsInv
<1>8. Ascending(keep') /\ keep' \in Seq(DOMAIN points')
  BY <1>1, <1>2 DEF Ascending
<1>9. OneRunExact'
  BY <1>1 DEF OneRunExact
<1> HIDE DEF n, P
<1>10. CASE n - 1 < threshold - 2
  <2> DEFINE b == Best(n - 1)
  <2>1. n - 1 \in 0..(threshold - 3)
    BY <1>2, <1>10
  <2>2. b \in Nat /\ Bound(n - 1) < b /\ b <= Bound(n - 1 + 1)
    BY <1>3, <2>1, BestInBucket
  <2>3. n - 1 + 1 = n /\ n \in 0..(threshold - 2)
    BY <1>2, <1>10
  <2>4. Bound(n) \in Nat /\ Bound(n) <= P - 1 /\ b <= Bound(n)
    BY <1>3, <2>2, <2>3, Bounds DEF P
  <2> HIDE DEF b
  <2>5. b \in 1..P /\ Last(out, 0) < b
    BY <1>2, <1>5, <2>2, <2>4
  <2>6. out' = Append(out, b) /\ pc' = "lttb"
    BY <1>1, <1>10 DEF b
  <2>7. /\ out' \in Seq(1..P) /\ Ascending(out') /\ Len(out') = n + 1
        /\ \A k \in 1..n : out'[k] = out[k]
    BY <1>2, <2>5, <2>6, AppendAscends DEF n
  <2>8. out'[n + 1] = b
    BY <1>2, <2>6 DEF n
  <2>9. out'[1] = 1
    BY <1>2, <2>7
  <2>10. Len(out') - 1 = n
    BY <1>2, <2>7
  <2>11. (Len(out) < threshold /\ out[Len(out)] <= Bound(Len(out) - 1))'
    <3>1. (Bound(Len(out) - 1))' = Bound(n)
      BY <1>1, <2>10 DEF Bound
    <3> QED BY <1>1, <1>2, <1>10, <2>4, <2>7, <2>8, <2>10, <3>1
  <2>12. SampleType'
    BY <1>1, <1>2, <1>8, <2>6, <2>7 DEF SampleType
  <2>13. BucketsInv'
    BY <1>2, <1>7, <2>7, <2>9
  <2>14. SelectInv'
    BY <1>1, <1>2, <2>6, <2>11, <2>13 DEF SelectInv
  <2> QED BY <1>9, <2>6, <2>12, <2>14 DEF SampleInv
<1>11. CASE ~(n - 1 < threshold - 2)
  <2>1. out' = Append(out, P) /\ pc' = "map" /\ n + 1 = threshold
    BY <1>1, <1>2, <1>11
  <2>2. P \in 1..P /\ Last(out, 0) < P
    BY <1>2, <1>5
  <2>3. /\ out' \in Seq(1..P) /\ Ascending(out') /\ Len(out') = n + 1
        /\ \A k \in 1..n : out'[k] = out[k]
    BY <1>2, <2>1, <2>2, AppendAscends DEF n
  <2>4. out'[n + 1] = P
    BY <1>2, <2>1 DEF n
  <2>5. out'[1] = 1
    BY <1>2, <2>3
  <2>6. Last(keep', 0) = 0 /\ SubSeq(out', 1, 0) = <<>>
    BY <1>1, <1>2 DEF Last
  <2>7. SampleType'
    BY <1>1, <1>2, <1>8, <2>1, <2>3 DEF SampleType
  <2>8. BucketsInv'
    BY <1>2, <1>7, <2>3, <2>5
  <2>9. SelectInv'
    BY <2>1, <2>8 DEF SelectInv
  <2>10. MapInv'
    BY <1>1, <1>2, <2>1, <2>3, <2>4, <2>6 DEF MapInv, P
  <2> QED BY <1>9, <2>7, <2>9, <2>10 DEF SampleInv
<1> QED BY <1>10, <1>11

\* A survivor is found behind the one before it, and is the point selected where
\* trial numbers ascend.
LEMMA MapBackStep ==
    ASSUME SampleInv, MapBack
    PROVE  SampleInv'
<1> DEFINE P == Len(points)
           n == Len(out)
           t == out[mapped + 1]
           found == {k \in DOMAIN points : k >= j /\ X(k) = X(t)}
           g == Min(found)
<1>1. /\ pc = "map" /\ points' = points /\ value' = value /\ threshold' = threshold
      /\ low' = low /\ out' = out /\ mapped' = mapped + 1
      /\ IF found = {} THEN j' = P + 1 /\ keep' = keep
                       ELSE j' = g + 1 /\ keep' = Append(keep, g)
      /\ pc' = IF mapped' = n THEN "answered" ELSE pc
  BY DEF MapBack, sample
<1>2. /\ points \in Seq(Rows) /\ P \in Nat /\ DOMAIN points = 1..P /\ threshold \in Nat
      /\ out \in Seq(1..P) /\ Ascending(out) /\ n \in Nat /\ DOMAIN out = 1..n
      /\ keep \in Seq(1..P) /\ Ascending(keep)
      /\ n = threshold /\ out[threshold] = P
      /\ mapped \in 0..(n - 1) /\ j \in Nat /\ Last(keep, 0) < j
      /\ TrialsAscend => keep = SubSeq(out, 1, mapped) /\ j = Last(keep, 0) + 1
  <2>1. /\ points \in Seq(Rows) /\ P \in Nat /\ DOMAIN points = 1..P /\ threshold \in Nat
    BY DEF SampleInv, SampleType
  <2>2. /\ out \in Seq(1..P) /\ Ascending(out)
        /\ keep \in Seq(1..P) /\ Ascending(keep)
    BY <2>1 DEF SampleInv, SampleType
  <2>3. MapInv
    BY <1>1 DEF SampleInv
  <2> QED BY <2>1, <2>2, <2>3 DEF MapInv
<1>3. BucketsInv /\ BucketsInv' = BucketsInv
  <2>1. BucketsInv
    BY <1>1 DEF SampleInv, SelectInv
  <2> QED BY <1>1, <2>1 DEF BucketsInv
<1>4. t \in 1..P /\ mapped + 1 \in 1..n
  BY <1>2
<1>5. TrialsAscend' = TrialsAscend
  BY <1>1 DEF TrialsAscend, Ascending, X, Trial
<1> HIDE DEF P, n
<1>6. found # {} => g \in 1..P /\ g >= j /\ X(g) = X(t)
  <2>1. found \subseteq 1..P /\ found \subseteq Nat
    BY <1>2
  <2>2. \A k \in found : k >= j /\ X(k) = X(t)
    OBVIOUS
  <2> HIDE DEF found, t
  <2> QED BY <2>1, <2>2, LeastOf
<1>7. Last(keep, 0) \in 0..P
  BY <1>2 DEF Last
<1> HIDE DEF g
<1>8. ASSUME TrialsAscend
      PROVE  found # {} /\ g = t /\ Last(keep, 0) < t
  <2>1. \A k, l \in 1..P : k < l => X(k) < X(l)
    BY <1>2, <1>8 DEF TrialsAscend, Ascending
  <2>2. Last(keep, 0) < t
    <3>1. CASE mapped = 0
      <4>1. keep = <<>>
        BY <1>2, <1>8, <3>1
      <4> QED BY <1>4, <4>1 DEF Last
    <3>2. CASE mapped # 0
      <4>1. mapped \in 1..n /\ mapped \in Nat /\ mapped < mapped + 1
        BY <1>2, <3>2
      <4>2. keep = SubSeq(out, 1, mapped)
        BY <1>2, <1>8
      <4>3. Len(keep) = mapped /\ keep[mapped] = out[mapped]
        BY <1>2, <4>1, <4>2 DEF n
      <4>4. keep # <<>>
        BY <4>1, <4>3
      <4>5. out[mapped] < out[mapped + 1]
        BY <1>2, <1>4, <4>1 DEF Ascending
      <4> QED BY <4>3, <4>4, <4>5 DEF Last
    <3> QED BY <3>1, <3>2
  <2>3. t >= j
    BY <1>2, <1>4, <1>7, <1>8, <2>2
  <2>4. t \in found
    BY <1>2, <1>4, <2>3
  <2>5. g \in 1..P /\ X(g) = X(t)
    BY <1>6, <2>4
  <2>6. \A k \in 1..P : X(k) \in Int
    <3> SUFFICES ASSUME NEW k \in 1..P PROVE X(k) \in Int
      OBVIOUS
    <3>1. points[k] \in Rows
      BY <1>2
    <3>2. Trial(points[k]) \in Nat
      BY <3>1, RowFacts
    <3> QED BY <3>2 DEF X
  <2> HIDE DEF t
  <2>7. g = t
    <3>1. g < t => X(g) < X(t)
      BY <1>4, <2>1, <2>5
    <3>2. t < g => X(t) < X(g)
      BY <1>4, <2>1, <2>5
    <3>3. X(g) \in Int /\ X(t) \in Int
      BY <1>4, <2>5, <2>6
    <3> QED BY <1>4, <2>5, <3>1, <3>2, <3>3
  <2> QED BY <2>2, <2>4, <2>7
<1> HIDE DEF found
<1>9. CASE found = {}
  <2>1. j' = P + 1 /\ keep' = keep /\ ~TrialsAscend
    BY <1>1, <1>8, <1>9
  <2>2. /\ keep' \in Seq(1..P) /\ Ascending(keep') /\ j' \in Nat /\ Last(keep', 0) < j'
    BY <1>2, <1>7, <2>1
  <2> HIDE DEF t
  <2>3. OneRunExact'
    BY <1>5, <2>1 DEF OneRunExact, TrialsAscend
  <2>4. SampleType'
    BY <1>1, <1>2, <2>2 DEF SampleType, P, n
  <2>5. SelectInv'
    BY <1>1, <1>3 DEF SelectInv
  <2>6. pc' = "map" => MapInv'
    <3> SUFFICES ASSUME pc' = "map" PROVE MapInv'
      OBVIOUS
    <3>1. mapped + 1 # n
      BY <1>1
    <3>2. mapped' \in 0..(n - 1)
      BY <1>1, <1>2, <3>1
    <3> QED BY <1>1, <1>2, <1>5, <2>1, <2>2, <3>2 DEF MapInv, P, n
  <2> QED BY <2>3, <2>4, <2>5, <2>6 DEF SampleInv
<1>10. CASE found # {}
  <2>1. /\ j' = g + 1 /\ keep' = Append(keep, g) /\ g \in 1..P /\ Last(keep, 0) < g
    BY <1>1, <1>2, <1>6, <1>7, <1>10
  <2>2. /\ keep' \in Seq(1..P) /\ Ascending(keep') /\ Last(keep', 0) = g
        /\ Len(keep') = Len(keep) + 1 /\ \A k \in 1..Len(keep) : keep'[k] = keep[k]
    BY <1>2, <2>1, AppendAscends
  <2>3. ASSUME TrialsAscend PROVE keep' = SubSeq(out, 1, mapped + 1)
    <3>1. keep = SubSeq(out, 1, mapped) /\ g = out[mapped + 1]
      BY <1>2, <1>8, <2>3
    <3>2. keep' = Append(SubSeq(out, 1, mapped), out[mapped + 1])
      BY <2>1, <3>1
    <3>3. mapped \in Nat /\ mapped + 1 \in 1..Len(out) /\ out \in Seq(1..P)
      BY <1>2, <1>4 DEF n
    <3>4. Append(SubSeq(out, 1, mapped), out[mapped + 1]) = SubSeq(out, 1, mapped + 1)
      BY <3>3
    <3> QED BY <3>2, <3>4
  <2> HIDE DEF t
  <2>4. SampleType'
    BY <1>1, <1>2, <2>2 DEF SampleType, P, n
  <2>5. SelectInv'
    BY <1>1, <1>3 DEF SelectInv
  <2>6. pc' = "map" => MapInv'
    <3> SUFFICES ASSUME pc' = "map" PROVE MapInv'
      OBVIOUS
    <3>1. mapped + 1 # n
      BY <1>1
    <3>2. mapped' \in 0..(n - 1)
      BY <1>1, <1>2, <3>1
    <3>3. j' \in Nat /\ Last(keep', 0) < j' /\ j' = Last(keep', 0) + 1
      BY <2>1, <2>2
    <3> QED BY <1>1, <1>2, <1>5, <2>3, <3>2, <3>3 DEF MapInv, P, n
  <2>7. OneRunExact'
    <3> SUFFICES ASSUME pc' = "answered", TrialsAscend PROVE keep' = out
      BY <1>1, <1>5 DEF OneRunExact, TrialsAscend
    <3>1. mapped + 1 = n
      BY <1>1
    <3>2. SubSeq(out, 1, n) = out
      BY <1>2 DEF n
    <3> QED BY <2>3, <3>1, <3>2
  <2> QED BY <2>4, <2>5, <2>6, <2>7 DEF SampleInv
<1> QED BY <1>9, <1>10

-----------------------------------------------------------------------------
(* The invariant. *)

\* An empty table, and no reader yet.
LEMMA InitReads ==
    ASSUME Init PROVE ReadsInv
<1>1. TableInv
  <2>1. \A t \in Txns : 0 \in 0..Len(RowsOf[t]) /\ InsertedUpTo(t, 0)
    <3> SUFFICES ASSUME NEW t \in Txns PROVE 0 \in 0..Len(RowsOf[t]) /\ InsertedUpTo(t, 0)
      OBVIOUS
    <3>1. Len(RowsOf[t]) \in Nat /\ DOMAIN RowsOf[t] = 1..Len(RowsOf[t])
          /\ \A k \in DOMAIN RowsOf[t] : <<t, k>> \in Rows
      BY RowFacts
    <3>2. tx[t] = "new" /\ \A k \in DOMAIN RowsOf[t] : id[<<t, k>>] = 0 /\ ~(k <= 0)
      BY <3>1 DEF Init
    <3> QED BY <3>1, <3>2 DEF InsertedUpTo
  <2> QED BY <2>1 DEF Init, TableInv
<1>2. WalkInv
  BY DEF Init, WalkInv, PagesAscend, Ascending, SnapshotCovered
<1>3. SampleInv
  <2>1. SampleType
    BY DEF Init, SampleType, Ascending
  <2>2. SelectInv /\ OneRunExact /\ pc # "map"
    BY DEF Init, SelectInv, OneRunExact
  <2> QED BY <2>1, <2>2 DEF SampleInv
<1> QED BY <1>1, <1>2, <1>3 DEF ReadsInv

\* Every step keeps the invariant.
LEMMA StepReads ==
    ASSUME ReadsInv, [Next]_vars PROVE ReadsInv'
<1> USE DEF ReadsInv
<1>1. ASSUME NEW t \in Txns, InsertRow(t) PROVE ReadsInv'
  <2>1. UNCHANGED walk /\ UNCHANGED <<sample, resp>> /\ pc' = pc
    BY <1>1 DEF InsertRow
  <2>2. TableInv' /\ StaysVisible
    BY <1>1, InsertStep
  <2>3. WalkInv'
    BY <2>1, <2>2, WalkKept
  <2>4. SampleInv'
    BY <2>1, SampleKept
  <2> QED BY <2>2, <2>3, <2>4
<1>2. ASSUME NEW t \in Txns, EndTxn(t) PROVE ReadsInv'
  <2>1. UNCHANGED walk /\ UNCHANGED <<sample, resp>> /\ pc' = pc
    BY <1>2 DEF EndTxn
  <2>2. TableInv' /\ StaysVisible
    BY <1>2, EndStep
  <2>3. WalkInv'
    BY <2>1, <2>2, WalkKept
  <2>4. SampleInv'
    BY <2>1, SampleKept
  <2> QED BY <2>2, <2>3, <2>4
<1>3. ASSUME UNCHANGED table PROVE TableInv' /\ StaysVisible
  <2>1. tx' = tx /\ id' = id /\ lastId' = lastId
    BY <1>3 DEF table
  <2>2. \A t, n : InsertedUpTo(t, n)' = InsertedUpTo(t, n)
    BY <2>1 DEF InsertedUpTo
  <2>3. TableInv'
    BY <2>1, <2>2 DEF TableInv
  <2> QED BY <2>1, <2>3 DEF StaysVisible, Visible
<1>4. ASSUME StartWalk PROVE ReadsInv'
  <2>1. UNCHANGED table /\ UNCHANGED <<sample, resp>> /\ pc = "idle" /\ pc' = "walk"
    BY <1>4 DEF StartWalk
  <2>2. WalkInv'
    BY <1>4, StartWalkStep
  <2>3. SampleInv'
    BY <2>1, SampleKept
  <2> QED BY <1>3, <2>1, <2>2, <2>3
<1>5. ASSUME NextPage PROVE ReadsInv'
  <2>1. UNCHANGED table /\ UNCHANGED <<sample, resp>> /\ pc = "walk"
        /\ (pc' = pc \/ pc' = "walked")
    BY <1>5 DEF NextPage
  <2>2. WalkInv'
    BY <1>5, NextPageStep
  <2>3. SampleInv'
    BY <2>1, SampleKept
  <2> QED BY <1>3, <2>1, <2>2, <2>3
<1>6. ASSUME NEW n \in Thresholds, QueryTrials(n) PROVE ReadsInv'
  <2>1. UNCHANGED table /\ UNCHANGED walk /\ pc' \in {"lttb", "answered"}
    BY <1>6 DEF QueryTrials
  <2>2. SampleInv'
    BY <1>6, QueryTrialsStep
  <2>3. WalkInv'
    BY <1>3, <2>1, WalkKept
  <2> QED BY <1>3, <2>1, <2>2, <2>3
<1>7. ASSUME Select PROVE ReadsInv'
  <2>1. UNCHANGED table /\ UNCHANGED walk /\ (pc' = pc \/ pc' = "map")
    BY <1>7 DEF Select
  <2>2. SampleInv'
    BY <1>7, SelectStep
  <2>3. WalkInv'
    BY <1>3, <2>1, WalkKept
  <2> QED BY <1>3, <2>1, <2>2, <2>3
<1>8. ASSUME MapBack PROVE ReadsInv'
  <2>1. UNCHANGED table /\ UNCHANGED walk /\ (pc' = pc \/ pc' = "answered")
    BY <1>8 DEF MapBack
  <2>2. SampleInv'
    BY <1>8, MapBackStep
  <2>3. WalkInv'
    BY <1>3, <2>1, WalkKept
  <2> QED BY <1>3, <2>1, <2>2, <2>3
<1>9. ASSUME UNCHANGED vars PROVE ReadsInv'
  <2>1. UNCHANGED table /\ UNCHANGED walk /\ UNCHANGED <<sample, resp>> /\ pc' = pc
    BY <1>9 DEF vars
  <2> QED BY <1>3, <2>1, WalkKept, SampleKept
<1>10. Finished => UNCHANGED vars
  BY DEF Finished
<1> HIDE DEF ReadsInv
<1> QED BY <1>1, <1>2, <1>4, <1>5, <1>6, <1>7, <1>8, <1>9, <1>10 DEF Next, Read

\* The table, a walk and a sample keep what the properties rest on, whatever is
\* inserted, committed or rolled back meanwhile.
THEOREM Invariance == Spec => []ReadsInv
<1>1. Init => ReadsInv
  BY InitReads
<1>2. ReadsInv /\ [Next]_vars => ReadsInv'
  BY StepReads
<1> QED BY <1>1, <1>2, PTL DEF Spec

\* GET /v1/measurements, followed to its end, hands out no row twice and every
\* row that was visible when the client began, for any page size and whatever
\* order transactions commit in.
THEOREM WalksAreComplete == Spec => []WalkComplete
<1>1. ReadsInv => WalkComplete
  BY DEF ReadsInv, WalkInv, WalkComplete
<1> QED BY <1>1, Invariance, PTL

\* ?downsample=lttb:N selects N different points in their order, first and last
\* among them, for any N and any number of points and however the bounds of the
\* buckets are rounded; where trial numbers ascend the response is their rows.
THEOREM SeriesAreExact == Spec => []SeriesExact
<1>1. ReadsInv => SeriesExact
  <2> SUFFICES ASSUME ReadsInv PROVE SeriesExact
    OBVIOUS
  <2>1. /\ points \in Seq(Rows) /\ out \in Seq(DOMAIN points)
        /\ Ascending(out) /\ Ascending(keep) /\ OneRunExact
    BY DEF ReadsInv, SampleInv, SampleType
  <2>2. \A k \in DOMAIN out : out[k] \in DOMAIN points
    <3> DEFINE D == DOMAIN points
    <3>1. out \in Seq(D)
      BY <2>1
    <3> HIDE DEF D
    <3>2. \A k \in DOMAIN out : out[k] \in D
      BY <3>1
    <3> QED BY <3>2 DEF D
  <2>3. pc = "map" => Len(out) = threshold /\ out[1] = 1 /\ out[threshold] = Len(points)
    BY DEF ReadsInv, SampleInv, SelectInv, BucketsInv, MapInv
  <2> QED BY <2>1, <2>2, <2>3 DEF SeriesExact, SampleOrdered
<1> QED BY <1>1, Invariance, PTL

-----------------------------------------------------------------------------
(* The cache. *)

\* A query has one of the keys.
LEMMA KeyOfQuery ==
    ASSUME NEW q \in Queries PROVE CacheKey(q) \in Keys
BY DEF Keys

\* What a handler that goes on or returns does to the variables of the others.
LEMMA ReturnKeeps ==
    ASSUME CacheInv, NEW h \in Handlers, Return(h), index' \in [Machines -> SUBSET Keys]
    PROVE  CacheInv'
<1>1. /\ hpc' = [hpc EXCEPT ![h] = "idle"] /\ query' = [query EXCEPT ![h] = NoQuery]
      /\ machine' = [machine EXCEPT ![h] = None] /\ todel' = [todel EXCEPT ![h] = {}]
  BY DEF Return, Goto
<1>2. CacheType'
  BY <1>1 DEF CacheInv, CacheType
<1>3. ASSUME NEW g \in Handlers
      PROVE  /\ hpc'[g] \in {"get", "load", "store"} => query'[g] \in Queries
             /\ hpc'[g] \in {"invalidate", "smembers", "del"} => machine'[g] \in Machines
  <2>1. CASE g = h
    BY <1>1, <2>1 DEF CacheInv, CacheType
  <2>2. CASE g # h
    <3>1. hpc'[g] = hpc[g] /\ query'[g] = query[g] /\ machine'[g] = machine[g]
      BY <1>1, <2>2 DEF CacheInv, CacheType
    <3> QED BY <3>1 DEF CacheInv
  <2> QED BY <2>1, <2>2
<1> QED BY <1>2, <1>3 DEF CacheInv

\* A handler that goes on with its request as it is.
LEMMA ContinueKeeps ==
    ASSUME CacheInv, NEW h \in Handlers, index' = index,
           \/ hpc[h] = "get" /\ Continue(h, "load")
           \/ hpc[h] = "invalidate" /\ Continue(h, "smembers")
    PROVE  CacheInv'
<1>1. /\ query' = query /\ machine' = machine /\ todel' = todel
      /\ \/ hpc[h] = "get" /\ hpc' = [hpc EXCEPT ![h] = "load"]
         \/ hpc[h] = "invalidate" /\ hpc' = [hpc EXCEPT ![h] = "smembers"]
  BY DEF Continue, Goto, request
<1>2. CacheType'
  BY <1>1 DEF CacheInv, CacheType
<1>3. \A g \in Handlers :
          \/ hpc'[g] = hpc[g]
          \/ hpc[g] = "get" /\ hpc'[g] = "load"
          \/ hpc[g] = "invalidate" /\ hpc'[g] = "smembers"
  BY <1>1 DEF CacheInv, CacheType
<1> QED BY <1>1, <1>2, <1>3 DEF CacheInv

\* The sets of a machine hold keys whatever is registered or deleted.
LEMMA IndexKept ==
    ASSUME CacheInv, NEW h \in Handlers,
           \/ hpc[h] = "store" /\ Register(h)
           \/ Evict(h)
           \/ index' = index
    PROVE  index' \in [Machines -> SUBSET Keys]
<1>1. index \in [Machines -> SUBSET Keys]
  BY DEF CacheInv, CacheType
<1>2. CASE hpc[h] = "store" /\ Register(h)
  <2> DEFINE k == CacheKey(query[h])
  <2>1. k \in Keys
    BY <1>2, KeyOfQuery DEF CacheInv
  <2>2. index' = [m \in Machines |->
            IF m \in DependsOn(query[h]) THEN index[m] \cup {k} ELSE index[m]]
    BY <1>2 DEF Register
  <2> HIDE DEF k
  <2> QED BY <1>1, <2>1, <2>2
<1>3. CASE Evict(h)
  BY <1>1, <1>3 DEF Evict
<1> QED BY <1>1, <1>2, <1>3

\* Every step keeps the invariant.
LEMMA StepCache ==
    ASSUME CacheInv, [CacheNext]_cacheVars PROVE CacheInv'
<1>1. index \in [Machines -> SUBSET Keys]
  BY DEF CacheInv, CacheType
<1>2. ASSUME hpc' = hpc, UNCHANGED request, index' \in [Machines -> SUBSET Keys]
      PROVE  CacheInv'
  BY <1>2 DEF CacheInv, CacheType, request
<1>3. ASSUME Tick PROVE CacheInv'
  <2>1. hpc' = hpc /\ UNCHANGED request
        /\ index' = [m \in Machines |-> IF indexLife[m] = 1 THEN {} ELSE index[m]]
    BY <1>3 DEF Tick
  <2> QED BY <1>1, <1>2, <2>1
<1>4. ASSUME NEW m \in Machines, CommitUnreported(m) PROVE CacheInv'
  <2>1. hpc' = hpc /\ UNCHANGED request /\ index' = index
    BY <1>4 DEF CommitUnreported, redis
  <2> QED BY <1>1, <1>2, <2>1
<1>5. ASSUME NEW h \in Handlers, NEW q \in Queries, HandleRead(h, q) PROVE CacheInv'
  <2>1. /\ query' = [query EXCEPT ![h] = q] /\ machine' = machine /\ todel' = todel
        /\ index' = index
        /\ \/ hpc' = [hpc EXCEPT ![h] = "get"]
           \/ hpc' = [hpc EXCEPT ![h] = "direct"]
    BY <1>5 DEF HandleRead, Fetch, Goto, redis
  <2>2. CacheType'
    BY <2>1 DEF CacheInv, CacheType
  <2>3. \A g \in Handlers :
            \/ g # h /\ hpc'[g] = hpc[g] /\ query'[g] = query[g]
            \/ g = h /\ hpc'[g] \in {"get", "direct"} /\ query'[g] \in Queries
    BY <2>1 DEF CacheInv, CacheType
  <2> QED BY <2>1, <2>2, <2>3 DEF CacheInv
<1>6. ASSUME NEW h \in Handlers, NEW m \in Machines, CommitIngest(h, m) PROVE CacheInv'
  <2>1. /\ machine' = [machine EXCEPT ![h] = m] /\ query' = query /\ todel' = todel
        /\ index' = index /\ hpc' = [hpc EXCEPT ![h] = "invalidate"]
    BY <1>6 DEF CommitIngest, Goto, redis
  <2>2. CacheType'
    BY <2>1 DEF CacheInv, CacheType
  <2>3. \A g \in Handlers :
            \/ g # h /\ hpc'[g] = hpc[g] /\ machine'[g] = machine[g]
            \/ g = h /\ hpc'[g] = "invalidate" /\ machine'[g] \in Machines
    BY <2>1 DEF CacheInv, CacheType
  <2> QED BY <2>1, <2>2, <2>3 DEF CacheInv
<1>7. ASSUME NEW h \in Handlers, Get(h) \/ GetFails(h) PROVE CacheInv'
  <2>1. index' = index /\ hpc[h] = "get" /\ (Continue(h, "load") \/ Return(h))
    BY <1>7 DEF Get, GetFails, redis
  <2> QED BY <1>1, <2>1, ContinueKeeps, ReturnKeeps
<1>8. ASSUME NEW h \in Handlers, Load(h) \/ LoadFails(h) PROVE CacheInv'
  <2>1. index' = index
    BY <1>8 DEF Load, LoadFails, redis
  <2>2. CASE Return(h)
    BY <1>1, <2>1, <2>2, ReturnKeeps
  <2>3. CASE ~Return(h)
    <3>1. /\ hpc[h] = "load" /\ hpc' = [hpc EXCEPT ![h] = "store"]
          /\ query' = query /\ machine' = machine /\ todel' = todel
      BY <1>8, <2>3 DEF Load, LoadFails, Goto
    <3>2. CacheType'
      BY <2>1, <3>1 DEF CacheInv, CacheType
    <3>3. \A g \in Handlers : \/ hpc'[g] = hpc[g]
                              \/ hpc[g] = "load" /\ hpc'[g] = "store"
      BY <3>1 DEF CacheInv, CacheType
    <3> QED BY <3>1, <3>2, <3>3 DEF CacheInv
  <2> QED BY <2>2, <2>3
<1>9. ASSUME NEW h \in Handlers, Store(h) \/ StoreFails(h) PROVE CacheInv'
  <2>1. hpc[h] = "store" /\ Return(h) /\ (Register(h) \/ index' = index)
    BY <1>9 DEF Store, StoreFails, redis
  <2> QED BY <2>1, IndexKept, ReturnKeeps
<1>10. ASSUME NEW h \in Handlers, InvalidateMachine(h) PROVE CacheInv'
  <2>1. index' = index /\ hpc[h] = "invalidate" /\ (Continue(h, "smembers") \/ Return(h))
    BY <1>10 DEF InvalidateMachine, redis
  <2> QED BY <1>1, <2>1, ContinueKeeps, ReturnKeeps
<1>11. ASSUME NEW h \in Handlers, SMembers(h) \/ SMembersFails(h) PROVE CacheInv'
  <2>1. index' = index /\ hpc[h] = "smembers"
    BY <1>11 DEF SMembers, SMembersFails, redis
  <2>2. CASE Return(h)
    BY <1>1, <2>1, <2>2, ReturnKeeps
  <2>3. CASE ~Return(h)
    <3>1. /\ todel' = [todel EXCEPT ![h] = index[machine[h]]]
          /\ hpc' = [hpc EXCEPT ![h] = "del"] /\ query' = query /\ machine' = machine
      BY <1>11, <2>3 DEF SMembers, SMembersFails, Goto
    <3>2. machine[h] \in Machines /\ index[machine[h]] \in SUBSET Keys
      BY <1>1, <2>1 DEF CacheInv
    <3>3. CacheType'
      BY <2>1, <3>1, <3>2 DEF CacheInv, CacheType
    <3>4. \A g \in Handlers : \/ g # h /\ hpc'[g] = hpc[g]
                              \/ g = h /\ hpc'[g] = "del"
      BY <3>1 DEF CacheInv, CacheType
    <3> QED BY <3>1, <3>2, <3>3, <3>4 DEF CacheInv
  <2> QED BY <2>2, <2>3
<1>12. ASSUME NEW h \in Handlers, Del(h) \/ DelFails(h) PROVE CacheInv'
  <2>1. Return(h) /\ (Evict(h) \/ index' = index)
    BY <1>12 DEF Del, DelFails, redis
  <2> QED BY <2>1, IndexKept, ReturnKeeps
<1>13. ASSUME UNCHANGED cacheVars PROVE CacheInv'
  <2>1. hpc' = hpc /\ UNCHANGED request /\ index' = index
    BY <1>13 DEF cacheVars, redis
  <2> QED BY <1>1, <1>2, <2>1
<1>14. ASSUME NEW h \in Handlers, Proceed(h) PROVE CacheInv'
  BY <1>7, <1>8, <1>9, <1>10, <1>11, <1>12, <1>14 DEF Proceed
<1> QED BY <1>3, <1>4, <1>5, <1>6, <1>13, <1>14 DEF CacheNext

-----------------------------------------------------------------------------
(* What a key stands for. *)

\* No query repeats a parameter of which the handler takes the first value.
SingleValued == \A q \in Queries : q.endpoint # "compare" => Len(q.machines) = 1

\* Then queries with one key are about the same machines.
LEMMA KeyTells ==
    ASSUME SingleValued, NEW q \in Queries, NEW r \in Queries, CacheKey(q) = CacheKey(r)
    PROVE  DependsOn(q) = DependsOn(r)
<1> DEFINE Count(t) ==
             [m \in Machines |-> Cardinality({i \in DOMAIN t.machines : t.machines[i] = m})]
<1>1. /\ q.machines \in Seq(Machines) /\ r.machines \in Seq(Machines)
      /\ q.machines # <<>> /\ r.machines # <<>>
  BY QueriesAssumption
<1>2. q.endpoint = r.endpoint
  BY DEF CacheKey
<1>3. CASE q.endpoint = "compare"
  BY <1>2, <1>3 DEF CacheKey, DependsOn
<1>4. CASE q.endpoint # "compare"
  <2>1. DOMAIN q.machines = {1} /\ DOMAIN r.machines = {1}
    BY <1>1, <1>2, <1>4 DEF SingleValued
  <2>2. q.machines[1] \in Machines /\ r.machines[1] \in Machines
    BY <1>1, <2>1
  <2>3. Count(q) = Count(r)
    BY <1>2, <1>4 DEF CacheKey
  <2>4. Count(q)[q.machines[1]] = 1
    <3>1. {i \in DOMAIN q.machines : q.machines[i] = q.machines[1]} = {1}
      BY <2>1
    <3> QED BY <2>2, <3>1, FS_Singleton
  <2>5. r.machines[1] # q.machines[1] => Count(r)[q.machines[1]] = 0
    <3>1. SUFFICES ASSUME r.machines[1] # q.machines[1] PROVE Count(r)[q.machines[1]] = 0
      OBVIOUS
    <3>2. {i \in DOMAIN r.machines : r.machines[i] = q.machines[1]} = {}
      BY <2>1, <3>1
    <3> QED BY <2>2, <3>2, FS_EmptySet
  <2> HIDE DEF Count
  <2>6. q.machines[1] = r.machines[1]
    BY <2>3, <2>4, <2>5
  <2> QED BY <1>2, <1>4, <2>6 DEF DependsOn
<1> QED BY <1>3, <1>4

\* OriginInv with the types it needs.
OwnInv ==
    /\ CacheInv /\ OriginInv
    /\ version \in [Machines -> Nat]
    /\ cached \in [Keys -> [Machines -> Int]] /\ val \in [Handlers -> [Machines -> Int]]

\* An answer is about the machines of its query.
LEMMA AboutAnswer ==
    ASSUME version \in [Machines -> Nat], NEW q \in Queries
    PROVE  Answer(q) \in [Machines -> Int] /\ About(Answer(q)) = DependsOn(q)
<1>1. DependsOn(q) \subseteq Machines
  BY QueriesAssumption DEF DependsOn
<1> QED BY <1>1 DEF Answer, About

\* Every step keeps it, also one that fails.
LEMMA OwnStep ==
    ASSUME OwnInv, [CacheNext]_cacheVars PROVE OwnInv'
<1>1. CacheInv'
  BY StepCache DEF OwnInv
<1>2. /\ version \in [Machines -> Nat] /\ cached \in [Keys -> [Machines -> Int]]
      /\ val \in [Handlers -> [Machines -> Int]]
      /\ hpc \in [Handlers -> {"idle", "get", "load", "direct", "store",
                                "invalidate", "smembers", "del"}]
      /\ query \in [Handlers -> Queries \cup {NoQuery}]
  BY DEF OwnInv, CacheInv, CacheType
<1>3. NoAnswer \in [Machines -> Int] /\ NoAnswer' = NoAnswer
  BY DEF NoAnswer
<1> DEFINE Origin(k, an) == an = NoAnswer
                           \/ \E q \in Queries : CacheKey(q) = k /\ About(an) = DependsOn(q)
           Locals == /\ val' \in [Handlers -> [Machines -> Int]]
                     /\ \A g \in Handlers : hpc'[g] = "store" => About(val'[g]) = DependsOn(query'[g])
           Entries == /\ cached' \in [Keys -> [Machines -> Int]]
                      /\ \A k \in Keys : Origin(k, cached'[k])
<1>4. \A k \in Keys : Origin(k, cached[k])
  BY DEF OwnInv, OriginInv
<1>5. ASSUME version' \in [Machines -> Nat], Locals, Entries PROVE OwnInv'
  BY <1>1, <1>3, <1>5 DEF OwnInv, OriginInv, About
<1>6. cached' = cached => Entries
  BY <1>2, <1>4
<1>7. ASSUME hpc' = hpc, query' = query, val' = val PROVE Locals
  BY <1>2, <1>7 DEF OwnInv, OriginInv
<1>8. ASSUME NEW h \in Handlers, Return(h) PROVE Locals
  <2>1. /\ hpc' = [hpc EXCEPT ![h] = "idle"] /\ query' = [query EXCEPT ![h] = NoQuery]
        /\ val' = [val EXCEPT ![h] = NoAnswer]
    BY <1>8 DEF Return, Goto
  <2> QED BY <1>2, <1>3, <2>1 DEF OwnInv, OriginInv
<1>9. ASSUME NEW h \in Handlers, NEW p, p # "store", hpc' = [hpc EXCEPT ![h] = p],
             val' = val, \A g \in Handlers \ {h} : query'[g] = query[g]
      PROVE  Locals
  BY <1>2, <1>9 DEF OwnInv, OriginInv
<1>10. ASSUME NEW h \in Handlers, Evict(h) PROVE Entries
  <2>1. cached' = [k \in Keys |-> IF k \in todel[h] THEN NoAnswer ELSE cached[k]]
    BY <1>10 DEF Evict
  <2>2. \A k \in Keys : cached'[k] \in [Machines -> Int] /\ Origin(k, cached'[k])
    BY <1>2, <1>3, <1>4, <2>1
  <2> HIDE DEF Origin
  <2> QED BY <2>1, <2>2
<1>11. ASSUME NEW h \in Handlers, hpc[h] = "store", Register(h) PROVE Entries
  <2> DEFINE l == CacheKey(query[h])
  <2>1. query[h] \in Queries /\ About(val[h]) = DependsOn(query[h]) /\ val[h] \in [Machines -> Int]
    BY <1>2, <1>11 DEF OwnInv, OriginInv, CacheInv
  <2>2. l \in Keys /\ Origin(l, val[h])
    BY <2>1, KeyOfQuery
  <2>3. cached' = [cached EXCEPT ![l] = val[h]]
    BY <1>11 DEF Register
  <2> HIDE DEF l, Origin
  <2>4. \A k \in Keys : cached'[k] = IF k = l THEN val[h] ELSE cached[k]
    BY <1>2, <2>3
  <2>5. cached' \in [Keys -> [Machines -> Int]]
    BY <1>2, <2>1, <2>2, <2>3
  <2>6. ASSUME NEW k \in Keys PROVE Origin(k, cached'[k])
    <3>1. CASE k = l
      BY <2>2, <2>4, <3>1
    <3>2. CASE k # l
      BY <1>4, <2>4, <3>2
    <3> QED BY <3>1, <3>2
  <2> QED BY <2>5, <2>6
<1>12. ASSUME Tick PROVE OwnInv'
  <2>1. /\ cached' = [k \in Keys |-> IF life[k] = 1 THEN NoAnswer ELSE cached[k]]
        /\ version' = version /\ hpc' = hpc /\ query' = query /\ val' = val
    BY <1>12 DEF Tick, request
  <2>2. \A k \in Keys : cached'[k] \in [Machines -> Int] /\ Origin(k, cached'[k])
    BY <1>2, <1>3, <1>4, <2>1
  <2>3. Entries
    <3> HIDE DEF Origin
    <3> QED BY <2>1, <2>2
  <2> QED BY <1>2, <1>5, <1>7, <2>1, <2>3
<1>13. ASSUME NEW m \in Machines,
              CommitUnreported(m) \/ \E h \in Handlers : CommitIngest(h, m)
       PROVE  OwnInv'
  <2>1. version' \in [Machines -> Nat] /\ cached' = cached
    BY <1>2, <1>13 DEF CommitUnreported, CommitIngest, redis
  <2>2. Locals
    <3>1. CASE CommitUnreported(m)
      BY <1>7, <3>1 DEF CommitUnreported, request
    <3>2. ASSUME NEW h \in Handlers, CommitIngest(h, m) PROVE Locals
      <4>1. hpc' = [hpc EXCEPT ![h] = "invalidate"] /\ val' = val /\ query' = query
        BY <3>2 DEF CommitIngest, Goto
      <4> QED BY <1>9, <4>1
    <3> QED BY <1>13, <3>1, <3>2
  <2> QED BY <1>5, <1>6, <2>1, <2>2
<1>14. ASSUME NEW h \in Handlers, NEW q \in Queries, HandleRead(h, q) PROVE OwnInv'
  <2>1. /\ hpc' = [hpc EXCEPT ![h] = IF Up THEN "get" ELSE "direct"]
        /\ query' = [query EXCEPT ![h] = q] /\ val' = val
        /\ version' = version /\ cached' = cached
    BY <1>14 DEF HandleRead, Fetch, Goto, redis
  <2>2. \A g \in Handlers \ {h} : query'[g] = query[g]
    BY <1>2, <2>1
  <2>3. Locals
    <3>1. PICK p \in {"get", "direct"} : hpc' = [hpc EXCEPT ![h] = p]
      BY <2>1
    <3> QED BY <1>9, <2>1, <2>2, <3>1
  <2> QED BY <1>2, <1>5, <1>6, <2>1, <2>3
<1>15. ASSUME NEW h \in Handlers, Proceed(h) PROVE OwnInv'
  <2>1. version' = version
    BY <1>15 DEF Proceed, Get, GetFails, Load, LoadFails, Store, StoreFails, InvalidateMachine,
       SMembers, SMembersFails, Del, DelFails
  <2>2. Entries
    <3>1. \/ cached' = cached
          \/ hpc[h] = "store" /\ Register(h)
          \/ Evict(h)
      BY <1>15 DEF Proceed, Get, GetFails, Load, LoadFails, Store, StoreFails, InvalidateMachine,
         SMembers, SMembersFails, Del, DelFails, redis
    <3> QED BY <1>6, <1>10, <1>11, <3>1
  <2>3. Locals
    <3>1. CASE Return(h)
      BY <1>8, <3>1
    <3>2. CASE Continue(h, "load") \/ Continue(h, "smembers")
      <4>1. PICK p \in {"load", "smembers"} :
               hpc' = [hpc EXCEPT ![h] = p] /\ query' = query /\ val' = val
        BY <3>2 DEF Continue, Goto, request
      <4> QED BY <1>9, <4>1
    <3>3. CASE Load(h) /\ ~Return(h)
      <4>1. /\ hpc[h] = "load" /\ hpc' = [hpc EXCEPT ![h] = "store"] /\ query' = query
            /\ val' = [val EXCEPT ![h] = Answer(query[h])]
        BY <3>3 DEF Load, Goto
      <4>2. query[h] \in Queries
        BY <4>1 DEF OwnInv, CacheInv
      <4>3. Answer(query[h]) \in [Machines -> Int] /\ About(Answer(query[h])) = DependsOn(query[h])
        BY <1>2, <4>2, AboutAnswer
      <4>4. \A g \in Handlers : g # h /\ hpc[g] = "store" => About(val[g]) = DependsOn(query[g])
        BY DEF OwnInv, OriginInv
      <4> QED BY <1>2, <4>1, <4>3, <4>4
    <3>4. CASE SMembers(h) /\ ~Return(h)
      <4>1. hpc' = [hpc EXCEPT ![h] = "del"] /\ query' = query /\ val' = val
        BY <3>4 DEF SMembers, Goto
      <4> QED BY <1>9, <4>1
    <3>5. \/ Return(h)
          \/ Continue(h, "load") \/ Continue(h, "smembers")
          \/ Load(h) /\ ~Return(h)
          \/ SMembers(h) /\ ~Return(h)
      BY <1>15 DEF Proceed, Get, GetFails, LoadFails, Store, StoreFails, InvalidateMachine,
         SMembersFails, Del, DelFails
    <3> QED BY <3>1, <3>2, <3>3, <3>4, <3>5
  <2> QED BY <1>2, <1>5, <2>1, <2>2, <2>3
<1>16. ASSUME UNCHANGED cacheVars PROVE OwnInv'
  <2>1. version' = version /\ cached' = cached /\ hpc' = hpc /\ query' = query /\ val' = val
    BY <1>16 DEF cacheVars, redis, request
  <2> QED BY <1>2, <1>5, <1>6, <1>7, <2>1
<1> QED BY <1>12, <1>13, <1>14, <1>15, <1>16 DEF CacheNext

\* A GET finds an answer to the query it asks for, whatever fails and however
\* ingests and reads overlap, if every aggregates and trials query gives its
\* machine_id once: what cacheKey forgets then is nothing that the answer
\* depends on.  (With a repeated machine_id it does not hold.)
THEOREM SingleValuesTell ==
    ASSUME SingleValued
    PROVE  CacheSpec => []AnswersOwnQuery
<1>1. CacheInit => OwnInv
  <2> SUFFICES ASSUME CacheInit PROVE OwnInv
    OBVIOUS
  <2>1. CacheInv
    BY DEF CacheInit, CacheInv, CacheType
  <2>2. NoAnswer \in [Machines -> Int]
    BY DEF NoAnswer
  <2> QED BY <2>1, <2>2 DEF CacheInit, OwnInv, OriginInv
<1>2. OwnInv /\ [CacheNext]_cacheVars => OwnInv'
  BY OwnStep
<1>3. OwnInv => AnswersOwnQuery
  <2> SUFFICES ASSUME OwnInv, NEW h \in Handlers, hpc[h] = "get",
                      cached[CacheKey(query[h])] # NoAnswer
               PROVE  About(cached[CacheKey(query[h])]) = DependsOn(query[h])
    BY DEF AnswersOwnQuery
  <2>1. query[h] \in Queries /\ CacheKey(query[h]) \in Keys
    BY KeyOfQuery DEF OwnInv, CacheInv
  <2>2. PICK q \in Queries : /\ CacheKey(q) = CacheKey(query[h])
                             /\ About(cached[CacheKey(query[h])]) = DependsOn(q)
    BY <2>1 DEF OwnInv, OriginInv
  <2> QED BY <2>1, <2>2, KeyTells
<1> QED BY <1>1, <1>2, <1>3, PTL DEF CacheSpec

-----------------------------------------------------------------------------
(* Where stale answers come from. *)

Invalidating(h, m) == machine[h] = m /\ hpc[h] \in {"invalidate", "smembers", "del"}

\* No answer that has been loaded and not yet stored is about a machine whose
\* ingest has committed and not yet invalidated.
FillsApart ==
    \A g, h \in Handlers : \A m \in Machines :
        (hpc[g] = "store" /\ Invalidating(h, m)) => m \notin DependsOn(query[g])

\* An answer about machine m that is cached under k is registered with m for
\* longer than it is cached, and is current for m unless an invalidation of m is
\* still to come.  Answers about other machines may have the same key.
Covered(k, m) ==
    m \in About(cached[k]) =>
        /\ k \in index[m] /\ life[k] < indexLife[m]
        /\ cached[k][m] = version[m] \/ \E h \in Handlers : Invalidating(h, m)

\* The invariant of runs in which FillsApart holds throughout.
CoherentInv ==
    /\ CacheInv
    /\ version \in [Machines -> Nat] /\ cool = 0
    /\ cached \in [Keys -> [Machines -> Int]] /\ val \in [Handlers -> [Machines -> Int]]
    /\ life \in [Keys -> 0..TTL] /\ indexLife \in [Machines -> Nat]
    /\ \A k \in Keys : cached[k] # NoAnswer => life[k] > 0 /\ \A m \in Machines : Covered(k, m)
    /\ \A h \in Handlers : hpc[h] = "store" => val[h] = Answer(query[h])
    /\ \A h \in Handlers : hpc[h] = "del" => index[machine[h]] \subseteq todel[h]

\* The functions that CoherentInv is about.
LEMMA CoherentTypes ==
    ASSUME CoherentInv
    PROVE  /\ version \in [Machines -> Nat] /\ cached \in [Keys -> [Machines -> Int]]
           /\ val \in [Handlers -> [Machines -> Int]]
           /\ life \in [Keys -> 0..TTL] /\ indexLife \in [Machines -> Nat]
           /\ hpc \in [Handlers -> {"idle", "get", "load", "direct", "store",
                                     "invalidate", "smembers", "del"}]
           /\ query \in [Handlers -> Queries \cup {NoQuery}]
           /\ machine \in [Handlers -> Machines \cup {None}]
           /\ index \in [Machines -> SUBSET Keys] /\ todel \in [Handlers -> SUBSET Keys]
BY DEF CoherentInv, CacheInv, CacheType

\* A handler that returns leaves the locals of the others alone.
LEMMA ReturnFacts ==
    ASSUME CoherentInv, NEW h \in Handlers, Return(h)
    PROVE  /\ hpc'[h] = "idle" /\ val' \in [Handlers -> [Machines -> Int]]
           /\ \A g \in Handlers \ {h} :
                 /\ hpc'[g] = hpc[g] /\ query'[g] = query[g] /\ machine'[g] = machine[g]
                 /\ val'[g] = val[g] /\ todel'[g] = todel[g]
<1>1. NoAnswer \in [Machines -> Int]
  BY DEF NoAnswer
<1> QED BY <1>1, CoherentTypes DEF Return, Goto

\* A step that changes neither the data nor Redis keeps the invariant if the
\* invalidations that cached answers wait for are still to come.
LEMMA CoherentKept ==
    ASSUME CoherentInv, CacheInv', UNCHANGED <<version, redis, cool>>,
           val' \in [Handlers -> [Machines -> Int]],
           \A k \in Keys : \A m \in About(cached[k]) : \A h \in Handlers :
               (cached[k] # NoAnswer /\ Invalidating(h, m)) => Invalidating(h, m)',
           \A h \in Handlers : hpc'[h] = "store" => val'[h] = Answer(query'[h]),
           \A h \in Handlers : hpc'[h] = "del" => index[machine'[h]] \subseteq todel'[h]
    PROVE  CoherentInv'
<1>1. /\ version' = version /\ cached' = cached /\ life' = life
      /\ index' = index /\ indexLife' = indexLife /\ cool' = cool
  BY DEF redis
<1>3. ASSUME NEW k \in Keys, cached[k] # NoAnswer, NEW m \in Machines PROVE Covered(k, m)'
  <2>1. Covered(k, m)
    BY <1>3 DEF CoherentInv
  <2> QED BY <1>1, <1>3, <2>1 DEF Covered
<1>4. \A k \in Keys : cached'[k] # NoAnswer => life'[k] > 0 /\ \A m \in Machines : Covered(k, m)'
  BY <1>1, <1>3 DEF CoherentInv
<1>5. (\A h \in Handlers : hpc[h] = "store" => val[h] = Answer(query[h]))'
  BY <1>1 DEF Answer
<1>6. NoAnswer' = NoAnswer
  BY DEF NoAnswer
<1> QED BY <1>1, <1>4, <1>5, <1>6 DEF CoherentInv

\* The steps of a read up to its query, and the first two of an invalidation.
LEMMA CoherentOn ==
    ASSUME ~Faults, CoherentInv, CacheInv', NEW h \in Handlers,
           \/ \E q \in Queries : HandleRead(h, q)
           \/ Get(h) \/ Load(h) \/ InvalidateMachine(h) \/ SMembers(h)
    PROVE  CoherentInv'
<1>1. UNCHANGED <<version, redis, cool>>
  BY DEF HandleRead, Get, Load, InvalidateMachine, SMembers, breaker, Ok
<1> DEFINE Others == \A g \in Handlers \ {h} :
                       /\ hpc'[g] = hpc[g] /\ query'[g] = query[g] /\ machine'[g] = machine[g]
                       /\ val'[g] = val[g] /\ todel'[g] = todel[g]
<1>2. ASSUME Others, val' \in [Handlers -> [Machines -> Int]],
             \A k \in Keys : \A m \in About(cached[k]) :
                 (cached[k] # NoAnswer /\ Invalidating(h, m)) => Invalidating(h, m)',
             hpc'[h] = "store" => val'[h] = Answer(query'[h]),
             hpc'[h] = "del" => index[machine'[h]] \subseteq todel'[h]
      PROVE  CoherentInv'
  <2>1. \A g \in Handlers : \A m : g # h /\ Invalidating(g, m) => Invalidating(g, m)'
    BY <1>2 DEF Invalidating
  <2>2. \A g \in Handlers : hpc'[g] = "store" => val'[g] = Answer(query'[g])
    BY <1>2 DEF CoherentInv
  <2>3. \A g \in Handlers : hpc'[g] = "del" => index[machine'[g]] \subseteq todel'[g]
    BY <1>2 DEF CoherentInv
  <2> QED BY <1>1, <1>2, <2>1, <2>2, <2>3, CoherentKept
<1>3. ASSUME Return(h), \A m : ~Invalidating(h, m) PROVE CoherentInv'
  BY <1>2, <1>3, ReturnFacts
<1>4. ASSUME NEW q \in Queries, HandleRead(h, q) PROVE CoherentInv'
  <2>1. /\ hpc[h] = "idle" /\ hpc' = [hpc EXCEPT ![h] = IF Up THEN "get" ELSE "direct"]
        /\ query' = [query EXCEPT ![h] = q] /\ machine' = machine /\ val' = val /\ todel' = todel
    BY <1>4 DEF HandleRead, Fetch, Goto
  <2> QED BY <1>2, <2>1, CoherentTypes DEF Invalidating
<1>5. ASSUME Get(h) PROVE CoherentInv'
  <2>1. hpc[h] = "get" /\ \A m : ~Invalidating(h, m)
    BY <1>5 DEF Get, Invalidating
  <2>2. CASE Continue(h, "load")
    <3>1. /\ hpc' = [hpc EXCEPT ![h] = "load"]
          /\ query' = query /\ machine' = machine /\ val' = val /\ todel' = todel
      BY <2>2 DEF Continue, Goto, request
    <3> QED BY <1>2, <2>1, <3>1, CoherentTypes
  <2> QED BY <1>3, <1>5, <2>1, <2>2 DEF Get
<1>6. ASSUME Load(h) PROVE CoherentInv'
  <2>1. \A m : ~Invalidating(h, m)
    BY <1>6 DEF Load, Invalidating
  <2>2. CASE hpc[h] = "load"
    <3>1. /\ hpc' = [hpc EXCEPT ![h] = "store"] /\ val' = [val EXCEPT ![h] = Answer(query[h])]
          /\ query' = query /\ machine' = machine /\ todel' = todel
      BY <1>6, <2>2 DEF Load, Goto
    <3>2. Answer(query[h]) \in [Machines -> Int]
      BY CoherentTypes DEF Answer
    <3> QED BY <1>2, <2>1, <3>1, <3>2, CoherentTypes
  <2> QED BY <1>3, <1>6, <2>1, <2>2 DEF Load
<1>7. ASSUME InvalidateMachine(h) PROVE CoherentInv'
  <2>1. hpc[h] = "invalidate" /\ Continue(h, "smembers")
    BY <1>7 DEF InvalidateMachine, Up, CoherentInv
  <2>2. /\ hpc' = [hpc EXCEPT ![h] = "smembers"]
        /\ query' = query /\ machine' = machine /\ val' = val /\ todel' = todel
    BY <2>1 DEF Continue, Goto, request
  <2> QED BY <1>2, <2>1, <2>2, CoherentTypes DEF Invalidating
<1>8. ASSUME SMembers(h) PROVE CoherentInv'
  <2>1. hpc[h] = "smembers" /\ machine[h] \in Machines
    BY <1>8 DEF SMembers, CoherentInv, CacheInv
  <2>2. CASE index[machine[h]] = {}
    <3>1. Return(h)
      BY <1>8, <2>2 DEF SMembers
    <3>2. ASSUME NEW k \in Keys, NEW m \in About(cached[k]), cached[k] # NoAnswer, Invalidating(h, m)
          PROVE  FALSE
      <4>1. m = machine[h]
        BY <3>2 DEF Invalidating
      <4>2. Covered(k, m)
        BY <2>1, <3>2, <4>1 DEF CoherentInv
      <4> QED BY <2>2, <3>2, <4>1, <4>2 DEF Covered
    <3> QED BY <1>2, <3>1, <3>2, ReturnFacts
  <2>3. CASE index[machine[h]] # {}
    <3>1. /\ hpc' = [hpc EXCEPT ![h] = "del"] /\ todel' = [todel EXCEPT ![h] = index[machine[h]]]
          /\ query' = query /\ machine' = machine /\ val' = val
      BY <1>8, <2>3 DEF SMembers, Goto
    <3> QED BY <1>2, <2>1, <3>1, CoherentTypes DEF Invalidating
  <2> QED BY <2>2, <2>3
<1> QED BY <1>4, <1>5, <1>6, <1>7, <1>8

\* A commit makes answers stale for as long as its invalidation is to come.
LEMMA CoherentCommit ==
    ASSUME CoherentInv, CacheInv', FillsApart', NEW h \in Handlers, NEW m \in Machines,
           CommitIngest(h, m)
    PROVE  CoherentInv'
<1>1. /\ hpc[h] = "idle" /\ hpc' = [hpc EXCEPT ![h] = "invalidate"]
      /\ machine' = [machine EXCEPT ![h] = m] /\ version' = [version EXCEPT ![m] = @ + 1]
      /\ query' = query /\ val' = val /\ todel' = todel /\ cached' = cached /\ life' = life
      /\ index' = index /\ indexLife' = indexLife /\ cool' = cool
  BY DEF CommitIngest, Goto, redis, breaker
<1>2. version' \in [Machines -> Nat] /\ \A n \in Machines : n # m => version'[n] = version[n]
  BY <1>1, CoherentTypes
<1>3. Invalidating(h, m)'
      /\ \A g \in Handlers : \A n : Invalidating(g, n) => Invalidating(g, n)'
  BY <1>1, CoherentTypes DEF Invalidating
<1>4. ASSUME NEW k \in Keys, cached[k] # NoAnswer, NEW n \in Machines PROVE Covered(k, n)'
  <2>1. Covered(k, n)
    BY <1>4 DEF CoherentInv
  <2> QED BY <1>1, <1>2, <1>3, <2>1 DEF Covered
<1>5. ASSUME NEW g \in Handlers, hpc'[g] = "store" PROVE val'[g] = Answer(query[g])'
  <2>1. hpc[g] = "store" /\ val'[g] = Answer(query[g])
    BY <1>1, <1>5, CoherentTypes DEF CoherentInv
  <2>2. m \notin DependsOn(query[g])
    BY <1>1, <1>3, <1>5 DEF FillsApart
  <2>3. Answer(query[g])' = Answer(query[g])
    BY <1>1, <1>2, <2>2 DEF Answer
  <2> QED BY <2>1, <2>3
<1>6. \A g \in Handlers : hpc'[g] = "del" => index'[machine'[g]] \subseteq todel'[g]
  BY <1>1, CoherentTypes DEF CoherentInv
<1>7. NoAnswer' = NoAnswer
  BY DEF NoAnswer
<1> QED BY <1>1, <1>2, <1>4, <1>5, <1>6, <1>7 DEF CoherentInv

\* What is stored is current and registered with every machine it depends on;
\* no set it is entered in is about to be deleted.
LEMMA CoherentStore ==
    ASSUME CoherentInv, CacheInv', FillsApart, NEW h \in Handlers, Store(h)
    PROVE  CoherentInv'
<1> DEFINE k == CacheKey(query[h])
           ans == Answer(query[h])
<1>1. /\ hpc[h] = "store" /\ k \in Keys /\ val[h] = ans /\ Return(h)
      /\ version' = version /\ cool' = cool
  BY KeyOfQuery DEF Store, Ok, CoherentInv, CacheInv
<1>2. /\ cached' = [cached EXCEPT ![k] = val[h]] /\ life' = [life EXCEPT ![k] = TTL]
      /\ index' = [m \in Machines |-> IF m \in DependsOn(query[h]) THEN index[m] \cup {k} ELSE index[m]]
      /\ indexLife' = [m \in Machines |-> IF m \in DependsOn(query[h]) THEN IndexTTL ELSE indexLife[m]]
  BY DEF Store, Register
<1>3. /\ hpc'[h] = "idle" /\ val' \in [Handlers -> [Machines -> Int]]
      /\ \A g \in Handlers \ {h} :
            /\ hpc'[g] = hpc[g] /\ query'[g] = query[g] /\ machine'[g] = machine[g]
            /\ val'[g] = val[g] /\ todel'[g] = todel[g]
  BY <1>1, ReturnFacts
<1> HIDE DEF k, ans
<1>4. TTL \in Nat /\ TTL > 0 /\ IndexTTL \in Nat /\ IndexTTL > TTL
  BY LifetimesAssumption
<1>5. /\ cached' \in [Keys -> [Machines -> Int]] /\ life' \in [Keys -> 0..TTL]
      /\ indexLife' \in [Machines -> Nat]
  BY <1>1, <1>2, <1>4, CoherentTypes
<1>6. \A g \in Handlers : \A m : Invalidating(g, m)' <=> Invalidating(g, m)
  BY <1>1, <1>3 DEF Invalidating
<1>7. ASSUME NEW l \in Keys, cached'[l] # NoAnswer
      PROVE  life'[l] > 0 /\ \A m \in Machines : Covered(l, m)'
  <2>1. CASE l = k
    <3>1. cached'[l] = ans /\ life'[l] = TTL
      BY <1>1, <1>2, <2>1, CoherentTypes
    <3>2. ASSUME NEW m \in Machines, m \in About(cached'[l]) PROVE Covered(l, m)'
      <4>1. m \in DependsOn(query[h]) /\ ans[m] = version[m]
        BY <3>1, <3>2 DEF ans, About, Answer
      <4> QED BY <1>1, <1>2, <1>4, <2>1, <3>1, <4>1 DEF Covered
    <3>3. ASSUME NEW m \in Machines, m \notin About(cached'[l]) PROVE Covered(l, m)'
      BY <3>3 DEF Covered, About
    <3>4. \A m \in Machines : Covered(l, m)'
      BY <3>2, <3>3
    <3> QED BY <1>4, <3>1, <3>4
  <2>2. CASE l # k
    <3>1. cached'[l] = cached[l] /\ life'[l] = life[l]
      BY <1>2, <2>2, CoherentTypes
    <3>2. life[l] > 0 /\ life[l] \in 0..TTL /\ \A m \in Machines : Covered(l, m)
      BY <1>7, <3>1, CoherentTypes DEF CoherentInv
    <3>3. ASSUME NEW m \in Machines PROVE Covered(l, m)'
      <4>1. Covered(l, m)
        BY <3>2
      <4>2. index[m] \subseteq index'[m] /\ (life[l] < indexLife[m] => life[l] < indexLife'[m])
        BY <1>2, <1>4, <3>2
      <4> QED BY <1>1, <1>6, <3>1, <4>1, <4>2 DEF Covered
    <3> QED BY <3>1, <3>2, <3>3
  <2> QED BY <2>1, <2>2
<1>8. (\A g \in Handlers : hpc[g] = "store" => val[g] = Answer(query[g]))'
  BY <1>1, <1>3 DEF CoherentInv, Answer
<1>9. ASSUME NEW g \in Handlers, hpc'[g] = "del" PROVE index'[machine'[g]] \subseteq todel'[g]
  <2>1. g # h /\ hpc[g] = "del" /\ machine'[g] = machine[g] /\ todel'[g] = todel[g]
    BY <1>3, <1>9
  <2>2. machine[g] \in Machines /\ index[machine[g]] \subseteq todel[g]
    BY <2>1 DEF CoherentInv, CacheInv
  <2>3. machine[g] \notin DependsOn(query[h])
    BY <1>1, <2>1, <2>2 DEF FillsApart, Invalidating
  <2> QED BY <1>2, <2>1, <2>2, <2>3
<1>10. NoAnswer' = NoAnswer
  BY DEF NoAnswer
<1> QED BY <1>1, <1>3, <1>5, <1>7, <1>8, <1>9, <1>10 DEF CoherentInv

\* An eviction leaves nothing cached that is about its machine.
LEMMA CoherentDel ==
    ASSUME CoherentInv, CacheInv', NEW h \in Handlers, Del(h)
    PROVE  CoherentInv'
<1> DEFINE n == machine[h]
<1>1. /\ hpc[h] = "del" /\ n \in Machines /\ index[n] \subseteq todel[h] /\ Return(h)
      /\ version' = version /\ cool' = cool
  BY DEF Del, Ok, CoherentInv, CacheInv
<1>2. /\ cached' = [k \in Keys |-> IF k \in todel[h] THEN NoAnswer ELSE cached[k]]
      /\ life' = [k \in Keys |-> IF k \in todel[h] THEN 0 ELSE life[k]]
      /\ index' = [index EXCEPT ![n] = {}] /\ indexLife' = [indexLife EXCEPT ![n] = 0]
  BY DEF Del, Evict
<1>3. /\ hpc'[h] = "idle" /\ val' \in [Handlers -> [Machines -> Int]]
      /\ \A g \in Handlers \ {h} :
            /\ hpc'[g] = hpc[g] /\ query'[g] = query[g] /\ machine'[g] = machine[g]
            /\ val'[g] = val[g] /\ todel'[g] = todel[g]
  BY <1>1, ReturnFacts
<1>4. NoAnswer \in [Machines -> Int] /\ NoAnswer' = NoAnswer
  BY DEF NoAnswer
<1>5. TTL \in Nat
  BY LifetimesAssumption
<1>6. /\ cached' \in [Keys -> [Machines -> Int]] /\ life' \in [Keys -> 0..TTL]
      /\ indexLife' \in [Machines -> Nat]
  <2> DEFINE A == [Machines -> Int]
  <2>1. cached \in [Keys -> A] /\ life \in [Keys -> 0..TTL] /\ indexLife \in [Machines -> Nat]
    BY CoherentTypes
  <2>2. 0 \in 0..TTL /\ NoAnswer \in A
    BY <1>4, <1>5
  <2> HIDE DEF A
  <2>3. cached' \in [Keys -> A]
    BY <1>2, <2>1, <2>2
  <2> QED BY <1>2, <2>1, <2>2, <2>3 DEF A
<1>7. \A g \in Handlers : \A m : m # n => (Invalidating(g, m)' <=> Invalidating(g, m))
  BY <1>1, <1>3 DEF Invalidating
<1> HIDE DEF n
<1>8. ASSUME NEW k \in Keys, cached'[k] # NoAnswer
      PROVE  life'[k] > 0 /\ \A m \in Machines : Covered(k, m)'
  <2>1. k \notin todel[h] /\ cached'[k] = cached[k] /\ life'[k] = life[k]
    BY <1>2, <1>8
  <2>2. life[k] > 0 /\ \A m \in Machines : Covered(k, m)
    BY <1>8, <2>1 DEF CoherentInv
  <2>3. n \notin About(cached[k])
    <3>1. Covered(k, n)
      BY <1>1, <2>2
    <3> QED BY <1>1, <2>1, <3>1 DEF Covered
  <2>4. ASSUME NEW m \in Machines PROVE Covered(k, m)'
    <3>1. Covered(k, m)
      BY <2>2
    <3>2. m # n => index'[m] = index[m] /\ indexLife'[m] = indexLife[m]
      BY <1>2, CoherentTypes
    <3> QED BY <1>1, <1>7, <2>1, <2>3, <3>1, <3>2 DEF Covered
  <2> QED BY <2>1, <2>2, <2>4
<1>9. (\A g \in Handlers : hpc[g] = "store" => val[g] = Answer(query[g]))'
  BY <1>1, <1>3 DEF CoherentInv, Answer
<1>10. ASSUME NEW g \in Handlers, hpc'[g] = "del" PROVE index'[machine'[g]] \subseteq todel'[g]
  <2>1. g # h /\ hpc[g] = "del" /\ machine'[g] = machine[g] /\ todel'[g] = todel[g]
    BY <1>3, <1>10
  <2>2. machine[g] \in Machines /\ index[machine[g]] \subseteq todel[g]
    BY <2>1 DEF CoherentInv, CacheInv
  <2>3. index'[machine[g]] \subseteq index[machine[g]]
    BY <1>2, <2>2, CoherentTypes
  <2> QED BY <2>1, <2>2, <2>3
<1> QED BY <1>1, <1>3, <1>4, <1>6, <1>8, <1>9, <1>10 DEF CoherentInv

\* A key set outlives the keys it names.
LEMMA CoherentTick ==
    ASSUME CoherentInv, CacheInv', Tick
    PROVE  CoherentInv'
<1>1. /\ cached' = [k \in Keys |-> IF life[k] = 1 THEN NoAnswer ELSE cached[k]]
      /\ life' = [k \in Keys |-> IF life[k] > 0 THEN life[k] - 1 ELSE life[k]]
      /\ index' = [m \in Machines |-> IF indexLife[m] = 1 THEN {} ELSE index[m]]
      /\ indexLife' = [m \in Machines |-> IF indexLife[m] > 0 THEN indexLife[m] - 1 ELSE 0]
      /\ version' = version /\ hpc' = hpc /\ query' = query /\ machine' = machine
      /\ val' = val /\ todel' = todel /\ cool' = 0
  BY DEF Tick, CoherentInv, request
<1>2. NoAnswer \in [Machines -> Int] /\ NoAnswer' = NoAnswer /\ TTL \in Nat
  BY LifetimesAssumption DEF NoAnswer
<1>3. /\ cached' \in [Keys -> [Machines -> Int]] /\ life' \in [Keys -> 0..TTL]
      /\ indexLife' \in [Machines -> Nat]
  BY <1>1, <1>2, CoherentTypes
<1>4. ASSUME NEW k \in Keys, cached'[k] # NoAnswer
      PROVE  life'[k] > 0 /\ \A m \in Machines : Covered(k, m)'
  <2>1. life[k] # 1 /\ cached'[k] = cached[k] /\ life[k] \in 0..TTL
    BY <1>1, <1>4, CoherentTypes
  <2>2. life[k] > 0 /\ \A m \in Machines : Covered(k, m)
    BY <1>4, <2>1 DEF CoherentInv
  <2>3. life'[k] = life[k] - 1 /\ life'[k] > 0
    BY <1>1, <1>2, <2>1, <2>2
  <2>4. ASSUME NEW m \in Machines PROVE Covered(k, m)'
    <3>1. Covered(k, m)
      BY <2>2
    <3>2. life[k] < indexLife[m] => index'[m] = index[m] /\ life'[k] < indexLife'[m]
      BY <1>1, <1>2, <2>1, <2>2, <2>3, CoherentTypes
    <3>3. \A g \in Handlers : Invalidating(g, m)' <=> Invalidating(g, m)
      BY <1>1 DEF Invalidating
    <3> QED BY <1>1, <2>1, <3>1, <3>2, <3>3 DEF Covered
  <2> QED BY <2>3, <2>4
<1>5. (\A g \in Handlers : hpc[g] = "store" => val[g] = Answer(query[g]))'
  BY <1>1 DEF CoherentInv, Answer
<1>6. ASSUME NEW g \in Handlers, hpc'[g] = "del" PROVE index'[machine'[g]] \subseteq todel'[g]
  <2>1. machine[g] \in Machines /\ index[machine[g]] \subseteq todel[g]
    BY <1>1, <1>6 DEF CoherentInv, CacheInv
  <2> QED BY <1>1, <2>1
<1> QED BY <1>1, <1>2, <1>3, <1>4, <1>5, <1>6 DEF CoherentInv

\* Every step of a run without failures, between states in which no fill
\* overlaps an invalidation it matters to.
LEMMA CoherentStep ==
    ASSUME ~Faults, CoherentInv, FillsApart, FillsApart', [CacheNext]_cacheVars
    PROVE  CoherentInv'
<1>1. CacheInv'
  BY StepCache DEF CoherentInv
<1>2. CASE Tick
  BY <1>1, <1>2, CoherentTick
<1>3. ASSUME NEW h \in Handlers, Proceed(h) PROVE CoherentInv'
  <2>1. \/ Get(h) \/ Load(h) \/ InvalidateMachine(h) \/ SMembers(h) \/ Store(h) \/ Del(h)
    BY <1>3 DEF Proceed, GetFails, LoadFails, StoreFails, SMembersFails, DelFails
  <2> QED BY <1>1, <2>1, CoherentOn, CoherentStore, CoherentDel
<1>4. ASSUME NEW h \in Handlers, NEW q \in Queries, HandleRead(h, q) PROVE CoherentInv'
  BY <1>1, <1>4, CoherentOn
<1>5. ASSUME NEW h \in Handlers, NEW m \in Machines, CommitIngest(h, m) PROVE CoherentInv'
  BY <1>1, <1>5, CoherentCommit
<1>6. CASE UNCHANGED cacheVars
  <2>1. /\ UNCHANGED <<version, redis, cool>> /\ hpc' = hpc /\ query' = query /\ machine' = machine
        /\ val' = val /\ todel' = todel
    BY <1>6 DEF cacheVars, breaker, request
  <2>2. \A h \in Handlers : \A m : Invalidating(h, m) => Invalidating(h, m)'
    BY <2>1 DEF Invalidating
  <2> QED BY <1>1, <2>1, <2>2, CoherentKept DEF CoherentInv
<1>7. \A m \in Machines : ~CommitUnreported(m)
  BY DEF CommitUnreported
<1> QED BY <1>2, <1>3, <1>4, <1>5, <1>6, <1>7 DEF CacheNext

\* Where the claim of cache.go ("invalidated by the thing that makes it wrong,
\* which is an ingest for the machine it describes") does hold: for any handlers,
\* queries and machines and any lifetimes with IndexTTL > TTL, in a run without
\* failures a stale answer outlives the requests only if an answer was waiting to
\* be stored while an ingest of a machine it is about was between its commit and
\* the end of its invalidation.  Ingests may overlap each other and reads reads.
THEOREM StaleOnlyByRace ==
    ASSUME ~Faults
    PROVE  CacheSpec /\ []FillsApart => []CoherentAtRest
<1>1. CacheInit => CoherentInv
  <2> SUFFICES ASSUME CacheInit PROVE CoherentInv
    OBVIOUS
  <2>1. CacheInv
    BY DEF CacheInit, CacheInv, CacheType
  <2>2. TTL \in Nat /\ NoAnswer \in [Machines -> Int]
    BY LifetimesAssumption DEF NoAnswer
  <2> QED BY <2>1, <2>2 DEF CacheInit, CoherentInv
<1>2. CoherentInv /\ FillsApart /\ FillsApart' /\ [CacheNext]_cacheVars => CoherentInv'
  BY CoherentStep
<1>3. CoherentInv => CoherentAtRest
  <2> SUFFICES ASSUME CoherentInv, \A h \in Handlers : hpc[h] = "idle",
                      NEW k \in Keys, NEW m \in About(cached[k])
               PROVE  cached[k][m] = version[m]
    BY DEF CoherentAtRest, Stale
  <2>1. m \in Machines /\ cached[k] # NoAnswer
    BY DEF About, NoAnswer
  <2>2. Covered(k, m) /\ \A h \in Handlers : ~Invalidating(h, m)
    BY <2>1 DEF CoherentInv, Invalidating
  <2> QED BY <2>2 DEF Covered
<1> QED BY <1>1, <1>2, <1>3, PTL DEF CacheSpec

=============================================================================
