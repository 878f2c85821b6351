--------------------------- MODULE DocumentProofs ---------------------------
(***************************************************************************)
(* What holds of the decoder for every well-formed document, whoever sent  *)
(* it, and of the documents of the engine: their statistics are sound, the *)
(* engine's own validation and the API accept them, and their rows have    *)
(* different keys.                                                         *)
(***************************************************************************)
EXTENDS Document, FiniteSetTheorems, WellFoundedInduction, TLAPS

-----------------------------------------------------------------------------
(* Lists. *)

\* A list is a function over an initial part of the positive numbers.
LEMMA ListFacts ==
    ASSUME NEW s, IsList(s)
    PROVE  /\ Len(s) \in Nat /\ DOMAIN s = 1..Len(s)
           /\ s = [k \in 1..Len(s) |-> s[k]]
<1> DEFINE S == ToSet(s)
<1>1. s \in Seq(S)
  BY DEF IsList
<1> HIDE DEF S
<1> QED BY <1>1

\* Conversely, such a function is a list.
LEMMA FunctionIsList ==
    ASSUME NEW n \in Nat, NEW f, f = [k \in 1..n |-> f[k]]
    PROVE  IsList(f) /\ Len(f) = n
<1> DEFINE S == ToSet(f)
<1>1. DOMAIN f = 1..n
  OBVIOUS
<1>2. \A k \in 1..n : f[k] \in S
  BY <1>1 DEF ToSet
<1>3. f \in [1..n -> S]
  BY <1>2
<1> HIDE DEF S
<1>4. f \in Seq(S) /\ Len(f) = n
  BY <1>1, <1>3
<1> QED BY <1>4 DEF IsList, S

\* Two lists make one.
LEMMA ConcatIsList ==
    ASSUME NEW s, NEW t, IsList(s), IsList(t)
    PROVE  IsList(s \o t)
<1> DEFINE A == ToSet(s)
           B == ToSet(t)
<1>1. s \in Seq(A) /\ t \in Seq(B)
  BY DEF IsList
<1> HIDE DEF A, B
<1>2. s \in Seq(A \cup B) /\ t \in Seq(A \cup B)
  BY <1>1
<1>3. s \o t \in Seq(A \cup B)
  BY <1>2
<1>4. \A q \in Seq(A \cup B) : Len(q) \in Nat /\ q = [k \in 1..Len(q) |-> q[k]]
  OBVIOUS
<1>5. \A q \in Seq(A \cup B) : IsList(q)
  BY <1>4, FunctionIsList
<1> QED BY <1>3, <1>5

\* Every non-empty set of natural numbers has a least element: the form in
\* which the proofs below use induction.
LEMMA LeastOfNats ==
  ASSUME NEW T, T \subseteq Nat, T # {} PROVE \E n \in T : \A m \in T : n <= m
<1> DEFINE Less == OpToRel(<, Nat)
<1>1. IsWellFoundedOn(Less, Nat)
  BY NatLessThanWellFounded
<1>2. \A m, n \in Nat : m < n => <<m, n>> \in Less
  BY DEF OpToRel
<1> HIDE DEF Less
<1>3. PICK n \in T : \A m \in T : ~(<<m, n>> \in Less)
  BY <1>1, WFMin
<1>4. \A m \in T : n <= m
  <2> SUFFICES ASSUME NEW m \in T PROVE n <= m
    OBVIOUS
  <2>1. m \in Nat /\ n \in Nat
    OBVIOUS
  <2>2. ~(m < n)
    BY <1>2, <1>3, <2>1
  <2> QED BY <2>1, <2>2
<1> QED BY <1>4

\* Induction up to n: what holds of 0 and carries over to the next number holds
\* of all of them.
LEMMA UpTo ==
  ASSUME NEW n \in Nat, NEW T, 0 \in T, \A k \in 1..n : k - 1 \in T => k \in T
  PROVE  \A k \in 0..n : k \in T
<1> DEFINE U == {k \in Nat : k <= n /\ k \notin T}
<1> SUFFICES ASSUME U # {} PROVE FALSE
  OBVIOUS
<1>1. U \subseteq Nat
  OBVIOUS
<1>2. PICK k \in U : \A m \in U : k <= m
  <2> HIDE DEF U
  <2> QED BY <1>1, LeastOfNats
<1>3. k \in Nat /\ k <= n /\ k \notin T /\ k # 0
  OBVIOUS
<1>4. k - 1 \in Nat /\ k - 1 <= n /\ ~(k <= k - 1) /\ k \in 1..n
  BY <1>3
<1>5. k - 1 \notin U
  <2> HIDE DEF U
  <2> QED BY <1>2, <1>4
<1>6. k - 1 \in T
  BY <1>4, <1>5
<1> QED BY <1>3, <1>4, <1>6

\* FlattenSeq() joins the sequences one after the other.
LEMMA FlattenUnfolds ==
  ASSUME NEW S, NEW ss \in Seq(Seq(S)), Len(ss) # 0
  PROVE  \E f \in [1..Len(ss) -> Seq(S)] :
            /\ \A k \in 1..Len(ss) : f[k] = IF k = 1 THEN ss[k] ELSE f[k - 1] \o ss[k]
            /\ FlattenSeq(ss) = f[Len(ss)]
<1> DEFINE Step(f, n) == [k \in 1..n |-> IF k = 1 THEN ss[k] ELSE f[k - 1] \o ss[k]]
           T == {n \in Nat : n <= Len(ss) /\ ~\E f \in [1..n -> Seq(S)] : f = Step(f, n)}
<1>1. Len(ss) \in Nat /\ \A k \in 1..Len(ss) : ss[k] \in Seq(S)
  OBVIOUS
<1>2. T = {}
  <2> SUFFICES ASSUME T # {} PROVE FALSE
    OBVIOUS
  <2>1. PICK n \in T : \A m \in T : n <= m
    <3>1. T \subseteq Nat
      OBVIOUS
    <3> HIDE DEF T
    <3> QED BY <3>1, LeastOfNats
  <2>2. n \in Nat /\ n <= Len(ss) /\ ~\E f \in [1..n -> Seq(S)] : f = Step(f, n)
    OBVIOUS
  <2>3. n # 0
    <3>1. <<>> \in [1..0 -> Seq(S)] /\ <<>> = Step(<<>>, 0)
      OBVIOUS
    <3> QED BY <2>2, <3>1
  <2>4. n - 1 \in Nat /\ n - 1 <= Len(ss)
    BY <1>1, <2>2, <2>3
  <2>5. n - 1 \notin T
    <3> HIDE DEF T
    <3> QED BY <2>1, <2>2, <2>4
  <2>6. \E g \in [1..(n - 1) -> Seq(S)] : g = Step(g, n - 1)
    <3> HIDE DEF Step
    <3> QED BY <2>4, <2>5
  <2>7. PICK g \in [1..(n - 1) -> Seq(S)] : g = Step(g, n - 1)
    BY <2>6
  <2> DEFINE h == [k \in 1..n |-> IF k < n THEN g[k] ELSE IF k = 1 THEN ss[k] ELSE g[k - 1] \o ss[k]]
  <2>8. h \in [1..n -> Seq(S)]
    <3>1. ASSUME NEW k \in 1..n PROVE h[k] \in Seq(S)
      <4>1. CASE k < n
        BY <2>2, <2>7, <4>1
      <4>2. CASE k = n /\ k = 1
        BY <1>1, <2>2, <4>2
      <4>3. CASE k = n /\ k # 1
        <5>1. g[k - 1] \in Seq(S) /\ ss[k] \in Seq(S)
          BY <1>1, <2>2, <2>7, <4>3
        <5> QED BY <4>3, <5>1
      <4> QED BY <2>2, <4>1, <4>2, <4>3
    <3> QED BY <3>1
  <2>9. h = Step(h, n)
    <3>1. ASSUME NEW k \in 1..n PROVE h[k] = IF k = 1 THEN ss[k] ELSE h[k - 1] \o ss[k]
      <4>1. CASE k < n
        <5>1. h[k] = g[k] /\ k \in 1..(n - 1)
          BY <2>2, <4>1
        <5>2. g[k] = IF k = 1 THEN ss[k] ELSE g[k - 1] \o ss[k]
          BY <2>7, <5>1
        <5>3. k # 1 => h[k - 1] = g[k - 1]
          BY <2>2, <4>1
        <5> QED BY <5>1, <5>2, <5>3
      <4>2. CASE k = n
        <5>1. k # 1 => h[k - 1] = g[k - 1]
          BY <2>2, <4>2
        <5> QED BY <4>2, <5>1
      <4> QED BY <2>2, <4>1, <4>2
    <3>2. DOMAIN h = 1..n /\ h = [k \in 1..n |-> h[k]]
      OBVIOUS
    <3> HIDE DEF h
    <3>3. [k \in 1..n |-> h[k]] = Step(h, n)
      BY <3>1
    <3> QED BY <3>2, <3>3
  <2> QED BY <2>2, <2>8, <2>9
<1> DEFINE Eq(f) == f = Step(f, Len(ss))
<1>3. \E f : Eq(f)
  <2>1. Len(ss) \in Nat /\ Len(ss) \notin T
    BY <1>1, <1>2
  <2>2. \E f \in [1..Len(ss) -> Seq(S)] : f = Step(f, Len(ss))
    <3> HIDE DEF Step
    <3> QED BY <2>1
  <2> QED BY <2>2
<1>4. FlattenSeq(ss) = (CHOOSE f : Eq(f))[Len(ss)]
  BY DEF FlattenSeq
<1>5. PICK f : f = (CHOOSE g : Eq(g))
  OBVIOUS
<1>6. Eq(f)
  <2> HIDE DEF Eq
  <2> QED BY <1>3, <1>5
<1>7. \A k \in 1..Len(ss) : f[k] \in Seq(S)
  <2> DEFINE U == {k \in Nat : k \in 1..Len(ss) /\ f[k] \notin Seq(S)}
  <2> SUFFICES ASSUME NEW k \in 1..Len(ss), f[k] \notin Seq(S) PROVE FALSE
    OBVIOUS
  <2>0. U # {}
    <3>1. k \in Nat /\ k \in 1..Len(ss)
      BY <1>1
    <3>2. k \in U
      BY <3>1
    <3> QED BY <3>2
  <2>1. PICK n \in U : \A m \in U : n <= m
    <3>1. U \subseteq Nat
      OBVIOUS
    <3> HIDE DEF U
    <3> QED BY <2>0, <3>1, LeastOfNats
  <2>2. f[n] = IF n = 1 THEN ss[n] ELSE f[n - 1] \o ss[n]
    BY <1>6
  <2>3. n # 1
    BY <1>1, <2>2
  <2>4. f[n - 1] \in Seq(S)
    <3>1. n - 1 \in 1..Len(ss)
      BY <1>1, <2>3
    <3>2. n - 1 \notin U
      <4>1. n \in Nat /\ ~(n <= n - 1)
        OBVIOUS
      <4> HIDE DEF U
      <4> QED BY <2>1, <4>1
    <3> QED BY <3>1, <3>2
  <2>5. ss[n] \in Seq(S)
    BY <1>1
  <2>6. f[n] \in Seq(S)
    BY <2>2, <2>3, <2>4, <2>5
  <2> QED BY <2>6
<1>8. f = Step(f, Len(ss))
  BY <1>6
<1>9. \A k \in 1..Len(ss) : f[k] = IF k = 1 THEN ss[k] ELSE f[k - 1] \o ss[k]
  BY <1>8
<1>10. DOMAIN f = 1..Len(ss) /\ f = [k \in 1..Len(ss) |-> f[k]]
  BY <1>8
<1>11. f \in [1..Len(ss) -> Seq(S)]
  <2> HIDE DEF Step
  <2> QED BY <1>7, <1>10
<1>12. FlattenSeq(ss) = f[Len(ss)]
  BY <1>4, <1>5
<1> QED BY <1>9, <1>11, <1>12

\* FlattenSeq() of a sequence of sequences over S is a sequence over S.
LEMMA FlattenType ==
  ASSUME NEW S, NEW ss \in Seq(Seq(S))
  PROVE  FlattenSeq(ss) \in Seq(S)
<1>1. CASE Len(ss) = 0
  BY <1>1 DEF FlattenSeq
<1>2. CASE Len(ss) # 0
  <2>1. PICK f \in [1..Len(ss) -> Seq(S)] : FlattenSeq(ss) = f[Len(ss)]
    BY <1>2, FlattenUnfolds
  <2>2. Len(ss) \in 1..Len(ss)
    BY <1>2
  <2> QED BY <2>1, <2>2
<1> QED BY <1>1, <1>2

\* Lists of lists are sequences of sequences over what is in them.
LEMMA ListOfLists ==
    ASSUME NEW ss, IsList(ss), \A k \in DOMAIN ss : IsList(ss[k])
    PROVE  ss \in Seq(Seq(UNION {ToSet(ss[k]) : k \in DOMAIN ss}))
<1> DEFINE S == UNION {ToSet(ss[k]) : k \in DOMAIN ss}
<1>1. Len(ss) \in Nat /\ DOMAIN ss = 1..Len(ss) /\ ss = [k \in 1..Len(ss) |-> ss[k]]
  BY ListFacts
<1>2. ASSUME NEW k \in DOMAIN ss PROVE ss[k] \in Seq(S)
  <2>1. ss[k] \in Seq(ToSet(ss[k])) /\ ToSet(ss[k]) \subseteq S
    BY DEF IsList
  <2> DEFINE A == ToSet(ss[k])
  <2> HIDE DEF A, S
  <2>2. \A q : q \in Seq(A) /\ A \subseteq S => q \in Seq(S)
    OBVIOUS
  <2> QED BY <2>1, <2>2 DEF A
<1>3. \A k \in DOMAIN ss : ss[k] \in Seq(S)
  BY <1>2
<1> DEFINE Q == Seq(S)
<1> HIDE DEF Q
<1>4. \A k \in DOMAIN ss : ss[k] \in Q
  BY <1>3 DEF Q
<1>5. ss \in Seq(Q)
  BY <1>1, <1>4
<1> QED BY <1>5 DEF Q

\* Two places of a concatenation come from two places of the parts.
LEMMA FlattenPlaces ==
  ASSUME NEW ss, IsList(ss), \A k \in DOMAIN ss : IsList(ss[k]),
         NEW l \in DOMAIN FlattenSeq(ss), NEW m \in DOMAIN FlattenSeq(ss), l # m
  PROVE  \E a, b \in DOMAIN ss : \E c \in DOMAIN ss[a], d \in DOMAIN ss[b] :
            /\ a # b \/ c # d
            /\ FlattenSeq(ss)[l] = ss[a][c] /\ FlattenSeq(ss)[m] = ss[b][d]
<1>0. PICK S : ss \in Seq(Seq(S))
  BY ListOfLists
<1>1. Len(ss) \in Nat /\ DOMAIN ss = 1..Len(ss) /\ \A k \in 1..Len(ss) : ss[k] \in Seq(S)
  BY <1>0
<1>2. Len(ss) # 0
  <2>1. Len(ss) = 0 => FlattenSeq(ss) = <<>>
    BY DEF FlattenSeq
  <2> QED BY <2>1
<1>3. PICK f \in [1..Len(ss) -> Seq(S)] :
         /\ \A k \in 1..Len(ss) : f[k] = IF k = 1 THEN ss[k] ELSE f[k - 1] \o ss[k]
         /\ FlattenSeq(ss) = f[Len(ss)]
  BY <1>0, <1>2, FlattenUnfolds
<1> DEFINE From(n, x) == \E a \in 1..n : \E c \in DOMAIN ss[a] : f[n][x] = ss[a][c]
           Apart(n, x, y) ==
              \E a, b \in 1..n : \E c \in DOMAIN ss[a], d \in DOMAIN ss[b] :
                 (a # b \/ c # d) /\ f[n][x] = ss[a][c] /\ f[n][y] = ss[b][d]
           Good(n) == /\ \A x \in DOMAIN f[n] : From(n, x)
                      /\ \A x, y \in DOMAIN f[n] : x # y => Apart(n, x, y)
           T == {n \in Nat : n \in 1..Len(ss) /\ ~Good(n)}
<1>4. Good(1)
  <2>1. f[1] = ss[1]
    BY <1>1, <1>2, <1>3
  <2> QED BY <2>1
<1>5. ASSUME NEW n \in 1..Len(ss), n # 1, Good(n - 1) PROVE Good(n)
  <2>0. n - 1 \in 1..Len(ss) /\ f[n - 1] \in Seq(S) /\ ss[n] \in Seq(S)
    <3>1. n - 1 \in 1..Len(ss)
      BY <1>1, <1>5
    <3> QED BY <1>1, <3>1
  <2>1. PICK p \in Seq(S), q \in Seq(S) : p = f[n - 1] /\ q = ss[n]
    BY <2>0
  <2>2. f[n] = p \o q
    BY <1>3, <1>5, <2>1
  <2>3. /\ DOMAIN p = 1..Len(p) /\ DOMAIN q = 1..Len(q) /\ Len(p) \in Nat /\ Len(q) \in Nat
        /\ DOMAIN f[n] = 1..(Len(p) + Len(q))
        /\ \A x \in DOMAIN f[n] :
              IF x <= Len(p) THEN x \in DOMAIN p /\ f[n][x] = p[x]
              ELSE x - Len(p) \in DOMAIN q /\ f[n][x] = q[x - Len(p)]
    <3>1. p \in Seq(S) /\ q \in Seq(S)
      BY <2>1
    <3>2. PICK j : j = f[n]
      OBVIOUS
    <3> QED BY <2>2, <3>1, <3>2
  <2>4. ASSUME NEW x \in DOMAIN f[n], x <= Len(p)
        PROVE  \E a \in 1..(n - 1) : \E c \in DOMAIN ss[a] : f[n][x] = ss[a][c]
    <3>1. \A y \in DOMAIN p : \E a \in 1..(n - 1) : \E c \in DOMAIN ss[a] : p[y] = ss[a][c]
      BY <1>5, <2>1
    <3>2. x \in DOMAIN p /\ f[n][x] = p[x]
      BY <2>3, <2>4
    <3> QED BY <3>1, <3>2
  <2>5. ASSUME NEW x \in DOMAIN f[n], ~(x <= Len(p))
        PROVE  x - Len(p) \in DOMAIN ss[n] /\ f[n][x] = ss[n][x - Len(p)]
    BY <2>1, <2>3, <2>5
  <2>6. ASSUME NEW x \in DOMAIN f[n] PROVE From(n, x)
    <3>1. CASE x <= Len(p)
      <4>1. \A a \in 1..(n - 1) : a \in 1..n
        OBVIOUS
      <4> QED BY <2>4, <3>1, <4>1
    <3>2. CASE ~(x <= Len(p))
      <4>1. n \in 1..n
        OBVIOUS
      <4> QED BY <2>5, <3>2, <4>1
    <3> QED BY <3>1, <3>2
  <2>7. ASSUME NEW x \in DOMAIN f[n], NEW y \in DOMAIN f[n], x <= Len(p), ~(y <= Len(p))
        PROVE  Apart(n, x, y) /\ Apart(n, y, x)
    <3>1. PICK a \in 1..(n - 1) : \E c \in DOMAIN ss[a] : f[n][x] = ss[a][c]
      BY <2>4, <2>7
    <3>2. PICK c \in DOMAIN ss[a] : f[n][x] = ss[a][c]
      BY <3>1
    <3>3. PICK d \in DOMAIN ss[n] : f[n][y] = ss[n][d]
      BY <2>5, <2>7
    <3>4. a \in 1..n /\ n \in 1..n /\ a # n
      OBVIOUS
    <3> QED BY <3>2, <3>3, <3>4
  <2>8. ASSUME NEW x \in DOMAIN f[n], NEW y \in DOMAIN f[n], x # y PROVE Apart(n, x, y)
    <3>1. CASE x <= Len(p) /\ y <= Len(p)
      <4>1. Apart(n - 1, x, y)
        BY <1>5, <2>1, <2>3, <2>8, <3>1
      <4>2. f[n][x] = f[n - 1][x] /\ f[n][y] = f[n - 1][y]
        BY <2>1, <2>3, <3>1
      <4>3. \A a \in 1..(n - 1) : a \in 1..n
        OBVIOUS
      <4> QED BY <4>1, <4>2, <4>3
    <3>2. CASE ~(x <= Len(p)) /\ ~(y <= Len(p))
      <4>1. n \in 1..n /\ x - Len(p) # y - Len(p)
        BY <2>3, <2>8
      <4> QED BY <2>5, <3>2, <4>1
    <3> QED BY <2>7, <3>1, <3>2
  <2> QED BY <2>6, <2>8
<1>6. T = {}
  <2> SUFFICES ASSUME T # {} PROVE FALSE
    OBVIOUS
  <2>1. PICK n \in T : \A k \in T : n <= k
    <3>1. T \subseteq Nat
      OBVIOUS
    <3> HIDE DEF T
    <3> QED BY <3>1, LeastOfNats
  <2>2. n \in Nat /\ n \in 1..Len(ss) /\ ~Good(n)
    <3> HIDE DEF Good
    <3> QED OBVIOUS
  <2> HIDE DEF Good
  <2>3. n # 1
    BY <1>4, <2>2
  <2>4. n - 1 \in Nat /\ n - 1 \in 1..Len(ss) /\ ~(n <= n - 1)
    BY <1>1, <2>2, <2>3
  <2>5. Good(n - 1)
    BY <2>1, <2>4
  <2> QED BY <1>5, <2>2, <2>3, <2>5
<1>7. Good(Len(ss))
  <2>1. Len(ss) \in Nat /\ Len(ss) \in 1..Len(ss)
    BY <1>1, <1>2
  <2> HIDE DEF Good
  <2> QED BY <1>6, <2>1
<1>8. \A x, y \in DOMAIN f[Len(ss)] : x # y => Apart(Len(ss), x, y)
  BY <1>7
<1>9. l \in DOMAIN f[Len(ss)] /\ m \in DOMAIN f[Len(ss)] /\ l # m
  BY <1>3
<1>10. Apart(Len(ss), l, m)
  <2> HIDE DEF Apart
  <2> QED BY <1>8, <1>9
<1>11. PICK a \in 1..Len(ss), b \in 1..Len(ss) :
          \E c \in DOMAIN ss[a], d \in DOMAIN ss[b] :
             (a # b \/ c # d) /\ f[Len(ss)][l] = ss[a][c] /\ f[Len(ss)][m] = ss[b][d]
  BY <1>10
<1> HIDE DEF From, Apart, Good, T
<1>12. PICK c \in DOMAIN ss[a], d \in DOMAIN ss[b] :
          (a # b \/ c # d) /\ f[Len(ss)][l] = ss[a][c] /\ f[Len(ss)][m] = ss[b][d]
  BY <1>11
<1>13. PICK g, h : g = f[Len(ss)] /\ h = FlattenSeq(ss)
  OBVIOUS
<1>14. g[l] = ss[a][c] /\ g[m] = ss[b][d] /\ g = h
  BY <1>3, <1>12, <1>13
<1>15. h[l] = ss[a][c] /\ h[m] = ss[b][d]
  BY <1>14
<1>16. a \in DOMAIN ss /\ b \in DOMAIN ss
  BY <1>1
<1> QED BY <1>12, <1>13, <1>15, <1>16, Zenon

\* The elements of a concatenation are those of its parts.
LEMMA FlattenElements ==
    ASSUME NEW ss, IsList(ss), \A k \in DOMAIN ss : IsList(ss[k])
    PROVE  /\ IsList(FlattenSeq(ss))
           /\ \A l \in DOMAIN FlattenSeq(ss) : \E k \in DOMAIN ss : \E j \in DOMAIN ss[k] :
                 FlattenSeq(ss)[l] = ss[k][j]
<1> DEFINE S == UNION {ToSet(ss[k]) : k \in DOMAIN ss}
           f == FlattenSeq(ss)
<1>1. ss \in Seq(Seq(S))
  BY ListOfLists
<1>2. f \in Seq(S)
  BY <1>1, FlattenType
<1> HIDE DEF f, S
<1>3. Len(f) \in Nat /\ DOMAIN f = 1..Len(f) /\ f = [k \in 1..Len(f) |-> f[k]]
      /\ \A l \in DOMAIN f : f[l] \in S
  BY <1>2
<1>4. IsList(f)
  BY <1>3, FunctionIsList
<1> QED BY <1>3, <1>4 DEF f, S, ToSet

\* Nothing is lost: where the whole is empty, so is every part.
LEMMA FlattenEmpty ==
    ASSUME NEW ss, IsList(ss), \A k \in DOMAIN ss : IsList(ss[k]), FlattenSeq(ss) = <<>>
    PROVE  \A k \in DOMAIN ss : Len(ss[k]) = 0
<1>0. PICK S : ss \in Seq(Seq(S))
  BY ListOfLists
<1> DEFINE n == Len(ss)
<1>1. n \in Nat /\ DOMAIN ss = 1..n /\ \A k \in 1..n : ss[k] \in Seq(S)
  BY <1>0
<1>2. CASE n = 0
  BY <1>1, <1>2
<1>3. CASE n # 0
  <2>1. PICK f \in [1..n -> Seq(S)] :
           /\ \A k \in 1..n : f[k] = IF k = 1 THEN ss[k] ELSE f[k - 1] \o ss[k]
           /\ FlattenSeq(ss) = f[n]
    BY <1>0, <1>3, FlattenUnfolds
  <2> HIDE DEF n
  <2> DEFINE A == [k \in 1..n |-> Len(ss[k])]
             B == [k \in 1..n |-> Len(f[k])]
  <2>2. ASSUME NEW k \in 1..n
        PROVE  /\ A[k] = Len(ss[k]) /\ B[k] = Len(f[k]) /\ A[k] \in Nat /\ B[k] \in Nat
               /\ k = 1 => B[k] = A[k]
               /\ k # 1 => k - 1 \in 1..n /\ B[k] = B[k - 1] + A[k]
    <3>1. ss[k] \in Seq(S) /\ f[k] \in Seq(S)
      BY <1>1, <2>1
    <3>2. A[k] = Len(ss[k]) /\ B[k] = Len(f[k]) /\ A[k] \in Nat /\ B[k] \in Nat
      BY <3>1
    <3>3. CASE k = 1
      <4>1. f[k] = ss[k]
        BY <2>1, <3>3
      <4> QED BY <3>2, <3>3, <4>1
    <3>4. CASE k # 1
      <4>1. k - 1 \in 1..n
        BY <1>1, <3>4
      <4>2. f[k] = f[k - 1] \o ss[k] /\ f[k - 1] \in Seq(S)
        BY <2>1, <3>4, <4>1
      <4>3. Len(f[k]) = Len(f[k - 1]) + Len(ss[k]) /\ B[k - 1] = Len(f[k - 1])
        BY <3>1, <4>1, <4>2
      <4> QED BY <3>2, <3>4, <4>1, <4>3
    <3> QED BY <3>3, <3>4
  <2> HIDE DEF A, B
  <2> DEFINE T == {k \in 0..n : \A a \in 1..k : A[a] <= B[k]}
  <2>3. 0 \in T
    BY <1>1
  <2>4. ASSUME NEW k \in 1..n, k - 1 \in T PROVE k \in T
    <3>1. ASSUME NEW a \in 1..k PROVE A[a] <= B[k]
      <4>1. A[k] \in Nat /\ B[k] \in Nat /\ k \in Nat /\ a \in Nat
        BY <1>1, <2>2
      <4>2. CASE k = 1
        <5>1. a = k
          BY <4>1, <4>2
        <5> QED BY <2>2, <4>1, <4>2, <5>1
      <4>3. CASE k # 1
        <5>1. k - 1 \in 1..n /\ B[k] = B[k - 1] + A[k]
          BY <2>2, <4>3
        <5>2. B[k - 1] \in Nat
          BY <2>2, <5>1
        <5>3. CASE a = k
          BY <4>1, <5>1, <5>2, <5>3
        <5>4. CASE a # k
          <6>1. a \in 1..(k - 1) /\ a \in 1..n
            BY <1>1, <4>1, <5>4
          <6>2. A[a] <= B[k - 1]
            BY <2>4, <6>1
          <6>3. A[a] \in Nat
            BY <2>2, <6>1
          <6> QED BY <4>1, <5>1, <5>2, <6>2, <6>3
        <5> QED BY <5>3, <5>4
      <4> QED BY <4>2, <4>3
    <3>2. k \in 0..n
      BY <1>1
    <3> QED BY <3>1, <3>2
  <2>5. n \in T
    <3>1. n \in 0..n
      BY <1>1
    <3> HIDE DEF T
    <3> QED BY <1>1, <2>3, <2>4, <3>1, UpTo
  <2>6. ASSUME NEW k \in 1..n PROVE Len(ss[k]) = 0
    <3>1. A[k] <= B[n] /\ A[k] \in Nat /\ n \in 1..n
      BY <1>1, <1>3, <2>2, <2>5
    <3>2. B[n] = 0
      <4>1. B[n] = Len(f[n])
        BY <2>2, <3>1
      <4> QED BY <2>1, <4>1
    <3>3. A[k] = 0
      BY <3>1, <3>2
    <3> QED BY <2>2, <3>3
  <2> QED BY <1>1, <2>6
<1> QED BY <1>2, <1>3

-----------------------------------------------------------------------------
(* Sums and their squares. *)

\* There are the partial sums of a list of numbers, and Total is the last.
LEMMA TotalUnfolds ==
  ASSUME NEW v \in Seq(Int)
  PROVE  \E f \in [0..Len(v) -> Int] :
            /\ f[0] = 0 /\ \A k \in 1..Len(v) : f[k] = f[k - 1] + v[k]
            /\ Total(v) = f[Len(v)]
<1> DEFINE Step(f, n) == [k \in 0..n |-> IF k = 0 THEN 0 ELSE f[k - 1] + v[k]]
           T == {n \in Nat : \E f \in [0..n -> Int] : f = Step(f, n)}
<1>1. Len(v) \in Nat /\ \A k \in 1..Len(v) : v[k] \in Int
  OBVIOUS
<1>2. 0 \in T
  <2> DEFINE z == [k \in 0..0 |-> 0]
  <2>1. z \in [0..0 -> Int] /\ z = Step(z, 0)
    OBVIOUS
  <2> QED BY <2>1
<1>3. ASSUME NEW n \in 1..Len(v), n - 1 \in T PROVE n \in T
  <2>1. n \in Nat /\ n # 0 /\ v[n] \in Int
    BY <1>1
  <2>2. PICK g \in [0..(n - 1) -> Int] : g = Step(g, n - 1)
    BY <1>3
  <2> DEFINE h == [k \in 0..n |-> IF k < n THEN g[k] ELSE g[n - 1] + v[n]]
  <2>3. n - 1 \in 0..(n - 1) /\ g[n - 1] \in Int
    BY <2>1
  <2>4. h \in [0..n -> Int]
    BY <2>1, <2>3
  <2>5. ASSUME NEW k \in 0..n PROVE h[k] = IF k = 0 THEN 0 ELSE h[k - 1] + v[k]
    <3>1. CASE k < n
      <4>1. h[k] = g[k] /\ k \in 0..(n - 1)
        BY <2>1, <3>1
      <4>2. g[k] = IF k = 0 THEN 0 ELSE g[k - 1] + v[k]
        BY <2>2, <4>1
      <4>3. k # 0 => h[k - 1] = g[k - 1]
        BY <2>1, <3>1
      <4> QED BY <4>1, <4>2, <4>3
    <3>2. CASE k = n
      <4>1. h[k] = g[n - 1] + v[n] /\ h[n - 1] = g[n - 1]
        BY <2>1, <3>2
      <4> HIDE DEF h
      <4> QED BY <2>1, <3>2, <4>1
    <3> QED BY <2>1, <3>1, <3>2
  <2>6. h = [k \in 0..n |-> h[k]]
    OBVIOUS
  <2>7. h = Step(h, n)
    <3> HIDE DEF h
    <3>1. [k \in 0..n |-> h[k]] = Step(h, n)
      BY <2>5
    <3> QED BY <2>6, <3>1
  <2> HIDE DEF h, Step
  <2> QED BY <2>1, <2>4, <2>7
<1>4. Len(v) \in T
  <2>1. Len(v) \in 0..Len(v)
    BY <1>1
  <2> HIDE DEF T
  <2> QED BY <1>1, <1>2, <1>3, <2>1, UpTo
<1> DEFINE Eq(f) == f = Step(f, Len(v))
<1>5. \E f : Eq(f)
  BY <1>4
<1>6. Total(v) = (CHOOSE f : Eq(f))[Len(v)]
  BY DEF Total
<1>7. PICK f : f = (CHOOSE g : Eq(g))
  OBVIOUS
<1>8. Eq(f)
  <2> HIDE DEF Eq
  <2> QED BY <1>5, <1>7
<1>9. f = Step(f, Len(v))
  BY <1>8
<1>10. /\ f[0] = 0 /\ \A k \in 1..Len(v) : f[k] = f[k - 1] + v[k]
       /\ f = [k \in 0..Len(v) |-> f[k]]
  BY <1>1, <1>9
<1>11. \A k \in 0..Len(v) : f[k] \in Int
  <2> DEFINE I == {k \in 0..Len(v) : f[k] \in Int}
  <2>1. 0 \in I
    BY <1>1, <1>10
  <2>2. \A k \in 1..Len(v) : k - 1 \in I => k \in I
    <3> SUFFICES ASSUME NEW k \in 1..Len(v), k - 1 \in I PROVE k \in I
      OBVIOUS
    <3>1. f[k - 1] \in Int /\ v[k] \in Int /\ f[k] = f[k - 1] + v[k]
      BY <1>1, <1>10
    <3> QED BY <1>1, <3>1
  <2>3. \A k \in 0..Len(v) : k \in I
    <3> HIDE DEF I
    <3> QED BY <1>1, <2>1, <2>2, UpTo
  <2> QED BY <2>3
<1>12. f \in [0..Len(v) -> Int]
  <2> HIDE DEF Step
  <2> QED BY <1>10, <1>11
<1> QED BY <1>6, <1>7, <1>10, <1>12


\* A square is not negative.
LEMMA SquareNat == ASSUME NEW x \in Int PROVE x * x \in Int /\ x * x >= 0
OBVIOUS

\* The sample variance is not negative (Cauchy and Schwarz).
LEMMA VarianceNat ==
  ASSUME NEW v \in Seq(Int)
  PROVE  SampleVariance(v) \in Int /\ SampleVariance(v) >= 0
<1> DEFINE n == Len(v)
           w == [k \in DOMAIN v |-> v[k] * v[k]]
<1>1. n \in Nat /\ DOMAIN v = 1..n /\ \A k \in 1..n : v[k] \in Int
  OBVIOUS
<1>2. w \in Seq(Int) /\ Len(w) = n /\ \A k \in 1..n : w[k] = v[k] * v[k]
  BY <1>1
<1>3. PICK f \in [0..n -> Int] :
         f[0] = 0 /\ (\A k \in 1..n : f[k] = f[k - 1] + v[k]) /\ Total(v) = f[n]
  BY TotalUnfolds
<1>4. PICK g \in [0..n -> Int] :
         g[0] = 0 /\ (\A k \in 1..n : g[k] = g[k - 1] + v[k] * v[k]) /\ Total(w) = g[n]
  <2> HIDE DEF w, n
  <2> QED BY <1>2, TotalUnfolds
<1> HIDE DEF w
<1> DEFINE Distance(k, x) == g[k] - 2 * x * f[k] + k * (x * x)
           Spread(k) == k * g[k] - f[k] * f[k]
<1>5. ASSUME NEW k \in 1..n
      PROVE  /\ k \in Int /\ k - 1 \in 0..n /\ k - 1 \in Int /\ k \in 0..n
             /\ f[k - 1] \in Int /\ g[k - 1] \in Int /\ v[k] \in Int
  <2>1. k \in Int /\ k - 1 \in 0..n /\ k - 1 \in Int /\ k \in 0..n /\ v[k] \in Int
    BY <1>1
  <2> HIDE DEF n
  <2> QED BY <2>1, <1>3, <1>4
<1>6. \A x \in Int : \A k \in 0..n : Distance(k, x) >= 0
  <2> SUFFICES ASSUME NEW x \in Int PROVE \A k \in 0..n : Distance(k, x) >= 0
    OBVIOUS
  <2> DEFINE T == {k \in 0..n : Distance(k, x) >= 0}
  <2>1. 0 \in T
    BY <1>1, <1>3, <1>4
  <2>2. ASSUME NEW k \in 1..n, k - 1 \in T PROVE k \in T
    <3>1. Distance(k, x) = Distance(k - 1, x) + (v[k] - x) * (v[k] - x)
      <4>1. PICK a \in Int, b \in Int, y \in Int, c \in Int, d \in Int :
               /\ a = f[k - 1] /\ b = g[k - 1] /\ y = v[k] /\ c = k /\ d = k - 1
        BY <1>5
      <4>2. f[k] = a + y /\ g[k] = b + y * y /\ d = c - 1
        BY <1>3, <1>4, <4>1
      <4>3. (b + y * y) - 2 * x * (a + y) + c * (x * x)
               = (b - 2 * x * a + d * (x * x)) + (y - x) * (y - x)
        BY <4>2
      <4> QED BY <4>1, <4>2, <4>3
    <3>2. (v[k] - x) * (v[k] - x) \in Int /\ (v[k] - x) * (v[k] - x) >= 0
      <4>1. v[k] - x \in Int
        BY <1>5
      <4> QED BY <4>1, SquareNat
    <3>3. Distance(k - 1, x) \in Int /\ Distance(k - 1, x) >= 0
      BY <1>5, <2>2
    <3>4. Distance(k, x) >= 0
      <4> HIDE DEF Distance
      <4> QED BY <3>1, <3>2, <3>3
    <3> HIDE DEF Distance
    <3> QED BY <1>5, <3>4
  <2>3. \A k \in 0..n : k \in T
    <3> HIDE DEF T
    <3> QED BY <1>1, <2>1, <2>2, UpTo
  <2> HIDE DEF Distance
  <2> QED BY <2>3
<1>7. \A k \in 0..n : Spread(k) >= 0
  <2> DEFINE T == {k \in 0..n : Spread(k) >= 0}
  <2>1. 0 \in T
    BY <1>1, <1>3, <1>4
  <2>2. ASSUME NEW k \in 1..n, k - 1 \in T PROVE k \in T
    <3>1. Spread(k) = Spread(k - 1) + Distance(k - 1, v[k])
      <4>1. PICK a \in Int, b \in Int, y \in Int, c \in Int, d \in Int :
               /\ a = f[k - 1] /\ b = g[k - 1] /\ y = v[k] /\ c = k /\ d = k - 1
        BY <1>5
      <4>2. f[k] = a + y /\ g[k] = b + y * y /\ d = c - 1
        BY <1>3, <1>4, <4>1
      <4>3. c * (b + y * y) - (a + y) * (a + y)
               = (d * b - a * a) + (b - 2 * y * a + d * (y * y))
        BY <4>2
      <4> QED BY <4>1, <4>2, <4>3
    <3>2. Distance(k - 1, v[k]) \in Int /\ Distance(k - 1, v[k]) >= 0
      <4>1. Distance(k - 1, v[k]) \in Int
        <5>1. PICK a \in Int, b \in Int, y \in Int, c \in Int :
                 a = f[k - 1] /\ b = g[k - 1] /\ y = v[k] /\ c = k - 1
          BY <1>5
        <5>2. b - 2 * y * a + c * (y * y) \in Int
          OBVIOUS
        <5> QED BY <5>1, <5>2
      <4> HIDE DEF Distance
      <4> QED BY <1>5, <1>6, <4>1
    <3>3. Spread(k - 1) \in Int /\ Spread(k - 1) >= 0
      BY <1>5, <2>2
    <3> HIDE DEF Distance, Spread
    <3>4. Spread(k) >= 0
      BY <3>1, <3>2, <3>3
    <3> QED BY <1>5, <3>4
  <2>3. \A k \in 0..n : k \in T
    <3> HIDE DEF T
    <3> QED BY <1>1, <2>1, <2>2, UpTo
  <2> HIDE DEF Spread
  <2> QED BY <2>3
<1>8. n \in 0..n /\ f[n] \in Int /\ g[n] \in Int
  BY <1>1, <1>3, <1>4
<1>9. Spread(n) \in Int /\ Spread(n) >= 0
  BY <1>1, <1>7, <1>8
<1>10. SampleVariance(v) = IF n < 2 THEN 0 ELSE n * g[n] - f[n] * f[n]
  BY <1>3, <1>4 DEF SampleVariance, w
<1> QED BY <1>1, <1>9, <1>10


-----------------------------------------------------------------------------
(* Percentiles. *)

Ascending(s) == \A k, l \in DOMAIN s : k <= l => s[k] <= s[l]

\* The values of v, each as often, in some order.
Rearranges(s, v) ==
    \E q \in [DOMAIN v -> DOMAIN v] :
        /\ \A k, l \in DOMAIN v : k # l => q[k] # q[l]
        /\ \A j \in DOMAIN v : \E k \in DOMAIN v : q[k] = j
        /\ s = [k \in DOMAIN v |-> v[q[k]]]

\* The value at a rank in hundredths, and those at the whole ranks next to it.
Low(s, rank) == s[(rank \div 100) + 1]
High(s, rank) == s[((rank + 99) \div 100) + 1]
At(s, rank) == 100 * Low(s, rank) + (High(s, rank) - Low(s, rank)) * (rank % 100)

\* The two neighbours of a rank, and how far it is between them.
LEMMA RankFacts ==
  ASSUME NEW r \in Nat
  PROVE  /\ r \div 100 \in Nat /\ (r + 99) \div 100 \in Nat /\ (r % 100) \in 0..99
         /\ r = 100 * (r \div 100) + (r % 100)
         /\ (r % 100) = 0 => (r + 99) \div 100 = r \div 100
         /\ (r % 100) # 0 => (r + 99) \div 100 = (r \div 100) + 1
OBVIOUS

\* A percentile lies between the values at the two ranks next to it.
LEMMA Between ==
  ASSUME NEW a \in Int, NEW b \in Int, a <= b, NEW r \in 0..99
  PROVE  /\ 100 * a + (b - a) * r \in Int
         /\ 100 * a <= 100 * a + (b - a) * r /\ 100 * a + (b - a) * r <= 100 * b
<1> DEFINE d == b - a
<1>1. d \in Nat /\ b = a + d
  OBVIOUS
<1> HIDE DEF d
<1>2. d * r \in Int /\ 0 <= d * r
  BY <1>1
<1>3. (100 - r) \in Nat
  OBVIOUS
<1>4. d * (100 - r) \in Int /\ 0 <= d * (100 - r)
  BY <1>1, <1>3
<1>5. d * (100 - r) = 100 * d - d * r
  BY <1>1
<1>6. 100 * b = 100 * a + 100 * d
  BY <1>1
<1>7. 100 * a + (b - a) * r = 100 * a + d * r
  BY DEF d
<1> QED BY <1>1, <1>2, <1>4, <1>5, <1>6, <1>7

\* The further between two ascending values, the larger.
LEMMA Further ==
  ASSUME NEW a \in Int, NEW b \in Int, a <= b, NEW r \in 0..99, NEW t \in 0..99, r <= t
  PROVE  100 * a + (b - a) * r <= 100 * a + (b - a) * t
<1> DEFINE d == b - a
           e == t - r
<1>1. d \in Nat /\ e \in Nat /\ t = r + e
  OBVIOUS
<1>2. (b - a) * r = d * r /\ (b - a) * t = d * t
  OBVIOUS
<1> HIDE DEF d, e
<1>3. d * e \in Int /\ 0 <= d * e
  BY <1>1
<1>4. d * t = d * r + d * e
  BY <1>1
<1>5. d * r \in Int
  BY <1>1
<1> QED BY <1>2, <1>3, <1>4, <1>5

\* Where a rank of an ascending list lies.
LEMMA AtFacts ==
  ASSUME NEW n \in Nat, NEW s \in [1..(n + 1) -> Nat], Ascending(s), NEW r \in Nat, r <= 100 * n
  PROVE  /\ r \div 100 \in 0..n /\ (r + 99) \div 100 \in 0..n
         /\ Low(s, r) \in Nat /\ High(s, r) \in Nat /\ Low(s, r) <= High(s, r)
         /\ At(s, r) \in Int /\ 100 * Low(s, r) <= At(s, r) /\ At(s, r) <= 100 * High(s, r)
<1> DEFINE lo == r \div 100
           hi == (r + 99) \div 100
           m == r % 100
<1>1. /\ lo \in Nat /\ hi \in Nat /\ m \in 0..99 /\ r = 100 * lo + m
      /\ m = 0 => hi = lo
      /\ m # 0 => hi = lo + 1
  BY RankFacts
<1>2. /\ Low(s, r) = s[lo + 1] /\ High(s, r) = s[hi + 1]
      /\ At(s, r) = 100 * Low(s, r) + (High(s, r) - Low(s, r)) * m
  BY DEF At, Low, High
<1> HIDE DEF lo, hi, m
<1>3. lo \in 0..n /\ hi \in 0..n /\ lo <= hi
  BY <1>1
<1>4. lo + 1 \in 1..(n + 1) /\ hi + 1 \in 1..(n + 1) /\ lo + 1 <= hi + 1
  BY <1>3
<1>5. Low(s, r) \in Nat /\ High(s, r) \in Nat /\ Low(s, r) <= High(s, r)
  BY <1>2, <1>4 DEF Ascending
<1>6. PICK a \in Int, b \in Int, c \in 0..99 : a = Low(s, r) /\ b = High(s, r) /\ c = m
  BY <1>1, <1>5
<1>7. /\ 100 * a + (b - a) * c \in Int
      /\ 100 * a <= 100 * a + (b - a) * c /\ 100 * a + (b - a) * c <= 100 * b
  <2>1. a <= b
    BY <1>5, <1>6
  <2> QED BY <2>1, Between
<1>8. At(s, r) = 100 * a + (b - a) * c
  BY <1>2, <1>6
<1>9. At(s, r) \in Int /\ 100 * Low(s, r) <= At(s, r) /\ At(s, r) <= 100 * High(s, r)
  BY <1>6, <1>7, <1>8
<1> QED BY <1>3, <1>5, <1>9 DEF lo, hi

\* The higher the rank, the larger the value.
LEMMA AtAscends ==
  ASSUME NEW n \in Nat, NEW s \in [1..(n + 1) -> Nat], Ascending(s),
         NEW r \in Nat, NEW t \in Nat, r <= t, t <= 100 * n
  PROVE  At(s, r) <= At(s, t)
<1> DEFINE lr == r \div 100
           hr == (r + 99) \div 100
           mr == r % 100
           lt == t \div 100
           ht == (t + 99) \div 100
           mt == t % 100
<1>1. /\ lr \in Nat /\ hr \in Nat /\ mr \in 0..99 /\ r = 100 * lr + mr
      /\ mr = 0 => hr = lr
      /\ mr # 0 => hr = lr + 1
      /\ lt \in Nat /\ ht \in Nat /\ mt \in 0..99 /\ t = 100 * lt + mt
      /\ mt = 0 => ht = lt
      /\ mt # 0 => ht = lt + 1
  <2>1. /\ lr \in Nat /\ hr \in Nat /\ mr \in 0..99 /\ r = 100 * lr + mr
        /\ mr = 0 => hr = lr
        /\ mr # 0 => hr = lr + 1
    BY RankFacts
  <2>2. /\ lt \in Nat /\ ht \in Nat /\ mt \in 0..99 /\ t = 100 * lt + mt
        /\ mt = 0 => ht = lt
        /\ mt # 0 => ht = lt + 1
    BY RankFacts
  <2> HIDE DEF lr, hr, mr, lt, ht, mt
  <2> QED BY <2>1, <2>2
<1>2. r <= 100 * n
  OBVIOUS
<1>3. /\ lr \in 0..n /\ hr \in 0..n
      /\ Low(s, r) \in Nat /\ High(s, r) \in Nat /\ Low(s, r) <= High(s, r)
      /\ At(s, r) \in Int /\ 100 * Low(s, r) <= At(s, r) /\ At(s, r) <= 100 * High(s, r)
  BY <1>2, AtFacts
<1>4. /\ lt \in 0..n /\ ht \in 0..n
      /\ Low(s, t) \in Nat /\ High(s, t) \in Nat /\ Low(s, t) <= High(s, t)
      /\ At(s, t) \in Int /\ 100 * Low(s, t) <= At(s, t) /\ At(s, t) <= 100 * High(s, t)
  BY AtFacts
<1>5. /\ Low(s, r) = s[lr + 1] /\ High(s, r) = s[hr + 1]
      /\ Low(s, t) = s[lt + 1] /\ High(s, t) = s[ht + 1]
      /\ At(s, r) = 100 * Low(s, r) + (High(s, r) - Low(s, r)) * mr
      /\ At(s, t) = 100 * Low(s, t) + (High(s, t) - Low(s, t)) * mt
  BY DEF At, Low, High
<1> HIDE DEF lr, hr, mr, lt, ht, mt
<1>6. lr < lt \/ (lr = lt /\ mr <= mt)
  BY <1>1
<1>7. CASE lr < lt
  <2>1. hr <= lt
    BY <1>1, <1>7
  <2>2. hr + 1 \in 1..(n + 1) /\ lt + 1 \in 1..(n + 1) /\ hr + 1 <= lt + 1
    BY <1>3, <1>4, <2>1
  <2>3. High(s, r) <= Low(s, t)
    BY <1>5, <2>2 DEF Ascending
  <2> QED BY <1>3, <1>4, <2>3
<1>8. CASE lr = lt /\ mr <= mt /\ mr = 0
  <2>1. Low(s, r) = Low(s, t) /\ High(s, r) = Low(s, r)
    BY <1>1, <1>5, <1>8
  <2> QED BY <1>3, <1>4, <2>1
<1>9. CASE lr = lt /\ mr <= mt /\ mr # 0
  <2>1. mt # 0 /\ hr = ht
    BY <1>1, <1>9
  <2>2. PICK a \in Int, b \in Int : a = Low(s, r) /\ b = High(s, r) /\ a <= b
    BY <1>3
  <2>3. PICK c \in 0..99, d \in 0..99 : c = mr /\ d = mt /\ c <= d
    BY <1>1, <1>9
  <2>4. 100 * a + (b - a) * c <= 100 * a + (b - a) * d
    BY <2>2, <2>3, Further
  <2>5. a = Low(s, t) /\ b = High(s, t)
    BY <1>5, <1>9, <2>1, <2>2
  <2> QED BY <1>5, <2>2, <2>3, <2>4, <2>5
<1> QED BY <1>6, <1>7, <1>8, <1>9

-----------------------------------------------------------------------------
(* Sorting. *)

\* A total order on a set, given by its pairs.
TotalOrder(R, S) ==
    /\ \A r \in S : <<r, r>> \notin R
    /\ \A r, s, t \in S : <<r, s>> \in R /\ <<s, t>> \in R => <<r, t>> \in R
    /\ \A r, s \in S : r # s => <<r, s>> \in R \/ <<s, r>> \in R

Below(R, S, r) == {s \in S : <<s, r>> \in R}

\* A list that has at each place a member with that many members below it.
ByRank(q, R, S) ==
    /\ q = [k \in 1..Cardinality(S) |-> q[k]]
    /\ \A k \in 1..Cardinality(S) :
          (\E r \in S : Cardinality(Below(R, S, r)) = k - 1) =>
              q[k] \in S /\ Cardinality(Below(R, S, q[k])) = k - 1

\* A member of a finite set has fewer members below it than another one above it.
LEMMA FewerBelow ==
    ASSUME NEW S, IsFiniteSet(S), NEW R, TotalOrder(R, S), NEW r \in S
    PROVE  /\ IsFiniteSet(Below(R, S, r)) /\ Cardinality(Below(R, S, r)) \in 0..(Cardinality(S) - 1)
           /\ \A s \in S : <<r, s>> \in R =>
                 Cardinality(Below(R, S, r)) < Cardinality(Below(R, S, s))
<1>1. ASSUME NEW t \in S
      PROVE  /\ IsFiniteSet(Below(R, S, t)) /\ Cardinality(Below(R, S, t)) \in Nat
             /\ Cardinality(S) \in Nat /\ Cardinality(Below(R, S, t)) < Cardinality(S)
  <2>1. Below(R, S, t) \in SUBSET S /\ t \notin Below(R, S, t)
    BY DEF Below, TotalOrder
  <2>2. /\ IsFiniteSet(Below(R, S, t)) /\ Cardinality(Below(R, S, t)) <= Cardinality(S)
        /\ Cardinality(S) = Cardinality(Below(R, S, t)) => S = Below(R, S, t)
    BY <2>1, FS_Subset
  <2>3. Cardinality(Below(R, S, t)) \in Nat /\ Cardinality(S) \in Nat
    BY <2>2, FS_CardinalityType
  <2>4. S # Below(R, S, t)
    BY <2>1
  <2> QED BY <2>2, <2>3, <2>4
<1>2. ASSUME NEW s \in S, <<r, s>> \in R
      PROVE  Cardinality(Below(R, S, r)) < Cardinality(Below(R, S, s))
  <2>1. /\ Below(R, S, r) \in SUBSET Below(R, S, s)
        /\ r \in Below(R, S, s) /\ r \notin Below(R, S, r)
    BY <1>2 DEF Below, TotalOrder
  <2>2. IsFiniteSet(Below(R, S, s))
    BY <1>1
  <2>3. /\ Cardinality(Below(R, S, r)) <= Cardinality(Below(R, S, s))
        /\ Cardinality(Below(R, S, s)) = Cardinality(Below(R, S, r)) =>
              Below(R, S, s) = Below(R, S, r)
    BY <2>1, <2>2, FS_Subset
  <2>4. Cardinality(Below(R, S, r)) \in Nat /\ Cardinality(Below(R, S, s)) \in Nat
    BY <1>1
  <2> QED BY <2>1, <2>3, <2>4
<1>3. /\ Cardinality(Below(R, S, r)) \in Nat /\ Cardinality(S) \in Nat
      /\ Cardinality(Below(R, S, r)) < Cardinality(S) /\ IsFiniteSet(Below(R, S, r))
  BY <1>1
<1> QED BY <1>2, <1>3

\* Listing the members of a finite set by the number of those below them gives
\* all of them in their order.
LEMMA Ranked ==
    ASSUME NEW S, IsFiniteSet(S), NEW R, TotalOrder(R, S), NEW q, ByRank(q, R, S)
    PROVE  /\ q \in Seq(S) /\ Len(q) = Cardinality(S)
           /\ \A k, l \in DOMAIN q : k < l => <<q[k], q[l]>> \in R
           /\ \A r \in S : \E k \in DOMAIN q : q[k] = r
<1> DEFINE n == Cardinality(S)
           f == [r \in S |-> Cardinality(Below(R, S, r))]
           T == 0..(n - 1)
<1>1. n \in Nat
  BY FS_CardinalityType
<1>2. \A r \in S : f[r] \in T /\ f[r] = Cardinality(Below(R, S, r))
  BY FewerBelow
<1>3. ASSUME NEW r \in S, NEW s \in S, f[r] = f[s] PROVE r = s
  <2>1. Cardinality(Below(R, S, r)) \in T /\ Cardinality(Below(R, S, s)) \in T
        /\ Cardinality(Below(R, S, r)) = Cardinality(Below(R, S, s))
    BY <1>2, <1>3
  <2>2. /\ <<r, s>> \in R => Cardinality(Below(R, S, r)) < Cardinality(Below(R, S, s))
        /\ <<s, r>> \in R => Cardinality(Below(R, S, s)) < Cardinality(Below(R, S, r))
    BY FewerBelow
  <2>3. r # s => <<r, s>> \in R \/ <<s, r>> \in R
    BY DEF TotalOrder
  <2> QED BY <1>1, <2>1, <2>2, <2>3
<1>4. f \in Injection(S, T)
  <2>1. f \in [S -> T] /\ \A r, s \in S : f[r] = f[s] => r = s
    BY <1>2, <1>3
  <2> HIDE DEF f, T
  <2> QED BY <2>1 DEF Injection, IsInjective
<1>5. IsFiniteSet(T) /\ Cardinality(T) = n
  <2>1. 0 \in Int /\ n - 1 \in Int
    BY <1>1
  <2>2. IsFiniteSet(T) /\ Cardinality(T) = IF 0 > n - 1 THEN 0 ELSE (n - 1) - 0 + 1
    BY <2>1, FS_Interval
  <2> HIDE DEF n
  <2> QED BY <1>1, <2>2
<1>6. f \in Surjection(S, T)
  <2> HIDE DEF f, T
  <2> QED BY <1>4, <1>5, FS_Injection
<1>7. \A k \in T : \E r \in S : f[r] = k
  <2> HIDE DEF f, T
  <2> QED BY <1>6 DEF Surjection
<1>8. \A k \in 1..n : q[k] \in S /\ f[q[k]] = k - 1
  <2> SUFFICES ASSUME NEW k \in 1..n PROVE q[k] \in S /\ f[q[k]] = k - 1
    OBVIOUS
  <2>1. k - 1 \in T
    BY <1>1
  <2>2. PICK r \in S : f[r] = k - 1
    BY <1>7, <2>1
  <2>3. Cardinality(Below(R, S, r)) = k - 1
    BY <1>2, <2>2
  <2>4. q[k] \in S /\ Cardinality(Below(R, S, q[k])) = k - 1
    BY <2>3 DEF ByRank
  <2> QED BY <1>2, <2>4
<1>9. q \in [1..n -> S] /\ DOMAIN q = 1..n
  <2>1. q = [k \in 1..n |-> q[k]]
    BY DEF ByRank
  <2> QED BY <1>8, <2>1
<1>10. q \in Seq(S) /\ Len(q) = n
  BY <1>1, <1>9
<1>11. ASSUME NEW k \in 1..n, NEW l \in 1..n, k < l PROVE <<q[k], q[l]>> \in R
  <2>1. q[k] \in S /\ q[l] \in S /\ f[q[k]] = k - 1 /\ f[q[l]] = l - 1
    BY <1>8
  <2>2. q[k] # q[l]
    BY <1>11, <2>1
  <2>3. <<q[l], q[k]>> \in R => f[q[l]] < f[q[k]]
    BY <1>2, <2>1, FewerBelow
  <2>4. <<q[k], q[l]>> \in R \/ <<q[l], q[k]>> \in R
    BY <2>1, <2>2 DEF TotalOrder
  <2> QED BY <1>11, <2>1, <2>3, <2>4
<1>12. ASSUME NEW r \in S PROVE \E k \in 1..n : q[k] = r
  <2>1. f[r] \in T
    BY <1>2
  <2>2. PICK k : k = f[r] + 1
    OBVIOUS
  <2>a. k \in 1..n /\ k - 1 = f[r]
    BY <1>1, <2>1, <2>2
  <2>3. q[k] \in S /\ f[q[k]] = f[r]
    BY <1>8, <2>a
  <2>4. q[k] = r
    BY <1>3, <2>3
  <2> QED BY <2>4, <2>a
<1> QED BY <1>9, <1>10, <1>11, <1>12

\* Sorted() has the values of the list, each as often, in ascending order.
LEMMA SortedFacts ==
  ASSUME NEW v \in Seq(Nat)
  PROVE  /\ Sorted(v) \in Seq(Nat) /\ Len(Sorted(v)) = Len(v)
         /\ Ascending(Sorted(v)) /\ Rearranges(Sorted(v), v)
<1> DEFINE n == Len(v)
           S == 1..n
           Before(h, j) == v[h] < v[j] \/ (v[h] = v[j] /\ h < j)
           R == {p \in S \X S : Before(p[1], p[2])}
           Place(j) == Cardinality({h \in S : Before(h, j)}) + 1
           q == [k \in S |-> CHOOSE j \in S : Place(j) = k]
<1>1. n \in Nat /\ DOMAIN v = S /\ \A k \in S : v[k] \in Nat
  OBVIOUS
<1>2. IsFiniteSet(S) /\ Cardinality(S) = n
  <2>1. 1 \in Int /\ n \in Int
    BY <1>1
  <2>2. IsFiniteSet(S) /\ Cardinality(S) = IF 1 > n THEN 0 ELSE n - 1 + 1
    BY <2>1, FS_Interval
  <2> QED BY <1>1, <2>2
<1>3. \A h, j \in S : <<h, j>> \in R <=> Before(h, j)
  OBVIOUS
<1>4. TotalOrder(R, S)
  <2> HIDE DEF R
  <2>1. \A h, j \in S : v[h] \in Nat /\ v[j] \in Nat /\ h \in Nat /\ j \in Nat
    BY <1>1
  <2>2. \A h \in S : <<h, h>> \notin R
    BY <1>3, <2>1
  <2>3. \A h, j, k \in S : Before(h, j) /\ Before(j, k) => Before(h, k)
    <3> SUFFICES ASSUME NEW h \in S, NEW j \in S, NEW k \in S, Before(h, j), Before(j, k)
                 PROVE  Before(h, k)
      OBVIOUS
    <3>1. PICK a \in Nat, b \in Nat, c \in Nat : a = v[h] /\ b = v[j] /\ c = v[k]
      BY <2>1
    <3>2. (a < b \/ (a = b /\ h < j)) /\ (b < c \/ (b = c /\ j < k))
      BY <3>1
    <3>3. h \in Nat /\ j \in Nat /\ k \in Nat
      BY <2>1
    <3>4. a < c \/ (a = c /\ h < k)
      BY <3>2, <3>3
    <3> QED BY <3>1, <3>4
  <2>4. \A h, j \in S : h # j => Before(h, j) \/ Before(j, h)
    <3> SUFFICES ASSUME NEW h \in S, NEW j \in S, h # j PROVE Before(h, j) \/ Before(j, h)
      OBVIOUS
    <3>1. v[h] \in Nat /\ v[j] \in Nat /\ h \in Nat /\ j \in Nat
      BY <2>1
    <3> QED BY <3>1
  <2> HIDE DEF Before
  <2> QED BY <1>3, <2>2, <2>3, <2>4 DEF TotalOrder
<1>5. \A j \in S : Cardinality(Below(R, S, j)) \in Nat /\ Place(j) = Cardinality(Below(R, S, j)) + 1
  <2> SUFFICES ASSUME NEW j \in S
               PROVE  Cardinality(Below(R, S, j)) \in Nat
                      /\ Place(j) = Cardinality(Below(R, S, j)) + 1
    OBVIOUS
  <2>1. Below(R, S, j) = {h \in S : Before(h, j)}
    BY DEF Below
  <2>2. Cardinality(Below(R, S, j)) \in Nat
    <3> HIDE DEF R, S
    <3>1. IsFiniteSet(Below(R, S, j))
      BY <1>2, <1>4, FewerBelow
    <3> QED BY <3>1, FS_CardinalityType
  <2> QED BY <2>1, <2>2
<1>6. ByRank(q, R, S)
  <2>1. q = [k \in S |-> q[k]]
    <3> DEFINE c == [k \in S |-> CHOOSE j \in S : Place(j) = k]
    <3>1. c = [k \in S |-> c[k]]
      <4> HIDE DEF Place, S
      <4> QED OBVIOUS
    <3> QED BY <3>1
  <2>2. ASSUME NEW k \in 1..n, NEW r \in S, Cardinality(Below(R, S, r)) = k - 1
        PROVE  q[k] \in S /\ Cardinality(Below(R, S, q[k])) = k - 1
    <3>1. Place(r) = k
      BY <1>5, <2>2
    <3>2. q[k] = CHOOSE j \in S : Place(j) = k
      OBVIOUS
    <3>3. q[k] \in S /\ Place(q[k]) = k
      <4> HIDE DEF q, Place, S
      <4> QED BY <3>1, <3>2
    <3>4. Cardinality(Below(R, S, q[k])) \in Nat /\ k = Cardinality(Below(R, S, q[k])) + 1
      <4> HIDE DEF q, Place, R
      <4> QED BY <1>5, <3>3
    <3> DEFINE c == Cardinality(Below(R, S, q[k]))
    <3>5. c \in Nat /\ k = c + 1
      BY <3>4
    <3> HIDE DEF c
    <3>6. c = k - 1
      BY <3>5
    <3> QED BY <3>3, <3>6 DEF c
  <2>3. q = [k \in 1..n |-> q[k]]
    BY <2>1
  <2> HIDE DEF q, R, S, n
  <2> QED BY <1>2, <2>2, <2>3 DEF ByRank
<1>7. /\ q \in Seq(S) /\ Len(q) = n
      /\ \A k, l \in DOMAIN q : k < l => <<q[k], q[l]>> \in R
      /\ \A j \in S : \E k \in DOMAIN q : q[k] = j
  <2> HIDE DEF q, R, S, n
  <2> QED BY <1>2, <1>4, <1>6, Ranked
<1>8. Sorted(v) = [k \in S |-> v[q[k]]]
  BY <1>1 DEF Sorted
<1> DEFINE s == Sorted(v)
<1> HIDE DEF q, R, Place, Before, s
<1>9. \A k \in S : q[k] \in S /\ s[k] = v[q[k]] /\ s[k] \in Nat
  <2>1. \A k \in S : q[k] \in S
    <3> HIDE DEF S, n
    <3>1. \A k \in 1..Len(q) : q[k] \in S
      BY <1>7
    <3> QED BY <1>7, <3>1 DEF S
  <2> HIDE DEF S
  <2> QED BY <1>1, <1>8, <2>1 DEF s
<1>10. s \in [1..n -> Nat]
  BY <1>8, <1>9 DEF s
<1>11. s \in Seq(Nat) /\ Len(s) = n /\ DOMAIN s = S /\ DOMAIN q = S
  <2>1. DOMAIN q = S
    <3> HIDE DEF S, n
    <3>1. DOMAIN q = 1..Len(q)
      BY <1>7
    <3> QED BY <1>7, <3>1 DEF S
  <2>2. s \in Seq(Nat) /\ Len(s) = n /\ DOMAIN s = S
    BY <1>1, <1>10
  <2> QED BY <2>1, <2>2
<1>12. ASSUME NEW k \in S, NEW l \in S, k <= l PROVE s[k] <= s[l]
  <2>1. CASE k = l
    BY <1>9, <2>1
  <2>2. CASE k < l
    <3>1. Before(q[k], q[l])
      BY <1>3, <1>7, <1>9, <1>11, <2>2
    <3>2. s[k] = v[q[k]] /\ s[l] = v[q[l]] /\ s[k] \in Nat /\ s[l] \in Nat
      BY <1>9
    <3>3. v[q[k]] < v[q[l]] \/ v[q[k]] = v[q[l]]
      BY <3>1 DEF Before
    <3> QED BY <3>2, <3>3
  <2> QED BY <1>1, <1>12, <2>1, <2>2
<1>13. Rearranges(s, v)
  <2> HIDE DEF S
  <2>1. q \in [S -> S] /\ s = [k \in S |-> v[q[k]]]
    BY <1>7, <1>8, <1>9, <1>11 DEF s
  <2>2. ASSUME NEW k \in S, NEW l \in S, k # l PROVE q[k] # q[l]
    <3>1. k < l \/ l < k
      BY <1>1, <2>2 DEF S
    <3>2. <<q[k], q[l]>> \in R \/ <<q[l], q[k]>> \in R
      BY <1>7, <1>11, <3>1
    <3> QED BY <1>4, <1>9, <3>2 DEF TotalOrder
  <2>3. \A j \in S : \E k \in S : q[k] = j
    BY <1>7, <1>11
  <2> QED BY <1>1, <2>1, <2>2, <2>3 DEF Rearranges
<1> QED BY <1>11, <1>12, <1>13 DEF Ascending, s

\* The percentiles of a list in ascending order ascend, from its first value to
\* its last.
LEMMA PercentilesAscend ==
  ASSUME NEW s \in Seq(Nat), Len(s) # 0, Ascending(s),
         NEW p \in 0..100, NEW q \in 0..100, p <= q
  PROVE  /\ PercentileSorted(s, p) \in Int /\ PercentileSorted(s, q) \in Int
         /\ PercentileSorted(s, p) <= PercentileSorted(s, q)
         /\ 100 * s[1] <= PercentileSorted(s, p)
         /\ PercentileSorted(s, q) <= 100 * s[Len(s)]
<1> DEFINE n == Len(s) - 1
<1>1. n \in Nat /\ s \in [1..(n + 1) -> Nat] /\ Len(s) = n + 1
  OBVIOUS
<1>2. \A r : PercentileSorted(s, r) = At(s, r * n)
  BY DEF PercentileSorted, At, Low, High
<1> HIDE DEF n
<1>3. \A r \in 0..100 : r * n \in Nat /\ r * n <= 100 * n
  <2> SUFFICES ASSUME NEW r \in 0..100 PROVE r * n \in Nat /\ r * n <= 100 * n
    OBVIOUS
  <2>1. PICK d \in Nat : d = 100 - r
    OBVIOUS
  <2>2. d * n \in Nat /\ r * n \in Nat /\ 100 * n = r * n + d * n
    BY <1>1, <2>1
  <2> QED BY <1>1, <2>2
<1>4. p * n <= q * n
  <2>1. PICK d \in Nat : q = p + d
    <3>1. q - p \in Nat /\ q = p + (q - p)
      OBVIOUS
    <3> QED BY <3>1
  <2>2. d * n \in Nat /\ p * n \in Nat /\ q * n = p * n + d * n
    BY <1>1, <2>1
  <2> QED BY <2>2
<1>5. 0 * n = 0 /\ 100 * n \in Nat
  BY <1>1
<1>6. At(s, 0) = 100 * s[1]
  <2>1. 0 \div 100 = 0 /\ 99 \div 100 = 0 /\ (0 % 100) = 0
    OBVIOUS
  <2>2. Low(s, 0) = s[1] /\ High(s, 0) = s[1] /\ s[1] \in Nat
    BY <1>1, <2>1 DEF Low, High
  <2> QED BY <2>1, <2>2 DEF At
<1>7. At(s, 100 * n) = 100 * s[n + 1]
  <2>1. (100 * n) \div 100 = n /\ (100 * n + 99) \div 100 = n /\ ((100 * n) % 100) = 0
    BY <1>1
  <2>2. Low(s, 100 * n) = s[n + 1] /\ High(s, 100 * n) = s[n + 1] /\ s[n + 1] \in Nat
    BY <1>1, <2>1 DEF Low, High
  <2> QED BY <2>1, <2>2 DEF At
<1>8. PICK a \in Nat, b \in Nat, c \in Nat : a = p * n /\ b = q * n /\ c = 100 * n
  BY <1>3, <1>5
<1>9. a <= b /\ b <= c /\ a <= c /\ 0 <= a /\ c = 100 * n
  <2>1. a <= b /\ c = 100 * n
    BY <1>4, <1>8
  <2>2. q * n <= 100 * n
    BY <1>3
  <2>3. b <= c
    BY <1>8, <2>2
  <2> QED BY <2>1, <2>3
<1>10. At(s, a) \in Int /\ At(s, b) \in Int /\ At(s, a) <= At(s, b)
  BY <1>1, <1>9, AtFacts, AtAscends
<1>11. At(s, 0) <= At(s, a) /\ At(s, b) <= At(s, c)
  <2>1. 0 \in Nat /\ c <= 100 * n
    BY <1>9
  <2> QED BY <1>1, <1>9, <2>1, AtAscends
<1> QED BY <1>1, <1>2, <1>6, <1>7, <1>8, <1>10, <1>11

\* The median of natural numbers is one.
LEMMA MedianNat ==
  ASSUME NEW v \in Seq(Nat), Len(v) # 0
  PROVE  Median(v) \in Nat
<1> DEFINE s == Sorted(v)
<1>1. s \in Seq(Nat) /\ Len(s) # 0 /\ Ascending(s)
  BY SortedFacts
<1>2. Median(v) = PercentileSorted(s, 50)
  BY DEF Median
<1> HIDE DEF s
<1>3. 50 \in 0..100 /\ 50 <= 50
  OBVIOUS
<1>4. PercentileSorted(s, 50) \in Int /\ 100 * s[1] <= PercentileSorted(s, 50)
  BY <1>1, <1>3, PercentilesAscend
<1>5. s[1] \in Nat
  BY <1>1
<1> QED BY <1>2, <1>4, <1>5

\* What the engine checks of a summary it has made itself.
LEMMA SummarizeFacts ==
  ASSUME NEW v \in Seq(Nat), Len(v) # 0
  PROVE  /\ DOMAIN Summarize(v) = {"n", "mean", "stddev", "cov", "min", "max", "median", "p5", "p95", "mad"}
         /\ Summarize(v).n = Len(v)
         /\ Summarize(v).stddev >= 0 /\ Summarize(v).cov >= 0 /\ Summarize(v).mad >= 0
         /\ Summarize(v).min <= Summarize(v).median /\ Summarize(v).median <= Summarize(v).max
         /\ Summarize(v).min <= Summarize(v).max /\ Summarize(v).p5 <= Summarize(v).p95
<1> DEFINE s == Sorted(v)
<1>1. s \in Seq(Nat) /\ Len(s) # 0 /\ Ascending(s)
  BY SortedFacts
<1>2. SampleVariance(v) \in Int /\ SampleVariance(v) >= 0
  <2>1. v \in Seq(Int)
    OBVIOUS
  <2> QED BY <2>1, VarianceNat
<1>3. Mad(v) \in Nat
  <2> DEFINE m == Median(v)
             Deviation(x) == IF 100 * x < m THEN m - 100 * x ELSE 100 * x - m
             w == [k \in DOMAIN v |-> Deviation(v[k])]
  <2>1. m \in Nat
    BY MedianNat
  <2>2. Mad(v) = Median(w)
    BY DEF Mad
  <2> HIDE DEF m
  <2>3. \A x \in Nat : Deviation(x) \in Nat
    BY <2>1
  <2> HIDE DEF Deviation
  <2>4. DOMAIN v = 1..Len(v) /\ Len(v) \in Nat /\ \A k \in 1..Len(v) : v[k] \in Nat
    OBVIOUS
  <2>5. w \in Seq(Nat) /\ Len(w) = Len(v)
    BY <2>3, <2>4
  <2> HIDE DEF w
  <2> QED BY <2>2, <2>5, MedianNat
<1>4. /\ DOMAIN Summarize(v) = {"n", "mean", "stddev", "cov", "min", "max", "median", "p5", "p95", "mad"}
      /\ Summarize(v).n = Len(v) /\ Summarize(v).stddev = SampleVariance(v)
      /\ Summarize(v).cov = (IF Total(v) = 0 THEN 0 ELSE SampleVariance(v))
      /\ Summarize(v).mad = Mad(v)
      /\ Summarize(v).min = 100 * s[1] /\ Summarize(v).max = 100 * s[Len(s)]
      /\ Summarize(v).median = PercentileSorted(s, 50)
      /\ Summarize(v).p5 = PercentileSorted(s, 5) /\ Summarize(v).p95 = PercentileSorted(s, 95)
  BY DEF Summarize
<1> HIDE DEF s
<1>5. /\ PercentileSorted(s, 50) \in Int
      /\ 100 * s[1] <= PercentileSorted(s, 50) /\ PercentileSorted(s, 50) <= 100 * s[Len(s)]
  <2>1. 50 \in 0..100 /\ 50 <= 50
    OBVIOUS
  <2> QED BY <1>1, <2>1, PercentilesAscend
<1>6. PercentileSorted(s, 5) <= PercentileSorted(s, 95)
  <2>1. 5 \in 0..100 /\ 95 \in 0..100 /\ 5 <= 95
    OBVIOUS
  <2> QED BY <1>1, <2>1, PercentilesAscend
<1>7. s[1] \in Nat /\ s[Len(s)] \in Nat
  BY <1>1
<1>8. 100 * s[1] <= 100 * s[Len(s)]
  BY <1>5, <1>7
<1> QED BY <1>2, <1>3, <1>4, <1>5, <1>6, <1>8

\* Quotient and remainder.
LEMMA DivMod ==
  ASSUME NEW x \in Nat, NEW d \in Nat \ {0}
  PROVE  x \div d \in Nat /\ x % d \in Nat /\ x % d < d /\ x = d * (x \div d) + (x % d)
OBVIOUS

\* The mean, rounded down, lies between bounds of the values.
LEMMA MeanBetween ==
  ASSUME NEW v \in Seq(Nat), Len(v) # 0, NEW a \in Nat, NEW b \in Nat,
         \A k \in DOMAIN v : a <= v[k] /\ v[k] <= b
  PROVE  100 * a <= (100 * Total(v)) \div Len(v) /\ (100 * Total(v)) \div Len(v) <= 100 * b
<1> DEFINE n == Len(v)
<1>1. n \in Nat /\ n > 0 /\ DOMAIN v = 1..n /\ \A k \in 1..n : v[k] \in Nat
  OBVIOUS
<1>2. PICK f \in [0..n -> Int] :
         f[0] = 0 /\ (\A k \in 1..n : f[k] = f[k - 1] + v[k]) /\ Total(v) = f[n]
  <2>1. v \in Seq(Int)
    OBVIOUS
  <2> QED BY <2>1, TotalUnfolds
<1> HIDE DEF n
<1> DEFINE T == {k \in 0..n : k * a <= f[k] /\ f[k] <= k * b}
<1>3. 0 \in T
  BY <1>1, <1>2
<1>4. ASSUME NEW k \in 1..n, k - 1 \in T PROVE k \in T
  <2>1. PICK x \in Int, y \in Nat, c \in Int : x = f[k - 1] /\ y = v[k] /\ c = k - 1
    <3>1. k - 1 \in 0..n /\ k - 1 \in Int /\ v[k] \in Nat
      BY <1>1
    <3>2. f[k - 1] \in Int
      BY <1>2, <3>1
    <3> QED BY <3>1, <3>2
  <2>2. (k - 1) * a <= f[k - 1] /\ f[k - 1] <= (k - 1) * b
    BY <1>4
  <2>3. c * a <= x /\ x <= c * b
    BY <2>1, <2>2
  <2>4. a <= y /\ y <= b /\ f[k] = x + y /\ k = c + 1 /\ k \in 0..n
    <3>1. a <= v[k] /\ v[k] <= b
      BY <1>1
    <3>2. f[k] = f[k - 1] + v[k]
      BY <1>2
    <3>3. k \in Int /\ k \in 0..n
      BY <1>1
    <3> QED BY <2>1, <3>1, <3>2, <3>3
  <2>5. PICK d \in Int, e \in Int :
           d = c * a /\ e = c * b /\ (c + 1) * a = d + a /\ (c + 1) * b = e + b
    OBVIOUS
  <2>6. d + a <= x + y /\ x + y <= e + b
    BY <2>3, <2>4, <2>5
  <2>7. k * a <= f[k] /\ f[k] <= k * b
    BY <2>4, <2>5, <2>6
  <2> QED BY <2>4, <2>7
<1>5. n \in T
  <2>1. \A k \in 0..n : k \in T
    <3> HIDE DEF T
    <3> QED BY <1>1, <1>3, <1>4, UpTo
  <2> QED BY <1>1, <2>1
<1>6. PICK t \in Int : t = Total(v) /\ n * a <= t /\ t <= n * b
  BY <1>1, <1>2, <1>5
<1> HIDE DEF T
<1>7. PICK m \in Int, r \in Int : m = (100 * t) \div n /\ 100 * t = n * m + r /\ 0 <= r /\ r < n
  <2>1. PICK w \in Nat : w = n * a
    BY <1>1
  <2>2. 100 * t \in Nat /\ n \in Nat \ {0}
    <3>1. w <= t
      BY <1>6, <2>1
    <3> QED BY <1>1, <3>1
  <2> DEFINE x == 100 * t
  <2>3. x \in Nat
    BY <2>2
  <2> HIDE DEF x
  <2>4. /\ x \div n \in Nat /\ x % n \in Nat /\ x % n < n
        /\ x = n * (x \div n) + (x % n)
    BY <2>2, <2>3, DivMod
  <2> QED BY <2>4 DEF x
<1>8. 100 * a <= m
  <2> SUFFICES ASSUME m < 100 * a PROVE FALSE
    BY <1>7
  <2>1. PICK e \in Nat : 100 * a = m + 1 + e
    <3>1. 100 * a - m - 1 \in Nat /\ 100 * a = m + 1 + (100 * a - m - 1)
      BY <1>7
    <3> QED BY <3>1
  <2>2. n * (100 * a) = n * m + n + n * e /\ n * (100 * a) = 100 * (n * a)
    BY <1>1, <1>7, <2>1
  <2>3. PICK x \in Nat, y \in Int, z \in Nat : x = n * e /\ y = n * m /\ z = n * a
    BY <1>1, <1>7
  <2>4. 100 * z = y + n + x /\ z <= t /\ 100 * t = y + r
    BY <1>6, <1>7, <2>2, <2>3
  <2>5. n \in Nat /\ n > 0 /\ r < n /\ 0 <= r
    BY <1>1, <1>7
  <2> QED BY <2>4, <2>5
<1>9. m <= 100 * b
  <2> SUFFICES ASSUME m > 100 * b PROVE FALSE
    BY <1>7
  <2>1. PICK e \in Nat : m = 100 * b + 1 + e
    <3>1. m - 100 * b - 1 \in Nat /\ m = 100 * b + 1 + (m - 100 * b - 1)
      BY <1>7
    <3> QED BY <3>1
  <2>2. n * m = n * (100 * b) + n + n * e /\ n * (100 * b) = 100 * (n * b)
    BY <1>1, <1>7, <2>1
  <2>3. PICK x \in Nat, y \in Int, z \in Nat : x = n * e /\ y = n * m /\ z = n * b
    BY <1>1, <1>7
  <2>4. y = 100 * z + n + x /\ t <= z /\ 100 * t = y + r
    BY <1>6, <1>7, <2>2, <2>3
  <2>5. n \in Nat /\ n > 0 /\ r < n /\ 0 <= r
    BY <1>1, <1>7
  <2> QED BY <2>4, <2>5
<1> QED BY <1>6, <1>7, <1>8, <1>9 DEF n

\* stats.cpp, for any number of trials and any values: what the percentiles are
\* taken from are the values themselves in ascending order; the extremes are
\* values and bound all of them, the mean included; the percentiles come in their
\* order between the extremes; and neither deviation is negative.
THEOREM SummariesAreSound ==
  ASSUME NEW v \in Seq(Nat), Len(v) # 0
  PROVE  /\ Ascending(Sorted(v)) /\ Rearranges(Sorted(v), v)
         /\ \A k \in DOMAIN v : Summarize(v).min <= 100 * v[k] /\ 100 * v[k] <= Summarize(v).max
         /\ \E k \in DOMAIN v : Summarize(v).min = 100 * v[k]
         /\ \E k \in DOMAIN v : Summarize(v).max = 100 * v[k]
         /\ Summarize(v).min <= Summarize(v).mean /\ Summarize(v).mean <= Summarize(v).max
         /\ Summarize(v).min <= Summarize(v).p5 /\ Summarize(v).p5 <= Summarize(v).median
         /\ Summarize(v).median <= Summarize(v).p95 /\ Summarize(v).p95 <= Summarize(v).max
         /\ Summarize(v).stddev >= 0 /\ Summarize(v).mad >= 0
<1> DEFINE s == Sorted(v)
           n == Len(v)
<1>1. /\ s \in Seq(Nat) /\ Len(s) = n /\ Ascending(s) /\ Rearranges(s, v)
      /\ n \in Nat /\ n > 0 /\ DOMAIN v = 1..n
  BY SortedFacts
<1>2. /\ Summarize(v).mean = (100 * Total(v)) \div n
      /\ Summarize(v).min = 100 * s[1] /\ Summarize(v).max = 100 * s[n]
      /\ Summarize(v).median = PercentileSorted(s, 50)
      /\ Summarize(v).p5 = PercentileSorted(s, 5) /\ Summarize(v).p95 = PercentileSorted(s, 95)
  BY <1>1 DEF Summarize
<1> HIDE DEF s, n
<1>3. PICK q \in [1..n -> 1..n] :
         /\ \A j \in 1..n : \E k \in 1..n : q[k] = j
         /\ s = [k \in 1..n |-> v[q[k]]]
  <2> DEFINE D == DOMAIN v
  <2>1. D = 1..n /\ Rearranges(s, v)
    BY <1>1
  <2>2. PICK q \in [D -> D] :
           (\A j \in D : \E k \in D : q[k] = j) /\ s = [k \in D |-> v[q[k]]]
    BY <2>1 DEF Rearranges
  <2> HIDE DEF D
  <2> QED BY <2>1, <2>2
<1>4. 1 \in 1..n /\ n \in 1..n /\ DOMAIN s = 1..n /\ \A k \in 1..n : s[k] \in Nat
  <2>1. DOMAIN s = 1..Len(s) /\ \A k \in 1..Len(s) : s[k] \in Nat
    <3>1. s \in Seq(Nat)
      BY <1>1
    <3> QED BY <3>1
  <2> QED BY <1>1, <2>1
<1>5. ASSUME NEW j \in 1..n PROVE s[1] <= v[j] /\ v[j] <= s[n] /\ v[j] \in Nat
  <2>1. PICK k \in 1..n : q[k] = j
    BY <1>3
  <2>2. s[k] = v[j] /\ s[k] \in Nat
    BY <1>3, <1>4, <2>1
  <2>3. 1 <= k /\ k <= n
    BY <1>1
  <2> QED BY <1>4, <2>2, <2>3, <1>1 DEF Ascending
<1>6. \A j \in 1..n : 100 * s[1] <= 100 * v[j] /\ 100 * v[j] <= 100 * s[n]
  BY <1>4, <1>5
<1>7. s[1] = v[q[1]] /\ s[n] = v[q[n]] /\ q[1] \in 1..n /\ q[n] \in 1..n
  BY <1>3, <1>4
<1>8. 100 * s[1] <= (100 * Total(v)) \div n /\ (100 * Total(v)) \div n <= 100 * s[n]
  BY <1>1, <1>4, <1>5, MeanBetween DEF n
<1>9. /\ 100 * s[1] <= PercentileSorted(s, 5) /\ PercentileSorted(s, 5) <= PercentileSorted(s, 50)
      /\ PercentileSorted(s, 50) <= PercentileSorted(s, 95) /\ PercentileSorted(s, 95) <= 100 * s[n]
  <2>1. 5 \in 0..100 /\ 50 \in 0..100 /\ 95 \in 0..100 /\ 5 <= 50 /\ 50 <= 95
    OBVIOUS
  <2>2. s \in Seq(Nat) /\ Len(s) # 0 /\ Len(s) = n /\ Ascending(s)
    BY <1>1
  <2>3. 100 * s[1] <= PercentileSorted(s, 5) /\ PercentileSorted(s, 5) <= PercentileSorted(s, 50)
    BY <2>1, <2>2, PercentilesAscend
  <2>4. /\ PercentileSorted(s, 50) <= PercentileSorted(s, 95)
        /\ PercentileSorted(s, 95) <= 100 * s[Len(s)]
    BY <2>1, <2>2, PercentilesAscend
  <2> QED BY <2>2, <2>3, <2>4
<1>10. Summarize(v).stddev >= 0 /\ Summarize(v).mad >= 0
  BY SummarizeFacts
<1>11. \A k \in DOMAIN v : Summarize(v).min <= 100 * v[k] /\ 100 * v[k] <= Summarize(v).max
  BY <1>1, <1>2, <1>6
<1>12. /\ \E k \in DOMAIN v : Summarize(v).min = 100 * v[k]
       /\ \E k \in DOMAIN v : Summarize(v).max = 100 * v[k]
  <2>1. q[1] \in DOMAIN v /\ q[n] \in DOMAIN v
    BY <1>1, <1>7
  <2>2. Summarize(v).min = 100 * v[q[1]] /\ Summarize(v).max = 100 * v[q[n]]
    BY <1>2, <1>7
  <2> QED BY <2>1, <2>2
<1>13. Ascending(Sorted(v)) /\ Rearranges(Sorted(v), v)
  BY <1>1 DEF s
<1> QED BY <1>2, <1>8, <1>9, <1>10, <1>11, <1>12, <1>13

-----------------------------------------------------------------------------
(* The rows of a document. *)

\* There is at most one array of results, and its rows are the document's.
LEMMA RowsOfMember ==
    ASSUME WellFormed(doc), NEW k \in DOMAIN doc, doc[k].key = "results", doc[k].ok
    PROVE  /\ DocumentRows = [l \in DOMAIN doc[k].val |->
                                  Decoded(doc[k].val[l], ResultTexts, ResultNumbers)]
           /\ IsList(doc[k].val) /\ Len(DocumentRows) = Len(doc[k].val)
<1>1. ResultsMembers = {k}
  BY DEF ResultsMembers, WellFormed
<1>2. (CHOOSE l \in ResultsMembers : TRUE) = k
  BY <1>1
<1>3. DocumentRows = [l \in DOMAIN doc[k].val |->
                          Decoded(doc[k].val[l], ResultTexts, ResultNumbers)]
  BY <1>1, <1>2 DEF DocumentRows
<1>4. IsList(doc[k].val)
  BY DEF WellFormed
<1>5. Len(doc[k].val) \in Nat /\ DOMAIN doc[k].val = 1..Len(doc[k].val)
  BY <1>4, ListFacts
<1>6. DocumentRows = [l \in 1..Len(doc[k].val) |-> DocumentRows[l]]
  BY <1>3, <1>5
<1>7. Len(DocumentRows) = Len(doc[k].val)
  BY <1>5, <1>6, FunctionIsList
<1> QED BY <1>3, <1>4, <1>7

\* The rows of a document are a list, the empty one if it has no results.
LEMMA RowsAreList ==
    ASSUME WellFormed(doc)
    PROVE  /\ IsList(DocumentRows) /\ Len(DocumentRows) \in Nat
           /\ DOMAIN DocumentRows = 1..Len(DocumentRows)
           /\ DocumentRows = FirstRows(Len(DocumentRows))
           /\ ResultsMembers = {} => DocumentRows = <<>> /\ Len(DocumentRows) = 0
<1>1. ResultsMembers = {} => DocumentRows = <<>>
  BY DEF DocumentRows
<1>2. Len(<<>>) = 0 /\ IsList(<<>>)
  BY DEF IsList
<1>3. IsList(DocumentRows)
  <2>1. CASE ResultsMembers = {}
    BY <1>1, <1>2, <2>1
  <2>2. CASE ResultsMembers # {}
    <3>1. PICK k \in DOMAIN doc : doc[k].key = "results" /\ doc[k].ok
      BY <2>2 DEF ResultsMembers
    <3>2. DocumentRows = [l \in DOMAIN doc[k].val |->
                              Decoded(doc[k].val[l], ResultTexts, ResultNumbers)]
          /\ IsList(doc[k].val)
      BY <3>1, RowsOfMember
    <3>3. Len(doc[k].val) \in Nat /\ DOMAIN doc[k].val = 1..Len(doc[k].val)
      BY <3>2, ListFacts
    <3>4. DocumentRows = [l \in 1..Len(doc[k].val) |-> DocumentRows[l]]
      BY <3>2, <3>3
    <3> QED BY <3>3, <3>4, FunctionIsList
  <2> QED BY <2>1, <2>2
<1>4. Len(DocumentRows) \in Nat /\ DOMAIN DocumentRows = 1..Len(DocumentRows)
      /\ DocumentRows = [k \in 1..Len(DocumentRows) |-> DocumentRows[k]]
  BY <1>3, ListFacts
<1> QED BY <1>1, <1>2, <1>3, <1>4 DEF FirstRows

\* The first rows of a document and how they grow.
LEMMA FirstRowsFacts ==
    ASSUME WellFormed(doc), NEW n \in 0..Len(DocumentRows)
    PROVE  /\ IsList(FirstRows(n)) /\ Len(FirstRows(n)) = n
           /\ FirstRows(0) = <<>>
           /\ n < Len(DocumentRows) => Append(FirstRows(n), DocumentRows[n + 1]) = FirstRows(n + 1)
           /\ IsPrefix(FirstRows(n), DocumentRows)
<1>1. Len(DocumentRows) \in Nat /\ DOMAIN DocumentRows = 1..Len(DocumentRows) /\ n \in Nat
  BY RowsAreList
<1>2. IsList(FirstRows(n)) /\ Len(FirstRows(n)) = n
  <2>1. FirstRows(n) = [k \in 1..n |-> FirstRows(n)[k]]
    BY DEF FirstRows
  <2> QED BY <1>1, <2>1, FunctionIsList
<1>3. FirstRows(0) = <<>>
  BY DEF FirstRows
<1>4. Append(FirstRows(n), DocumentRows[n + 1]) = FirstRows(n + 1)
  <2> DEFINE S == ToSet(FirstRows(n))
             f == FirstRows(n)
             r == DocumentRows[n + 1]
  <2>1. f \in Seq(S) /\ Len(f) = n /\ f = [k \in 1..n |-> DocumentRows[k]]
    BY <1>2 DEF IsList, FirstRows
  <2> HIDE DEF S, f
  <2>2. Append(f, r) = [k \in 1..(n + 1) |-> IF k = n + 1 THEN r ELSE f[k]]
    BY <1>1, <2>1
  <2>3. \A k \in 1..(n + 1) : (IF k = n + 1 THEN r ELSE f[k]) = DocumentRows[k]
    BY <1>1, <2>1
  <2>4. [k \in 1..(n + 1) |-> IF k = n + 1 THEN r ELSE f[k]] = FirstRows(n + 1)
    BY <2>3 DEF FirstRows
  <2> QED BY <2>2, <2>4 DEF f
<1>5. IsPrefix(FirstRows(n), DocumentRows)
  <2>1. SubSeq(FirstRows(n), 1, n) = SubSeq(DocumentRows, 1, n)
    BY <1>1, <1>2, RowsAreList DEF FirstRows, IsList
  <2> QED BY <1>1, <1>2, <2>1 DEF IsPrefix
<1> QED BY <1>2, <1>3, <1>4, <1>5

-----------------------------------------------------------------------------
(* The decoder. *)

\* While a document is decoded its rows are the same.
LEMMA SameDocument ==
    ASSUME doc' = doc
    PROVE  /\ DocumentRows' = DocumentRows
           /\ \A n : FirstRows(n)' = FirstRows(n)
           /\ \A n : RowsValid(n)' = RowsValid(n)
           /\ WellFormed(doc)' = WellFormed(doc)
<1>1. DocumentRows' = DocumentRows
  BY DEF DocumentRows, ResultsMembers
<1> QED BY <1>1 DEF FirstRows, RowsValid

\* An error leaves everything as it was.
LEMMA ErrorAnswered ==
    ASSUME DecoderInv, NEW status \in {400, 413, 500},
           reply' = status, phase' \in {"answered", "broken"},
           UNCHANGED <<doc, at, i, env, taken, buffered, count, handed>>
    PROVE  DecoderInv'
<1>1. DocumentRows' = DocumentRows /\ \A n : FirstRows(n)' = FirstRows(n)
  BY SameDocument
<1>2. DecoderTypeOK'
  BY DEF DecoderInv, DecoderTypeOK, WellFormed
<1>3. HeaderInv'
  BY DEF DecoderInv, HeaderInv, HasRead
<1>4. MembersInv' /\ ResultsInv' /\ ReplayInv'
  BY DEF MembersInv, ResultsInv, ReplayInv
<1>5. AnswerInv'
  BY <1>1 DEF DecoderInv, AnswerInv
<1> QED BY <1>2, <1>3, <1>4, <1>5 DEF DecoderInv

\* What is unchanged keeps the invariant.
LEMMA SameDecoder ==
    ASSUME DecoderInv,
           UNCHANGED <<doc, phase, at, i, env, taken, buffered, count, handed, reply>>
    PROVE  DecoderInv'
<1>1. /\ DocumentRows' = DocumentRows /\ (\A n : FirstRows(n)' = FirstRows(n))
      /\ \A n : RowsValid(n)' = RowsValid(n)
  BY SameDocument
<1>2. DecoderTypeOK'
  BY DEF DecoderInv, DecoderTypeOK
<1>3. HeaderInv'
  BY DEF DecoderInv, HeaderInv, HasRead
<1>4. AllRead' = AllRead
  BY <1>1 DEF AllRead, RowsValid
<1>5. MembersInv'
  BY <1>1, <1>4 DEF DecoderInv, MembersInv, HasRead
<1>6. ResultsInv'
  BY <1>1 DEF DecoderInv, ResultsInv, HeaderDone, RowsValid
<1>7. ReplayInv'
  BY <1>1, <1>4 DEF DecoderInv, ReplayInv
<1>8. AnswerInv'
  BY <1>1, <1>4 DEF DecoderInv, AnswerInv
<1> QED BY <1>2, <1>3, <1>5, <1>6, <1>7, <1>8 DEF DecoderInv

\* The rows of the next document are a list as well.
LEMMA NextRowsCount == WellFormed(doc)' => (Len(DocumentRows) \in Nat)'
<1>1. WellFormed(doc) => Len(DocumentRows) \in Nat
  BY RowsAreList
<1> QED BY <1>1, PTL

\* A new request finds the decoder as it begins.
LEMMA ReceiveInv ==
    ASSUME NEW d, WellFormed(d), Receive(d)
    PROVE  DecoderInv'
<1>1. WellFormed(doc)' /\ IsList(d)
  BY DEF Receive, WellFormed
<1>2. Len(d) \in Nat /\ DOMAIN d = 1..Len(d)
  BY <1>1, ListFacts
<1>3. DecoderTypeOK'
  BY <1>1, <1>2 DEF Receive, DecoderTypeOK
<1>4. HeaderInv'
  BY <1>2 DEF Receive, HeaderInv, HasRead
<1>5. MembersInv' /\ ResultsInv' /\ ReplayInv'
  BY <1>2 DEF Receive, MembersInv, ResultsInv, ReplayInv, HasRead
<1>6. AnswerInv'
  <2>1. Len(DocumentRows)' \in Nat /\ FirstRows(0)' = <<>>
    BY <1>1, NextRowsCount DEF FirstRows
  <2> QED BY <2>1 DEF Receive, AnswerInv
<1> QED BY <1>3, <1>4, <1>5, <1>6 DEF DecoderInv

\* A header field goes into env; what the others put there stays.
LEMMA FieldInv ==
    ASSUME DecoderInv, Field
    PROVE  DecoderInv'
<1>1. /\ doc' = doc /\ at' = at + 1 /\ at <= Len(doc) /\ phase = "members" /\ phase' = "members"
      /\ UNCHANGED <<i, taken, buffered, count, handed, reply>>
      /\ doc[at].key # "results" /\ DecodesField(doc[at])
      /\ env' = [env EXCEPT ![doc[at].key] = FieldValue(doc[at])]
  BY DEF Field, InMembers, Member
<1>2. DocumentRows' = DocumentRows /\ (\A n : FirstRows(n)' = FirstRows(n))
      /\ \A n : RowsValid(n)' = RowsValid(n)
  BY <1>1, SameDocument
<1>3. WellFormed(doc) /\ Len(doc) \in Nat /\ DOMAIN doc = 1..Len(doc) /\ at \in 1..Len(doc)
      /\ DOMAIN env = DOMAIN NoHeader
  BY <1>1, ListFacts DEF DecoderInv, DecoderTypeOK, WellFormed
<1>4. doc[at].key \in DOMAIN NoHeader
  BY <1>1 DEF DecodesField, NoHeader
<1>5. \A k \in DOMAIN doc : k # at => doc[k].key # doc[at].key
  BY <1>3 DEF WellFormed
<1>6. DecoderTypeOK'
  BY <1>1, <1>3 DEF DecoderInv, DecoderTypeOK
<1>7. \A f : HasRead(f)' <=> HasRead(f) \/ f = doc[at].key
  BY <1>1, <1>3 DEF HasRead
<1>8. HeaderInv'
  <2>1. ASSUME NEW k \in DOMAIN doc, k < at + 1
        PROVE  \/ doc[k].key = "results" /\ doc[k].ok
               \/ DecodesField(doc[k]) /\ env'[doc[k].key] = FieldValue(doc[k])
    <3>1. CASE k = at
      BY <1>1, <1>3, <1>4, <3>1
    <3>2. CASE k # at
      <4>1. \/ doc[k].key = "results" /\ doc[k].ok
            \/ DecodesField(doc[k]) /\ env[doc[k].key] = FieldValue(doc[k])
        BY <1>3, <2>1, <3>2 DEF DecoderInv, HeaderInv
      <4>2. doc[k].key # doc[at].key
        BY <1>5, <3>2
      <4>3. CASE doc[k].key = "results" /\ doc[k].ok
        BY <4>3
      <4>4. CASE DecodesField(doc[k]) /\ env[doc[k].key] = FieldValue(doc[k])
        <5>1. doc[k].key \in DOMAIN env
          BY <1>3, <4>4 DEF DecodesField, NoHeader
        <5> QED BY <1>1, <4>2, <4>4, <5>1
      <4> QED BY <4>1, <4>3, <4>4
    <3> QED BY <3>1, <3>2
  <2>2. ASSUME NEW f \in DOMAIN NoHeader, ~HasRead(f)'
        PROVE  env'[f] = NoHeader[f]
    <3>1. ~HasRead(f) /\ f # doc[at].key
      BY <1>7, <2>2
    <3>2. env[f] = NoHeader[f]
      BY <3>1 DEF DecoderInv, HeaderInv
    <3> QED BY <1>1, <1>3, <3>1, <3>2
  <2> QED BY <1>1, <2>1, <2>2 DEF HeaderInv
<1>9. MembersInv'
  <2>1. HasRead("results")' <=> HasRead("results")
    BY <1>1, <1>7
  <2> QED BY <1>1, <1>2, <2>1 DEF DecoderInv, MembersInv, AllRead
<1>10. ResultsInv' /\ ReplayInv'
  BY <1>1 DEF ResultsInv, ReplayInv
<1>11. AnswerInv'
  BY <1>1, <1>2 DEF DecoderInv, AnswerInv
<1> QED BY <1>6, <1>8, <1>9, <1>10, <1>11 DEF DecoderInv

\* The array of results is opened: nothing was read of it before.
LEMMA OpenResultsInv ==
    ASSUME DecoderInv, OpenResults
    PROVE  DecoderInv'
<1>1. /\ doc' = doc /\ at' = at /\ at <= Len(doc) /\ phase = "members" /\ phase' = "results"
      /\ i' = 0 /\ taken' = <<>> /\ UNCHANGED <<env, buffered, count, handed, reply>>
      /\ doc[at].key = "results" /\ doc[at].ok
  BY DEF OpenResults, InMembers, Member
<1>2. DocumentRows' = DocumentRows /\ (\A n : FirstRows(n)' = FirstRows(n))
      /\ \A n : RowsValid(n)' = RowsValid(n)
  BY <1>1, SameDocument
<1>3. WellFormed(doc) /\ Len(doc) \in Nat /\ DOMAIN doc = 1..Len(doc) /\ at \in 1..Len(doc)
  BY <1>1, ListFacts DEF DecoderInv, DecoderTypeOK, WellFormed
<1>4. ~HasRead("results")
  BY <1>1, <1>3 DEF HasRead, WellFormed
<1>5. DecoderTypeOK'
  BY <1>1 DEF DecoderInv, DecoderTypeOK
<1>6. HeaderInv'
  BY <1>1 DEF DecoderInv, HeaderInv, HasRead
<1>7. MembersInv' /\ ReplayInv'
  BY <1>1 DEF MembersInv, ReplayInv
<1>8. ResultsInv'
  <2>1. handed = <<>> /\ buffered = <<>>
    BY <1>1, <1>4 DEF DecoderInv, MembersInv
  <2>2. FirstRows(0) = <<>> /\ RowsValid(0) /\ Len(DocumentRows) \in Nat
    BY <1>3, RowsAreList, MaxResultsAssumption DEF FirstRows, RowsValid
  <2>3. FirstRows(0)' = <<>> /\ RowsValid(0)' /\ Len(DocumentRows)' \in Nat
    BY <1>2, <2>2
  <2>4. FirstRows(i)' = <<>> /\ RowsValid(i)'
    BY <1>1, <2>3 DEF FirstRows, RowsValid
  <2> QED BY <1>1, <2>1, <2>3, <2>4 DEF ResultsInv
<1>9. AnswerInv'
  BY <1>1, <1>2 DEF DecoderInv, AnswerInv
<1> QED BY <1>5, <1>6, <1>7, <1>8, <1>9 DEF DecoderInv

\* In the array, the next element is the next row of the document.
LEMMA ElementIsRow ==
    ASSUME DecoderInv, phase = "results"
    PROVE  /\ at \in DOMAIN doc /\ Len(Member.val) = Len(DocumentRows) /\ Len(DocumentRows) \in Nat
           /\ i \in 0..Len(DocumentRows)
           /\ i < Len(DocumentRows) => Element = DocumentRows[i + 1]
<1>1. /\ WellFormed(doc) /\ at <= Len(doc) /\ at \in 1..(Len(doc) + 1) /\ i \in Nat
      /\ doc[at].key = "results" /\ doc[at].ok /\ i <= Len(DocumentRows)
  BY DEF DecoderInv, DecoderTypeOK, ResultsInv
<1>2. Len(doc) \in Nat /\ DOMAIN doc = 1..Len(doc)
  BY <1>1, ListFacts DEF WellFormed
<1>3. at \in DOMAIN doc
  BY <1>1, <1>2
<1>4. /\ DocumentRows = [l \in DOMAIN doc[at].val |->
                              Decoded(doc[at].val[l], ResultTexts, ResultNumbers)]
      /\ IsList(doc[at].val) /\ Len(DocumentRows) = Len(doc[at].val)
  BY <1>1, <1>3, RowsOfMember
<1>5. Len(doc[at].val) \in Nat /\ DOMAIN doc[at].val = 1..Len(doc[at].val)
  BY <1>4, ListFacts
<1>6. ASSUME i < Len(DocumentRows) PROVE Element = DocumentRows[i + 1]
  <2>1. i + 1 \in DOMAIN doc[at].val
    BY <1>1, <1>4, <1>5, <1>6
  <2> QED BY <1>4, <2>1 DEF Element, Member
<1> QED BY <1>1, <1>3, <1>4, <1>5, <1>6 DEF Member

\* A good result is kept while the header is incomplete and handed on when it
\* is complete, which cannot change before the array ends.
LEMMA GoodResultInv ==
    ASSUME DecoderInv, BufferResult \/ HandResult
    PROVE  DecoderInv'
<1>1. /\ doc' = doc /\ at' = at /\ phase = "results" /\ phase' = "results" /\ i' = i + 1
      /\ UNCHANGED <<env, buffered, count, reply>> /\ i < Len(Member.val) /\ i < MaxResults
      /\ ValidResult(Element)
      /\ \/ HeaderDone /\ handed' = Append(handed, Element) /\ taken' = taken
         \/ ~HeaderDone /\ handed' = handed /\ taken' = Append(taken, Element)
  BY DEF BufferResult, HandResult, GoodResult, InResults
<1>2. DocumentRows' = DocumentRows /\ (\A n : FirstRows(n)' = FirstRows(n))
      /\ \A n : RowsValid(n)' = RowsValid(n)
  BY <1>1, SameDocument
<1>3. WellFormed(doc) /\ Len(DocumentRows) \in Nat /\ i \in 0..Len(DocumentRows)
      /\ i < Len(DocumentRows) /\ Element = DocumentRows[i + 1]
  BY <1>1, ElementIsRow DEF DecoderInv, DecoderTypeOK
<1>4. Append(FirstRows(i), Element) = FirstRows(i + 1)
  BY <1>3, FirstRowsFacts
<1>5. RowsValid(i + 1)
  <2>1. RowsValid(i)
    BY <1>1 DEF DecoderInv, ResultsInv
  <2> QED BY <1>1, <1>3, <2>1, MaxResultsAssumption DEF RowsValid
<1>6. DecoderTypeOK'
  BY <1>1, <1>3 DEF DecoderInv, DecoderTypeOK
<1>7. HeaderInv'
  BY <1>1 DEF DecoderInv, HeaderInv, HasRead
<1>8. MembersInv' /\ ReplayInv'
  BY <1>1 DEF MembersInv, ReplayInv
<1>9. HeaderDone' <=> HeaderDone
  BY <1>1 DEF HeaderDone
<1>10. FirstRows(i)' = FirstRows(i + 1) /\ RowsValid(i)' /\ Len(DocumentRows)' = Len(DocumentRows)
  <2>1. DocumentRows' = DocumentRows
    BY <1>2
  <2>2. FirstRows(i)' = [k \in 1..(i + 1) |-> DocumentRows[k]]
    BY <1>1, <2>1 DEF FirstRows
  <2>3. RowsValid(i)'
    BY <1>1, <1>5, <2>1 DEF RowsValid
  <2> QED BY <2>1, <2>2, <2>3 DEF FirstRows
<1>11. ResultsInv'
  <2>1. /\ at <= Len(doc) /\ doc[at].key = "results" /\ doc[at].ok /\ buffered = <<>>
        /\ IF HeaderDone THEN taken = <<>> /\ handed = FirstRows(i)
                         ELSE taken = FirstRows(i) /\ handed = <<>>
    BY <1>1 DEF DecoderInv, ResultsInv
  <2>2. i' <= Len(DocumentRows)'
    BY <1>1, <1>3, <1>10
  <2>3. IF HeaderDone' THEN taken' = <<>> /\ handed' = FirstRows(i)'
                      ELSE taken' = FirstRows(i)' /\ handed' = <<>>
    BY <1>1, <1>4, <1>9, <1>10, <2>1
  <2> QED BY <1>1, <1>10, <2>1, <2>2, <2>3 DEF ResultsInv
<1>12. AnswerInv'
  <2>1. reply # 200
    BY <1>1 DEF DecoderInv, AnswerInv
  <2>2. \E n \in 0..Len(DocumentRows) : handed' = FirstRows(n)
    <3>1. CASE HeaderDone
      <4>1. handed' = FirstRows(i + 1)
        BY <1>1, <1>4, <3>1 DEF DecoderInv, ResultsInv
      <4>2. i + 1 \in 0..Len(DocumentRows)
        BY <1>1, <1>3
      <4> QED BY <4>1, <4>2, Zenon
    <3>2. CASE ~HeaderDone
      BY <1>1, <3>2 DEF DecoderInv, AnswerInv
    <3> QED BY <3>1, <3>2
  <2> QED BY <1>1, <1>2, <2>1, <2>2 DEF AnswerInv
<1> QED BY <1>6, <1>7, <1>8, <1>11, <1>12 DEF DecoderInv

\* The array ends: all of its rows are kept or all are handed on.
LEMMA CloseResultsInv ==
    ASSUME DecoderInv, CloseResults
    PROVE  DecoderInv'
<1>1. /\ doc' = doc /\ at' = at + 1 /\ phase = "results" /\ phase' = "members" /\ i' = 0
      /\ UNCHANGED <<env, taken, handed, reply>> /\ i = Len(Member.val)
      /\ count' = i /\ buffered' = taken
  BY DEF CloseResults
<1>2. DocumentRows' = DocumentRows /\ (\A n : FirstRows(n)' = FirstRows(n))
      /\ \A n : RowsValid(n)' = RowsValid(n)
  BY <1>1, SameDocument
<1>3. WellFormed(doc) /\ Len(DocumentRows) \in Nat /\ i = Len(DocumentRows) /\ at \in DOMAIN doc
  BY <1>1, ElementIsRow DEF DecoderInv, DecoderTypeOK
<1>4. Len(doc) \in Nat /\ DOMAIN doc = 1..Len(doc)
  BY <1>3, ListFacts DEF WellFormed
<1>5. FirstRows(i) = DocumentRows
  BY <1>3, RowsAreList
<1>6. /\ doc[at].key = "results" /\ doc[at].ok /\ RowsValid(i)
      /\ IF HeaderDone THEN taken = <<>> /\ handed = FirstRows(i)
                       ELSE taken = FirstRows(i) /\ handed = <<>>
  BY <1>1 DEF DecoderInv, ResultsInv
<1>7. DecoderTypeOK'
  BY <1>1, <1>3, <1>4 DEF DecoderInv, DecoderTypeOK
<1>8. \A f : HasRead(f)' <=> HasRead(f) \/ f = "results"
  BY <1>1, <1>3, <1>4, <1>6 DEF HasRead
<1>9. HeaderInv'
  <2>1. \A k \in DOMAIN doc : k < at + 1 => k < at \/ k = at
    BY <1>3, <1>4
  <2> QED BY <1>1, <1>6, <1>8, <2>1 DEF DecoderInv, HeaderInv
<1>10. MembersInv'
  <2>1. AllRead'
    <3>1. RowsValid(i) /\ count' = i
      BY <1>1, <1>6
    <3>2. RowsValid(count)'
      BY <1>2, <3>1 DEF RowsValid
    <3> QED BY <1>1, <1>2, <1>3, <3>2 DEF AllRead
  <2> QED BY <1>1, <1>2, <1>5, <1>6, <1>8, <2>1 DEF MembersInv
<1>11. ResultsInv' /\ ReplayInv'
  BY <1>1 DEF ResultsInv, ReplayInv
<1>12. AnswerInv'
  BY <1>1, <1>2 DEF DecoderInv, AnswerInv
<1> QED BY <1>7, <1>9, <1>10, <1>11, <1>12 DEF DecoderInv

\* The object ends: what was kept is to be replayed, if anything was.
LEMMA EndObjectInv ==
    ASSUME DecoderInv, EndObject
    PROVE  DecoderInv'
<1>1. /\ doc' = doc /\ at' = at /\ at > Len(doc) /\ phase = "members" /\ phase' = "replay"
      /\ i' = 0 /\ UNCHANGED <<env, taken, buffered, count, handed, reply>>
  BY DEF EndObject
<1>2. DocumentRows' = DocumentRows /\ (\A n : FirstRows(n)' = FirstRows(n))
      /\ \A n : RowsValid(n)' = RowsValid(n)
  BY <1>1, SameDocument
<1>3. WellFormed(doc) /\ Len(doc) \in Nat /\ DOMAIN doc = 1..Len(doc) /\ at = Len(doc) + 1
  BY <1>1, ListFacts DEF DecoderInv, DecoderTypeOK, WellFormed
<1>4. DecoderTypeOK'
  BY <1>1 DEF DecoderInv, DecoderTypeOK
<1>5. HeaderInv'
  BY <1>1 DEF DecoderInv, HeaderInv, HasRead
<1>6. MembersInv' /\ ResultsInv'
  BY <1>1 DEF MembersInv, ResultsInv
<1>7. /\ AllRead /\ \/ handed = <<>> /\ buffered = DocumentRows
                    \/ handed = DocumentRows /\ buffered = <<>>
  <2>1. CASE HasRead("results")
    BY <1>1, <2>1 DEF DecoderInv, MembersInv
  <2>2. CASE ~HasRead("results")
    <3>1. ResultsMembers = {}
      BY <1>3, <2>2 DEF HasRead, ResultsMembers
    <3>2. DocumentRows = <<>> /\ Len(DocumentRows) = 0
      BY <1>3, <3>1, RowsAreList
    <3>3. count = 0 /\ handed = <<>> /\ buffered = <<>>
      BY <1>1, <2>2 DEF DecoderInv, MembersInv
    <3> QED BY <3>2, <3>3, MaxResultsAssumption DEF AllRead, RowsValid
  <2> QED BY <2>1, <2>2
<1>8. ReplayInv'
  <2>1. AllRead'
    BY <1>1, <1>2, <1>7 DEF AllRead, RowsValid
  <2>2. FirstRows(i)' = <<>>
    BY <1>1 DEF FirstRows
  <2>3. 0 <= count
    BY DEF DecoderInv, DecoderTypeOK
  <2> QED BY <1>1, <1>2, <1>3, <1>7, <2>1, <2>2, <2>3 DEF ReplayInv
<1>9. AnswerInv'
  BY <1>1, <1>2 DEF DecoderInv, AnswerInv
<1> QED BY <1>4, <1>5, <1>6, <1>8, <1>9 DEF DecoderInv

\* A kept row is handed on.
LEMMA ReplayStepInv ==
    ASSUME DecoderInv, Replay
    PROVE  DecoderInv'
<1>1. /\ doc' = doc /\ at' = at /\ phase = "replay" /\ phase' = "replay" /\ i' = i + 1
      /\ UNCHANGED <<env, taken, buffered, count, reply>> /\ i < Len(buffered)
      /\ handed' = Append(handed, buffered[i + 1])
  BY DEF Replay, Replaying
<1>2. DocumentRows' = DocumentRows /\ (\A n : FirstRows(n)' = FirstRows(n))
      /\ \A n : RowsValid(n)' = RowsValid(n)
  BY <1>1, SameDocument
<1>3. WellFormed(doc) /\ i \in Nat /\ Len(DocumentRows) \in Nat
  BY RowsAreList DEF DecoderInv, DecoderTypeOK
<1>4. /\ AllRead /\ at = Len(doc) + 1 /\ buffered = DocumentRows /\ handed = FirstRows(i)
      /\ i < Len(DocumentRows) /\ count = Len(DocumentRows)
  BY <1>1, <1>3 DEF DecoderInv, ReplayInv, AllRead
<1>5. handed' = FirstRows(i + 1)
  BY <1>1, <1>3, <1>4, FirstRowsFacts
<1>6. DecoderTypeOK'
  BY <1>1, <1>3 DEF DecoderInv, DecoderTypeOK
<1>7. HeaderInv'
  BY <1>1 DEF DecoderInv, HeaderInv, HasRead
<1>8. MembersInv' /\ ResultsInv'
  BY <1>1 DEF MembersInv, ResultsInv
<1>9. ReplayInv'
  <2>1. AllRead'
    BY <1>1, <1>2, <1>4 DEF AllRead, RowsValid
  <2>2. handed' = FirstRows(i)'
    BY <1>1, <1>2, <1>5 DEF FirstRows
  <2>3. i + 1 <= count
    BY <1>3, <1>4
  <2> QED BY <1>1, <1>2, <1>4, <2>1, <2>2, <2>3 DEF ReplayInv
<1>10. AnswerInv'
  <2>1. reply # 200
    BY <1>1 DEF DecoderInv, AnswerInv
  <2>2. i + 1 \in 0..Len(DocumentRows)
    BY <1>3, <1>4
  <2> QED BY <1>1, <1>2, <1>5, <2>1, <2>2 DEF AnswerInv
<1> QED BY <1>6, <1>7, <1>8, <1>9, <1>10 DEF DecoderInv

\* 200 is answered when the replay is over, and then all rows are handed on.
LEMMA CommitInv ==
    ASSUME DecoderInv, Commit(200)
    PROVE  DecoderInv'
<1>1. /\ doc' = doc /\ at' = at /\ phase = "replay" /\ phase' = "answered" /\ reply' = 200
      /\ UNCHANGED <<i, env, taken, buffered, count, handed>> /\ i = Len(buffered)
      /\ HeaderValid(env, count)
  BY DEF Commit, Answer, Replayed
<1>2. DocumentRows' = DocumentRows /\ (\A n : FirstRows(n)' = FirstRows(n))
      /\ \A n : RowsValid(n)' = RowsValid(n)
  BY <1>1, SameDocument
<1>3. WellFormed(doc) /\ i \in Nat /\ Len(DocumentRows) \in Nat
      /\ DocumentRows = FirstRows(Len(DocumentRows))
  BY RowsAreList DEF DecoderInv, DecoderTypeOK
<1>4. AllRead /\ at = Len(doc) + 1 /\ handed = DocumentRows
  BY <1>1, <1>3 DEF DecoderInv, ReplayInv, AllRead
<1>5. DecoderTypeOK'
  BY <1>1 DEF DecoderInv, DecoderTypeOK
<1>6. HeaderInv'
  BY <1>1 DEF DecoderInv, HeaderInv, HasRead
<1>7. MembersInv' /\ ResultsInv' /\ ReplayInv'
  BY <1>1 DEF MembersInv, ResultsInv, ReplayInv
<1>8. AnswerInv'
  <2>1. AllRead'
    BY <1>1, <1>2, <1>4 DEF AllRead, RowsValid
  <2>2. HeaderValid(env, count)'
    BY <1>1
  <2> QED BY <1>1, <1>2, <1>4, <2>1, <2>2 DEF DecoderInv, AnswerInv
<1> QED BY <1>5, <1>6, <1>7, <1>8 DEF DecoderInv

\* Every step of the decoder preserves the invariant.
LEMMA DecodeInv ==
    ASSUME DecoderInv, Decode
    PROVE  DecoderInv'
<1>1. CASE Field
  BY <1>1, FieldInv
<1>2. CASE OpenResults
  BY <1>2, OpenResultsInv
<1>3. CASE BufferResult \/ HandResult
  BY <1>3, GoodResultInv
<1>4. CASE CloseResults
  BY <1>4, CloseResultsInv
<1>5. CASE EndObject
  BY <1>5, EndObjectInv
<1>6. CASE Replay
  BY <1>6, ReplayStepInv
<1>7. CASE Commit(200)
  BY <1>7, CommitInv
<1>8. CASE \/ BadField \/ ResultsNoArray \/ TooManyResults \/ BadResult \/ HandFails
           \/ BadHeader \/ Commit(500) \/ BodyBreaks
  <2>1. \E status \in {400, 413, 500} :
           /\ reply' = status /\ phase' \in {"answered", "broken"}
           /\ UNCHANGED <<doc, at, i, env, taken, buffered, count, handed>>
    BY <1>8 DEF BadField, ResultsNoArray, TooManyResults, BadResult, HandFails, BadHeader,
                Commit, BodyBreaks, Answer
  <2> QED BY <2>1, ErrorAnswered
<1> QED BY <1>1, <1>2, <1>3, <1>4, <1>5, <1>6, <1>7, <1>8 DEF Decode

-----------------------------------------------------------------------------
(* What the invariant says of the store and of the answer. *)

\* A prefix of the document's rows is handed on, all of them under 200.
LEMMA InvHandsInOrder == DecoderInv => HandedInOrder
<1> SUFFICES ASSUME DecoderInv PROVE HandedInOrder
  OBVIOUS
<1>1. WellFormed(doc)
  BY DEF DecoderInv, DecoderTypeOK
<1>2. PICK n \in 0..Len(DocumentRows) : handed = FirstRows(n)
  BY DEF DecoderInv, AnswerInv
<1>3. IsPrefix(handed, DocumentRows)
  BY <1>1, <1>2, FirstRowsFacts
<1> QED BY <1>3 DEF HandedInOrder, DecoderInv, AnswerInv

\* Once the document is read, env has the value of every header field.
LEMMA EnvIsDocument ==
    ASSUME DecoderInv, at = Len(doc) + 1, NEW f \in DOMAIN NoHeader, NEW none,
           f # "machine" => none = NoHeader[f]
    PROVE  /\ f # "machine" => env[f] = ValueAt(f, none)
           /\ f = "machine" /\ none = <<>> =>
                 env[f] = Decoded(ValueAt(f, none), MachineTexts, MachineNumbers)
<1>1. Len(doc) \in Nat /\ DOMAIN doc = 1..Len(doc) /\ WellFormed(doc)
  BY ListFacts DEF DecoderInv, DecoderTypeOK, WellFormed
<1>2. f # "results"
  BY DEF NoHeader
<1>3. CASE {k \in DOMAIN doc : doc[k].key = f} = {}
  <2>1. ~HasRead(f)
    BY <1>3 DEF HasRead
  <2>2. env[f] = NoHeader[f]
    BY <2>1 DEF DecoderInv, HeaderInv
  <2>3. ValueAt(f, none) = none
    BY <1>3 DEF ValueAt
  <2>4. NoHeader["machine"] = Decoded(<<>>, MachineTexts, MachineNumbers)
    BY DEF NoHeader
  <2> QED BY <2>2, <2>3, <2>4
<1>4. CASE {k \in DOMAIN doc : doc[k].key = f} # {}
  <2>1. PICK k \in DOMAIN doc : doc[k].key = f
    BY <1>4
  <2>2. {l \in DOMAIN doc : doc[l].key = f} = {k}
    BY <1>1, <2>1 DEF WellFormed
  <2>3. ValueAt(f, none) = doc[k].val
    <3>1. (CHOOSE l \in {k} : TRUE) = k
      OBVIOUS
    <3> QED BY <2>2, <3>1 DEF ValueAt
  <2>4. env[f] = FieldValue(doc[k])
    BY <1>1, <1>2, <2>1 DEF DecoderInv, HeaderInv
  <2> QED BY <2>1, <2>3, <2>4 DEF FieldValue
<1> QED BY <1>3, <1>4

\* A timestamp that was read is a number.
LEMMA TimestampsAreNumbers ==
    ASSUME DecoderInv, NEW f \in {"started_at", "finished_at"}
    PROVE  env[f] \in Nat
<1>0. /\ {"started_at", "finished_at"} \subseteq DOMAIN NoHeader
      /\ NoHeader["started_at"] = 0 /\ NoHeader["finished_at"] = 0
  BY DEF NoHeader
<1>1. f \in DOMAIN NoHeader /\ NoHeader[f] = 0
  BY <1>0
<1>2. CASE HasRead(f)
  <2>1. PICK k \in DOMAIN doc : k < at /\ doc[k].key = f
    BY <1>2 DEF HasRead
  <2>2. DecodesField(doc[k]) /\ env[f] = FieldValue(doc[k])
    BY <2>1 DEF DecoderInv, HeaderInv
  <2>3. doc[k].val \in Nat
    BY <2>1, <2>2 DEF DecoderInv, DecoderTypeOK, WellFormed, DecodesField
  <2> QED BY <2>1, <2>2, <2>3 DEF FieldValue
<1>3. CASE ~HasRead(f)
  BY <1>1, <1>3 DEF DecoderInv, HeaderInv
<1> QED BY <1>2, <1>3

\* Under 200 the document is one that reading it whole would accept.
LEMMA InvOkMeansValid == DecoderInv => OkMeansValid
<1> SUFFICES ASSUME DecoderInv, reply = 200
             PROVE  /\ \A k \in DOMAIN doc :
                          doc[k].ok /\ doc[k].key \in DOMAIN NoHeader \cup {"results"}
                    /\ Len(DocumentRows) \in 1..MaxResults
                    /\ \A k \in DOMAIN DocumentRows : ValidResult(DocumentRows[k])
                    /\ ValueAt("schema_version", 0) = 1 /\ ValueAt("run_id", "") = "uuid"
                    /\ ValueAt("started_at", 0) \in 1..ValueAt("finished_at", 0)
                    /\ ValidMachine(Decoded(ValueAt("machine", <<>>), MachineTexts, MachineNumbers))
  BY DEF OkMeansValid
<1>1. WellFormed(doc) /\ at = Len(doc) + 1 /\ AllRead /\ HeaderValid(env, count) /\ count \in Nat
  BY DEF DecoderInv, DecoderTypeOK, AnswerInv
<1>2. Len(doc) \in Nat /\ DOMAIN doc = 1..Len(doc)
  BY <1>1, ListFacts DEF WellFormed
<1>3. \A k \in DOMAIN doc : doc[k].ok /\ doc[k].key \in DOMAIN NoHeader \cup {"results"}
  <2> SUFFICES ASSUME NEW k \in DOMAIN doc
               PROVE  doc[k].ok /\ doc[k].key \in DOMAIN NoHeader \cup {"results"}
    OBVIOUS
  <2>1. \/ doc[k].key = "results" /\ doc[k].ok
        \/ DecodesField(doc[k])
    BY <1>1, <1>2 DEF DecoderInv, HeaderInv
  <2> QED BY <2>1 DEF DecodesField, NoHeader
<1>4. /\ Len(DocumentRows) \in 1..MaxResults
      /\ \A k \in DOMAIN DocumentRows : ValidResult(DocumentRows[k])
  <2>1. Len(DocumentRows) \in Nat /\ DOMAIN DocumentRows = 1..Len(DocumentRows)
    BY <1>1, RowsAreList
  <2>2. count # 0
    BY <1>1 DEF HeaderValid
  <2> QED BY <1>1, <2>1, <2>2, MaxResultsAssumption DEF AllRead, RowsValid
<1>5. /\ env.schema_version = ValueAt("schema_version", 0)
      /\ env.run_id = ValueAt("run_id", "")
      /\ env.started_at = ValueAt("started_at", 0)
      /\ env.finished_at = ValueAt("finished_at", 0)
      /\ env.machine = Decoded(ValueAt("machine", <<>>), MachineTexts, MachineNumbers)
  <2>1. {"schema_version", "run_id", "started_at", "finished_at", "machine"} \subseteq DOMAIN NoHeader
        /\ NoHeader["schema_version"] = 0 /\ NoHeader["run_id"] = ""
        /\ NoHeader["started_at"] = 0 /\ NoHeader["finished_at"] = 0
    BY DEF NoHeader
  <2> QED BY <1>1, <2>1, EnvIsDocument
<1>6. env.started_at \in Nat /\ env.finished_at \in Nat
  BY TimestampsAreNumbers
<1>7. env.started_at \in 1..env.finished_at
  BY <1>1, <1>6 DEF HeaderValid, ParsesTimestamp
<1> QED BY <1>1, <1>3, <1>4, <1>5, <1>7 DEF HeaderValid

-----------------------------------------------------------------------------
(* What the engine runs. *)

Hosts == CpuMetrics \cup MemBwMetrics \cup {"mem_latency"} \cup DiskSeqMetrics \cup IopsMetrics

\* What is left of a list are elements of it that are not taken out.
LEMMA WithoutElements ==
    ASSUME NEW s, IsList(s), NEW X
    PROVE  /\ IsList(Without(s, X))
           /\ \A l \in DOMAIN Without(s, X) :
                 Without(s, X)[l] \notin X /\ \E k \in DOMAIN s : Without(s, X)[l] = s[k]
<1> DEFINE ss == [k \in DOMAIN s |-> IF s[k] \in X THEN <<>> ELSE <<s[k]>>]
<1>1. Len(s) \in Nat /\ DOMAIN s = 1..Len(s)
  BY ListFacts
<1>2. IsList(ss)
  <2>1. ss = [k \in 1..Len(s) |-> ss[k]]
    BY <1>1
  <2> HIDE DEF ss
  <2> QED BY <1>1, <2>1, FunctionIsList
<1>3. ASSUME NEW k \in DOMAIN ss PROVE IsList(ss[k])
  <2>1. IsList(<<>>)
    BY DEF IsList
  <2>2. ASSUME NEW x PROVE IsList(<<x>>)
    BY DEF IsList, ToSet
  <2> QED BY <2>1, <2>2
<1>4. \A k \in DOMAIN ss : \A j \in DOMAIN ss[k] : s[k] \notin X /\ ss[k][j] = s[k]
  OBVIOUS
<1>5. DOMAIN ss = DOMAIN s /\ Without(s, X) = FlattenSeq(ss)
  BY DEF Without
<1> HIDE DEF ss
<1>6. /\ IsList(FlattenSeq(ss))
      /\ \A l \in DOMAIN FlattenSeq(ss) : \E k \in DOMAIN ss : \E j \in DOMAIN ss[k] :
             FlattenSeq(ss)[l] = ss[k][j]
  BY <1>2, <1>3, FlattenElements
<1> QED BY <1>4, <1>5, <1>6

\* The registry lists hosts and riders, seven workloads of them.
LEMMA RegistryFacts ==
    /\ IsList(Registry)
    /\ \A k \in DOMAIN Registry : IsList(Registry[k].metrics)
    /\ \A k \in DOMAIN Registry : \A l \in DOMAIN Registry[k].metrics :
          Registry[k].metrics[l] \in Hosts \cup Riders
<1>1. DOMAIN Registry = 1..7
  BY DEF Registry
<1>2. IsList(Registry)
  <2>1. Registry = [k \in 1..7 |-> Registry[k]]
    BY DEF Registry
  <2> QED BY <2>1, FunctionIsList
<1> DEFINE H == Hosts \cup Riders
           Good(s) == IsList(s) /\ \A l \in DOMAIN s : s[l] \in H
<1>3. \A x, y, z \in H : Good(<<x>>) /\ Good(<<x, y>>) /\ Good(<<x, y, z>>)
  <2> SUFFICES ASSUME NEW x \in H, NEW y \in H, NEW z \in H
               PROVE  Good(<<x>>) /\ Good(<<x, y>>) /\ Good(<<x, y, z>>)
    OBVIOUS
  <2> HIDE DEF H
  <2>1. IsList(<<x>>) /\ IsList(<<x, y>>) /\ IsList(<<x, y, z>>)
    BY DEF IsList, ToSet
  <2> QED BY <2>1
<1>4. {"cpu_int_ops", "cpu_fp_ops", "cpu_hash_ops", "mem_read_bw", "mem_write_bw", "mem_copy_bw",
       "mem_latency", "disk_seq_read_bw", "disk_seq_write_bw", "disk_rand_read_iops",
       "disk_rand_write_iops", "disk_rand_read_p99_us"} \subseteq H
  BY DEF Hosts, Riders, CpuMetrics, MemBwMetrics, DiskSeqMetrics, IopsMetrics
<1>5. /\ Registry[1].metrics = <<"cpu_int_ops">> /\ Registry[2].metrics = <<"cpu_fp_ops">>
      /\ Registry[3].metrics = <<"cpu_hash_ops">>
      /\ Registry[4].metrics = <<"mem_read_bw", "mem_write_bw", "mem_copy_bw">>
      /\ Registry[5].metrics = <<"mem_latency">>
      /\ Registry[6].metrics = <<"disk_seq_read_bw", "disk_seq_write_bw">>
      /\ Registry[7].metrics
            = <<"disk_rand_read_iops", "disk_rand_write_iops", "disk_rand_read_p99_us">>
  BY DEF Registry
<1>6. \A k \in 1..7 : Good(Registry[k].metrics)
  <2> HIDE DEF H, Good
  <2>1. /\ Good(Registry[1].metrics) /\ Good(Registry[2].metrics) /\ Good(Registry[3].metrics)
        /\ Good(Registry[4].metrics) /\ Good(Registry[5].metrics) /\ Good(Registry[6].metrics)
        /\ Good(Registry[7].metrics)
    <3>1. /\ "cpu_int_ops" \in H /\ "cpu_fp_ops" \in H /\ "cpu_hash_ops" \in H
          /\ "mem_read_bw" \in H /\ "mem_write_bw" \in H /\ "mem_copy_bw" \in H
          /\ "mem_latency" \in H /\ "disk_seq_read_bw" \in H /\ "disk_seq_write_bw" \in H
          /\ "disk_rand_read_iops" \in H /\ "disk_rand_write_iops" \in H
          /\ "disk_rand_read_p99_us" \in H
      BY <1>4
    <3>2. Good(<<"cpu_int_ops">>) /\ Good(<<"cpu_fp_ops">>) /\ Good(<<"cpu_hash_ops">>)
      BY <1>3, <3>1, Zenon
    <3>3. Good(<<"mem_latency">>) /\ Good(<<"mem_read_bw", "mem_write_bw", "mem_copy_bw">>)
      BY <1>3, <3>1, Zenon
    <3>4. /\ Good(<<"disk_seq_read_bw", "disk_seq_write_bw">>)
          /\ Good(<<"disk_rand_read_iops", "disk_rand_write_iops", "disk_rand_read_p99_us">>)
      BY <1>3, <3>1, Zenon
    <3> QED BY <1>5, <3>2, <3>3, <3>4, Zenon
  <2>2. \A k \in 1..7 : k \in {1, 2, 3, 4, 5, 6, 7}
    OBVIOUS
  <2> QED BY <2>1, <2>2
<1> QED BY <1>1, <1>2, <1>6

\* A workload stands for hosts only.
LEMMA MetricsOfFacts ==
    ASSUME NEW w
    PROVE  IsList(MetricsOf(w)) /\ \A l \in DOMAIN MetricsOf(w) : MetricsOf(w)[l] \in Hosts
<1> DEFINE ss == [k \in DOMAIN Registry |->
                    IF Registry[k].kind = w THEN Without(Registry[k].metrics, Riders) ELSE <<>>]
<1>1. Len(Registry) \in Nat /\ DOMAIN Registry = 1..Len(Registry)
  BY RegistryFacts, ListFacts
<1>2. IsList(ss)
  <2>1. ss = [k \in 1..Len(Registry) |-> ss[k]]
    BY <1>1
  <2> HIDE DEF ss
  <2> QED BY <1>1, <2>1, FunctionIsList
<1>3. ASSUME NEW k \in DOMAIN ss
      PROVE  IsList(ss[k]) /\ \A j \in DOMAIN ss[k] : ss[k][j] \in Hosts
  <2>1. IsList(<<>>) /\ DOMAIN <<>> = {}
    BY DEF IsList
  <2>2. IsList(Registry[k].metrics)
        /\ \A l \in DOMAIN Registry[k].metrics : Registry[k].metrics[l] \in Hosts \cup Riders
    BY RegistryFacts
  <2> DEFINE u == Without(Registry[k].metrics, Riders)
  <2>3. IsList(u) /\ \A l \in DOMAIN u : u[l] \in Hosts
    <3>1. IsList(u) /\ \A l \in DOMAIN u : u[l] \notin Riders /\
             \E j \in DOMAIN Registry[k].metrics : u[l] = Registry[k].metrics[j]
      BY <2>2, WithoutElements
    <3> HIDE DEF u
    <3> QED BY <2>2, <3>1
  <2>4. ss[k] = u \/ ss[k] = <<>>
    OBVIOUS
  <2> HIDE DEF u, ss
  <2> QED BY <2>1, <2>3, <2>4
<1>4. MetricsOf(w) = FlattenSeq(ss)
  BY DEF MetricsOf
<1> HIDE DEF ss
<1>5. /\ IsList(FlattenSeq(ss))
      /\ \A l \in DOMAIN FlattenSeq(ss) : \E k \in DOMAIN ss : \E j \in DOMAIN ss[k] :
             FlattenSeq(ss)[l] = ss[k][j]
  BY <1>2, <1>3, FlattenElements
<1> QED BY <1>3, <1>4, <1>5

\* So does a list of workloads.
LEMMA ExpandedFacts ==
    ASSUME NEW ws, IsList(ws)
    PROVE  IsList(Expanded(ws)) /\ \A l \in DOMAIN Expanded(ws) : Expanded(ws)[l] \in Hosts
<1> DEFINE ss == [k \in DOMAIN ws |-> MetricsOf(ws[k])]
<1>1. Len(ws) \in Nat /\ DOMAIN ws = 1..Len(ws)
  BY ListFacts
<1>2. IsList(ss)
  <2>1. ss = [k \in 1..Len(ws) |-> ss[k]]
    BY <1>1
  <2> HIDE DEF ss
  <2> QED BY <1>1, <2>1, FunctionIsList
<1>3. \A k \in DOMAIN ss : IsList(ss[k]) /\ \A j \in DOMAIN ss[k] : ss[k][j] \in Hosts
  BY MetricsOfFacts
<1>4. Expanded(ws) = FlattenSeq(ss)
  BY DEF Expanded
<1> HIDE DEF ss
<1>5. /\ IsList(FlattenSeq(ss))
      /\ \A l \in DOMAIN FlattenSeq(ss) : \E k \in DOMAIN ss : \E j \in DOMAIN ss[k] :
             FlattenSeq(ss)[l] = ss[k][j]
  BY <1>2, <1>3, FlattenElements
<1> QED BY <1>3, <1>4, <1>5

\* A run that is not refused selects hosts only; their riders come with them.
LEMMA SelectedFacts ==
    ASSUME NEW o \in OptionSets, ~Refused(o)
    PROVE  IsList(Selected(o)) /\ \A l \in DOMAIN Selected(o) : Selected(o)[l] \in Hosts
<1>1. IsList(o.metrics) /\ IsList(o.workloads)
  <2>1. \A q \in Seq(STRING) : q = [k \in 1..Len(q) |-> q[k]] /\ Len(q) \in Nat
    OBVIOUS
  <2> QED BY <2>1, FunctionIsList, OptionsAssumption
<1>2. IsList(AskedWorkloads(o))
  <2>1. DOMAIN Registry = 1..7
    BY DEF Registry
  <2>2. AllWorkloads = [k \in 1..7 |-> AllWorkloads[k]]
    BY <2>1 DEF AllWorkloads
  <2>3. IsList(AllWorkloads)
    BY <2>2, FunctionIsList
  <2>4. IsList(<<>>)
    BY DEF IsList
  <2> QED BY <1>1, <2>3, <2>4, ConcatIsList DEF AskedWorkloads
<1>3. CASE o.metrics # <<>>
  <2>1. Selected(o) = o.metrics
    BY <1>3 DEF Selected
  <2>2. \A l \in DOMAIN o.metrics : o.metrics[l] \in AllMetrics \ Riders
    BY DEF Refused, ToSet
  <2>3. AllMetrics \subseteq Hosts \cup Riders
    BY RegistryFacts DEF AllMetrics, ToSet
  <2> QED BY <1>1, <2>1, <2>2, <2>3
<1>4. CASE o.metrics = <<>>
  <2> DEFINE e == Expanded(AskedWorkloads(o))
  <2>1. IsList(e) /\ \A l \in DOMAIN e : e[l] \in Hosts
    BY <1>2, ExpandedFacts
  <2> DEFINE u == Without(e, DiskWrites)
  <2>2. IsList(u) /\ \A l \in DOMAIN u : \E k \in DOMAIN e : u[l] = e[k]
    <3> HIDE DEF e
    <3> QED BY <2>1, WithoutElements
  <2>3. Selected(o) = e \/ Selected(o) = u
    BY <1>4 DEF Selected
  <2> HIDE DEF e, u
  <2> QED BY <2>1, <2>2, <2>3
<1> QED BY <1>3, <1>4

\* A configuration: a host with its rider, at least one thread, a working set.
IsSpec(sp) ==
    \E m \in Hosts, t \in Nat \ {0}, w \in Nat :
        sp = [kind |-> WorkloadOf(m), metrics |-> <<m>> \o RidersOf(m), threads |-> t, ws |-> w]

\* Rounding a working set gives one.
LEMMA WorkingSetType ==
    ASSUME NEW w, NEW requested \in Nat
    PROVE  EffectiveWorkingSet(w, requested) \in Nat
<1> DEFINE want == IF requested = 0 THEN DefaultSet ELSE requested
<1>1. want \in Nat /\ CacheLine \in Nat \ {0} /\ MinLines \in Nat /\ DiskBlock \in Nat \ {0}
  BY SizesAssumption
<1>2. \A a, b \in Nat : a * b \in Nat
  OBVIOUS
<1>3. want \div CacheLine \in Nat /\ want \div DiskBlock \in Nat
  BY <1>1
<1>4. \A a, b \in Nat : AtLeast(a, b) \in Nat
  BY DEF AtLeast
<1> HIDE DEF want
<1>5. /\ AtLeast(1, want \div CacheLine) * CacheLine \in Nat
      /\ AtLeast(MinLines, want \div CacheLine) * CacheLine \in Nat
      /\ AtLeast(1, want \div DiskBlock) * DiskBlock \in Nat
  <2>1. /\ AtLeast(1, want \div CacheLine) \in Nat
        /\ AtLeast(MinLines, want \div CacheLine) \in Nat
        /\ AtLeast(1, want \div DiskBlock) \in Nat
    BY <1>1, <1>3, <1>4
  <2> QED BY <1>1, <1>2, <2>1
<1> QED BY <1>5 DEF EffectiveWorkingSet, want

\* run_benchmarks() builds configurations of this kind.
LEMMA SpecsFacts ==
    ASSUME NEW o \in OptionSets, ~Refused(o), ~OutOfRange(o)
    PROVE  IsList(Specs(o)) /\ \A k \in DOMAIN Specs(o) : IsSpec(Specs(o)[k])
<1> DEFINE ms == Selected(o)
           Of(m, t, w) == [kind |-> WorkloadOf(m), metrics |-> <<m>> \o RidersOf(m), threads |-> t,
                           ws |-> EffectiveWorkingSet(WorkloadOf(m), w)]
           part(a, b) == [c \in DOMAIN o.sizes |-> Of(ms[a], o.threads[b], o.sizes[c])]
           row(a) == [b \in DOMAIN o.threads |-> part(a, b)]
           ss == [a \in DOMAIN ms |-> FlattenSeq(row(a))]
<1>1. IsList(ms) /\ \A a \in DOMAIN ms : ms[a] \in Hosts
  BY SelectedFacts
<1>2. /\ Len(o.threads) \in Nat /\ DOMAIN o.threads = 1..Len(o.threads)
      /\ Len(o.sizes) \in Nat /\ DOMAIN o.sizes = 1..Len(o.sizes)
      /\ \A b \in DOMAIN o.threads : o.threads[b] \in Nat \ {0}
      /\ \A c \in DOMAIN o.sizes : o.sizes[c] \in Nat
  <2>1. o.threads \in Seq(Int) /\ o.sizes \in Seq(Nat)
    BY OptionsAssumption
  <2>2. \A b \in DOMAIN o.threads : ~(o.threads[b] < 1)
    BY DEF OutOfRange, ToSet
  <2> QED BY <2>1, <2>2
<1>3. Len(ms) \in Nat /\ DOMAIN ms = 1..Len(ms)
  BY <1>1, ListFacts
<1>4. Specs(o) = FlattenSeq(ss)
  BY DEF Specs
<1>5. ASSUME NEW a \in DOMAIN ms, NEW b \in DOMAIN o.threads
      PROVE  IsList(part(a, b)) /\ \A c \in DOMAIN part(a, b) : IsSpec(part(a, b)[c])
  <2>1. IsList(part(a, b))
    <3>1. part(a, b) = [c \in 1..Len(o.sizes) |-> part(a, b)[c]]
      BY <1>2
    <3> HIDE DEF part
    <3> QED BY <1>2, <3>1, FunctionIsList
  <2>2. ASSUME NEW c \in DOMAIN o.sizes PROVE IsSpec(Of(ms[a], o.threads[b], o.sizes[c]))
    <3>1. EffectiveWorkingSet(WorkloadOf(ms[a]), o.sizes[c]) \in Nat
      BY <1>2, WorkingSetType
    <3>2. ms[a] \in Hosts /\ o.threads[b] \in Nat \ {0}
      BY <1>1, <1>2
    <3> HIDE DEF ms
    <3> QED BY <3>1, <3>2 DEF IsSpec
  <2>3. DOMAIN part(a, b) = DOMAIN o.sizes
        /\ \A c \in DOMAIN o.sizes : part(a, b)[c] = Of(ms[a], o.threads[b], o.sizes[c])
    OBVIOUS
  <2> HIDE DEF part, Of, ms
  <2> QED BY <2>1, <2>2, <2>3
<1>6. ASSUME NEW a \in DOMAIN ms
      PROVE  IsList(ss[a]) /\ \A l \in DOMAIN ss[a] : IsSpec(ss[a][l])
  <2> HIDE DEF part, ms
  <2>1. DOMAIN row(a) = DOMAIN o.threads /\ \A b \in DOMAIN o.threads : row(a)[b] = part(a, b)
    OBVIOUS
  <2>2. IsList(row(a))
    <3>1. row(a) = [b \in 1..Len(o.threads) |-> row(a)[b]]
      BY <1>2
    <3> HIDE DEF row
    <3> QED BY <1>2, <3>1, FunctionIsList
  <2>3. ss[a] = FlattenSeq(row(a))
    OBVIOUS
  <2> HIDE DEF row, ss
  <2>4. /\ IsList(FlattenSeq(row(a)))
        /\ \A l \in DOMAIN FlattenSeq(row(a)) : \E k \in DOMAIN row(a) : \E j \in DOMAIN row(a)[k] :
               FlattenSeq(row(a))[l] = row(a)[k][j]
    BY <1>5, <2>1, <2>2, FlattenElements
  <2> QED BY <1>5, <2>1, <2>3, <2>4
<1>7. IsList(ss) /\ DOMAIN ss = DOMAIN ms
  <2>1. DOMAIN ss = DOMAIN ms /\ ss = [a \in 1..Len(ms) |-> ss[a]]
    BY <1>3
  <2> HIDE DEF ss, ms
  <2> QED BY <1>3, <2>1, FunctionIsList
<1> HIDE DEF ss, ms
<1>8. /\ IsList(FlattenSeq(ss))
      /\ \A l \in DOMAIN FlattenSeq(ss) : \E k \in DOMAIN ss : \E j \in DOMAIN ss[k] :
             FlattenSeq(ss)[l] = ss[k][j]
  BY <1>6, <1>7, FlattenElements
<1> QED BY <1>4, <1>6, <1>7, <1>8

\* The metrics of a configuration are all of its kind.
LEMMA SpecFacts ==
    ASSUME NEW sp, IsSpec(sp)
    PROVE  /\ sp.threads \in Nat \ {0} /\ sp.ws \in Nat /\ IsList(sp.metrics)
           /\ \A k \in DOMAIN sp.metrics :
                 sp.metrics[k] \in Hosts \cup Riders /\ WorkloadOf(sp.metrics[k]) = sp.kind
<1>1. PICK m \in Hosts, t \in Nat \ {0}, w \in Nat :
         sp = [kind |-> WorkloadOf(m), metrics |-> <<m>> \o RidersOf(m), threads |-> t, ws |-> w]
  BY DEF IsSpec
<1>2. sp.threads = t /\ sp.ws = w /\ sp.kind = WorkloadOf(m) /\ sp.metrics = <<m>> \o RidersOf(m)
  BY <1>1
<1>3. CASE m = "disk_rand_read_iops"
  <2>1. RidersOf(m) = <<"disk_rand_read_p99_us">>
    BY <1>3 DEF RidersOf
  <2>2. ASSUME NEW x, NEW y PROVE <<x>> \o <<y>> \in Seq({x, y}) /\ IsList(<<x>> \o <<y>>)
    <3>1. <<x>> \in Seq({x, y}) /\ <<y>> \in Seq({x, y})
      OBVIOUS
    <3>2. IsList(<<x>>) /\ IsList(<<y>>)
      BY DEF IsList, ToSet
    <3> QED BY <3>1, <3>2, ConcatIsList
  <2>3. WorkloadOf("disk_rand_read_p99_us") = "disk_rand" /\ WorkloadOf("disk_rand_read_iops") = "disk_rand"
    BY DEF WorkloadOf, IopsMetrics, MemBwMetrics, DiskSeqMetrics
  <2>4. \A k \in DOMAIN sp.metrics : sp.metrics[k] \in {m, "disk_rand_read_p99_us"}
    <3>1. sp.metrics \in Seq({m, "disk_rand_read_p99_us"})
      BY <1>2, <2>1, <2>2
    <3> QED BY <3>1
  <2>5. "disk_rand_read_p99_us" \in Riders
    BY DEF Riders
  <2> QED BY <1>2, <1>3, <2>1, <2>2, <2>3, <2>4, <2>5
<1>4. CASE m # "disk_rand_read_iops"
  <2>1. sp.metrics = <<m>>
    BY <1>2, <1>4 DEF RidersOf
  <2>2. IsList(<<m>>)
    BY DEF IsList, ToSet
  <2>3. \A k \in DOMAIN sp.metrics : sp.metrics[k] = m
    BY <2>1
  <2> QED BY <1>2, <2>1, <2>2, <2>3
<1> QED BY <1>3, <1>4

\* A row as the engine writes it, with the value or, where that is not a
\* number, without.
RowFields == {"workload", "thread_count", "working_set_bytes", "metric", "value", "unit", "trial",
              "timestamp", "duration_ns", "params"}

IsRow(r) ==
    /\ DOMAIN r \subseteq RowFields /\ RowFields \ {"value"} \subseteq DOMAIN r
    /\ r.metric \in Hosts \cup Riders
    /\ r.workload = WorkloadOf(r.metric) /\ r.unit = UnitOf(r.metric)
    /\ r.thread_count \in Nat \ {0} /\ r.working_set_bytes \in Nat /\ r.trial \in Nat
    /\ r.duration_ns \in Nat \ {0} /\ r.timestamp = StartTime

\* run_one_trial() writes such rows.
LEMMA RowIsRow ==
    ASSUME NEW o, NEW machine, NEW sp, IsSpec(sp), NEW k \in DOMAIN sp.metrics, NEW t \in Nat,
           NEW s \in Samples
    PROVE  IsRow(Row(o, machine, sp, sp.metrics[k], t, s))
<1> DEFINE m == sp.metrics[k]
           r == Row(o, machine, sp, m, t, s)
<1>1. /\ sp.threads \in Nat \ {0} /\ sp.ws \in Nat
      /\ m \in Hosts \cup Riders /\ WorkloadOf(m) = sp.kind
  BY SpecFacts
<1>2. s.ns \in Nat
  BY SamplesAssumption
<1> HIDE DEF m
<1>3. /\ DOMAIN r = RowFields
      /\ r.metric = m /\ r.workload = sp.kind /\ r.unit = UnitOf(m) /\ r.thread_count = sp.threads
      /\ r.working_set_bytes = sp.ws /\ r.trial = t /\ r.timestamp = StartTime
      /\ r.duration_ns = IF s.ns = 0 THEN 1 ELSE s.ns
  BY DEF Row, RowFields
<1> HIDE DEF r
<1>4. IsRow(r)
  BY <1>1, <1>2, <1>3 DEF IsRow
<1> QED BY <1>4 DEF r, m

\* So do the trials of a configuration.
LEMMA RowsOfFacts ==
    ASSUME NEW o, NEW machine, NEW sp, IsSpec(sp), NEW n \in Nat, NEW sample,
           \A t \in 1..n : sample[t] \in Samples
    PROVE  /\ IsList(RowsOf(o, machine, sp, n, sample))
           /\ \A l \in DOMAIN RowsOf(o, machine, sp, n, sample) :
                 IsRow(RowsOf(o, machine, sp, n, sample)[l])
<1> DEFINE trial(t) == [k \in DOMAIN sp.metrics |->
                           Row(o, machine, sp, sp.metrics[k], t - 1, sample[t])]
           ss == [t \in 1..n |-> trial(t)]
<1>1. Len(sp.metrics) \in Nat /\ DOMAIN sp.metrics = 1..Len(sp.metrics)
  BY SpecFacts, ListFacts
<1>2. ASSUME NEW t \in 1..n
      PROVE  IsList(trial(t)) /\ \A k \in DOMAIN trial(t) : IsRow(trial(t)[k])
  <2>1. DOMAIN trial(t) = DOMAIN sp.metrics
        /\ \A k \in DOMAIN sp.metrics :
              trial(t)[k] = Row(o, machine, sp, sp.metrics[k], t - 1, sample[t])
    OBVIOUS
  <2>2. trial(t) = [k \in 1..Len(sp.metrics) |-> trial(t)[k]]
    BY <1>1
  <2>3. t - 1 \in Nat /\ sample[t] \in Samples
    OBVIOUS
  <2>4. \A k \in DOMAIN sp.metrics : IsRow(Row(o, machine, sp, sp.metrics[k], t - 1, sample[t]))
    BY <2>3, RowIsRow
  <2> HIDE DEF trial
  <2>5. IsList(trial(t))
    BY <1>1, <2>2, FunctionIsList
  <2> QED BY <2>1, <2>4, <2>5
<1>3. DOMAIN ss = 1..n /\ \A t \in 1..n : ss[t] = trial(t)
  OBVIOUS
<1>4. IsList(ss)
  <2>1. ss = [t \in 1..n |-> ss[t]]
    OBVIOUS
  <2> HIDE DEF ss
  <2> QED BY <2>1, FunctionIsList
<1>5. RowsOf(o, machine, sp, n, sample) = FlattenSeq(ss)
  BY DEF RowsOf
<1> HIDE DEF ss, trial
<1>6. /\ IsList(FlattenSeq(ss))
      /\ \A l \in DOMAIN FlattenSeq(ss) : \E k \in DOMAIN ss : \E j \in DOMAIN ss[k] :
             FlattenSeq(ss)[l] = ss[k][j]
  BY <1>2, <1>3, <1>4, FlattenElements
<1> QED BY <1>2, <1>3, <1>5, <1>6

\* A summary has the fields the API knows.
LEMMA SummariesOfFacts ==
    ASSUME NEW sp, IsSpec(sp), NEW n \in Nat, NEW sample
    PROVE  /\ IsList(SummariesOf(sp, n, sample))
           /\ \A l \in DOMAIN SummariesOf(sp, n, sample) :
                 DOMAIN SummariesOf(sp, n, sample)[l] \subseteq SummaryFields
<1>1. Len(sp.metrics) \in Nat /\ DOMAIN sp.metrics = 1..Len(sp.metrics)
  BY SpecFacts, ListFacts
<1>2. CASE n = 0
  <2>1. SummariesOf(sp, n, sample) = <<>>
    BY <1>2 DEF SummariesOf
  <2>2. IsList(<<>>) /\ DOMAIN <<>> = {}
    BY DEF IsList
  <2> QED BY <2>1, <2>2
<1>3. CASE n # 0
  <2> DEFINE Values(m) == [t \in 1..n |-> ValueOf(m, sample[t].units, sample[t].ns, sp.threads, sample[t].p99)]
             Quality == [late_trials |-> Cardinality({t \in 1..n : sample[t].late}),
                         canary_attempts |-> 1, clock_call_ns_start |-> 14, clock_call_ns_end |-> 14]
             Head4(m) == [workload |-> sp.kind, metric |-> m, thread_count |-> sp.threads,
                          working_set_bytes |-> sp.ws]
             f == [k \in DOMAIN sp.metrics |->
                     Joined(Head4(sp.metrics[k]), Joined(Summarize(Values(sp.metrics[k])), Quality))]
  <2>1. SummariesOf(sp, n, sample) = f
    BY <1>3 DEF SummariesOf
  <2>2. IsList(f)
    <3>1. f = [k \in 1..Len(sp.metrics) |-> f[k]]
      BY <1>1
    <3> HIDE DEF f
    <3> QED BY <1>1, <3>1, FunctionIsList
  <2>3. ASSUME NEW k \in DOMAIN sp.metrics PROVE DOMAIN f[k] \subseteq SummaryFields
    <3>1. f[k] = Joined(Head4(sp.metrics[k]), Joined(Summarize(Values(sp.metrics[k])), Quality))
      OBVIOUS
    <3>2. DOMAIN Head4(sp.metrics[k]) \subseteq SummaryFields
          /\ DOMAIN Quality \subseteq SummaryFields
      BY DEF SummaryFields, StatisticsFields
    <3>3. ASSUME NEW v PROVE DOMAIN Summarize(v) \subseteq SummaryFields
      BY DEF Summarize, SummaryFields, StatisticsFields
    <3>4. ASSUME NEW g, NEW h PROVE DOMAIN Joined(g, h) = DOMAIN g \cup DOMAIN h
      BY DEF Joined
    <3> HIDE DEF f, Values, Quality, Head4
    <3>5. PICK v : v = Values(sp.metrics[k])
      OBVIOUS
    <3>6. DOMAIN Joined(Summarize(v), Quality) \subseteq SummaryFields
      BY <3>2, <3>3, <3>4
    <3>7. f[k] = Joined(Head4(sp.metrics[k]), Joined(Summarize(v), Quality))
      BY <3>1, <3>5
    <3>8. DOMAIN f[k] = DOMAIN Head4(sp.metrics[k]) \cup DOMAIN Joined(Summarize(v), Quality)
      BY <3>4, <3>7
    <3> QED BY <3>2, <3>6, <3>8
  <2>4. DOMAIN f = DOMAIN sp.metrics
    OBVIOUS
  <2> HIDE DEF f
  <2> QED BY <2>1, <2>2, <2>3, <2>4
<1> QED BY <1>2, <1>3

-----------------------------------------------------------------------------
(* The keys of the rows. *)

\* A metric tells which configuration's it is, and where it stands in it.
LEMMA MetricsApart ==
    ASSUME NEW sp, NEW sq, IsSpec(sp), IsSpec(sq),
           NEW k \in DOMAIN sp.metrics, NEW j \in DOMAIN sq.metrics, sp.metrics[k] = sq.metrics[j]
    PROVE  k = j /\ sp.metrics[1] = sq.metrics[1]
<1> DEFINE rider == "disk_rand_read_p99_us"
           host == "disk_rand_read_iops"
<1>1. rider \notin Hosts
  BY DEF Hosts, CpuMetrics, MemBwMetrics, DiskSeqMetrics, IopsMetrics
<1>2. ASSUME NEW x, IsSpec(x)
      PROVE  /\ x.metrics[1] \in Hosts
             /\ \/ DOMAIN x.metrics = {1}
                \/ DOMAIN x.metrics = {1, 2} /\ x.metrics[1] = host /\ x.metrics[2] = rider
  <2>1. PICK m \in Hosts, t \in Nat \ {0}, w \in Nat :
           x = [kind |-> WorkloadOf(m), metrics |-> <<m>> \o RidersOf(m), threads |-> t, ws |-> w]
    BY <1>2 DEF IsSpec
  <2>2. x.metrics = <<m>> \o RidersOf(m)
    BY <2>1
  <2>3. CASE m = host
    <3>1. RidersOf(m) = <<rider>>
      BY <2>3 DEF RidersOf
    <3>2. ASSUME NEW a, NEW b
          PROVE  DOMAIN (<<a>> \o <<b>>) = {1, 2} /\ (<<a>> \o <<b>>)[1] = a /\ (<<a>> \o <<b>>)[2] = b
      <4>1. <<a>> \in Seq({a, b}) /\ <<b>> \in Seq({a, b}) /\ Len(<<a>>) = 1 /\ Len(<<b>>) = 1
        OBVIOUS
      <4>2. \A q \in 1..2 : q = 1 \/ q = 2
        OBVIOUS
      <4> QED BY <4>1, <4>2
    <3> QED BY <2>2, <2>3, <3>1, <3>2
  <2>4. CASE m # host
    <3>1. x.metrics = <<m>>
      BY <2>2, <2>4 DEF RidersOf
    <3>2. DOMAIN <<m>> = {1} /\ <<m>>[1] = m
      OBVIOUS
    <3> QED BY <3>1, <3>2
  <2> QED BY <2>3, <2>4
<1>3. /\ sp.metrics[1] \in Hosts /\ sq.metrics[1] \in Hosts
      /\ \/ k = 1
         \/ k = 2 /\ sp.metrics[1] = host /\ sp.metrics[2] = rider
      /\ \/ j = 1
         \/ j = 2 /\ sq.metrics[1] = host /\ sq.metrics[2] = rider
  BY <1>2
<1> HIDE DEF rider, host
<1> QED BY <1>1, <1>3

\* The rows of one configuration are of its setting, each with a key of its own.
LEMMA RowsOfApart ==
    ASSUME NEW o, NEW machine, NEW sp, IsSpec(sp), NEW n \in Nat, NEW sample
    PROVE  LET rows == RowsOf(o, machine, sp, n, sample)
           IN  /\ \A l \in DOMAIN rows :
                     /\ \E k \in DOMAIN sp.metrics : rows[l].metric = sp.metrics[k]
                     /\ rows[l].thread_count = sp.threads /\ rows[l].working_set_bytes = sp.ws
               /\ \A l, m \in DOMAIN rows : l # m => KeyOf(rows[l]) # KeyOf(rows[m])
<1> DEFINE trial(t) == [k \in DOMAIN sp.metrics |->
                           Row(o, machine, sp, sp.metrics[k], t - 1, sample[t])]
           ss == [t \in 1..n |-> trial(t)]
<1>1. Len(sp.metrics) \in Nat /\ DOMAIN sp.metrics = 1..Len(sp.metrics)
  BY SpecFacts, ListFacts
<1>2. ASSUME NEW t \in 1..n
      PROVE  /\ IsList(ss[t]) /\ DOMAIN ss[t] = DOMAIN sp.metrics
             /\ \A k \in DOMAIN sp.metrics :
                   /\ ss[t][k].metric = sp.metrics[k] /\ ss[t][k].trial = t - 1
                   /\ ss[t][k].thread_count = sp.threads /\ ss[t][k].working_set_bytes = sp.ws
  <2>1. DOMAIN trial(t) = DOMAIN sp.metrics
        /\ \A k \in DOMAIN sp.metrics :
              trial(t)[k] = Row(o, machine, sp, sp.metrics[k], t - 1, sample[t])
    OBVIOUS
  <2>2. trial(t) = [k \in 1..Len(sp.metrics) |-> trial(t)[k]]
    BY <1>1
  <2>3. ss[t] = trial(t)
    OBVIOUS
  <2>4. ASSUME NEW m, NEW u, NEW x
        PROVE  LET r == Row(o, machine, sp, m, u, x)
               IN  r.metric = m /\ r.trial = u /\ r.thread_count = sp.threads
                   /\ r.working_set_bytes = sp.ws
    BY DEF Row
  <2> HIDE DEF trial, ss
  <2>5. IsList(trial(t))
    BY <1>1, <2>2, FunctionIsList
  <2> QED BY <2>1, <2>3, <2>4, <2>5
<1>3. DOMAIN ss = 1..n
  OBVIOUS
<1>4. IsList(ss)
  <2>1. ss = [t \in 1..n |-> ss[t]]
    OBVIOUS
  <2> HIDE DEF ss
  <2> QED BY <2>1, FunctionIsList
<1>5. PICK rows : rows = FlattenSeq(ss)
  OBVIOUS
<1>6. RowsOf(o, machine, sp, n, sample) = rows
  BY <1>5 DEF RowsOf
<1> HIDE DEF ss, trial
<1>7. \A t \in DOMAIN ss : IsList(ss[t])
  BY <1>2, <1>3
<1>8. ASSUME NEW l \in DOMAIN rows
      PROVE  /\ \E k \in DOMAIN sp.metrics : rows[l].metric = sp.metrics[k]
             /\ rows[l].thread_count = sp.threads /\ rows[l].working_set_bytes = sp.ws
  <2>1. PICK t \in DOMAIN ss : \E k \in DOMAIN ss[t] : rows[l] = ss[t][k]
    BY <1>4, <1>5, <1>7, FlattenElements
  <2> QED BY <1>2, <1>3, <2>1
<1>9. ASSUME NEW l \in DOMAIN rows, NEW m \in DOMAIN rows, l # m
      PROVE  KeyOf(rows[l]) # KeyOf(rows[m])
  <2>1. PICK a \in DOMAIN ss, b \in DOMAIN ss : \E c \in DOMAIN ss[a], d \in DOMAIN ss[b] :
           (a # b \/ c # d) /\ rows[l] = ss[a][c] /\ rows[m] = ss[b][d]
    BY <1>4, <1>5, <1>7, <1>9, FlattenPlaces
  <2>2. PICK c \in DOMAIN ss[a], d \in DOMAIN ss[b] :
           (a # b \/ c # d) /\ rows[l] = ss[a][c] /\ rows[m] = ss[b][d]
    BY <2>1
  <2>3. /\ a \in 1..n /\ b \in 1..n /\ c \in DOMAIN sp.metrics /\ d \in DOMAIN sp.metrics
        /\ rows[l].metric = sp.metrics[c] /\ rows[l].trial = a - 1
        /\ rows[m].metric = sp.metrics[d] /\ rows[m].trial = b - 1
    BY <1>2, <1>3, <2>2
  <2>4. c # d => sp.metrics[c] # sp.metrics[d]
    BY <2>3, MetricsApart
  <2>5. a # b => a - 1 # b - 1
    BY <2>3
  <2>6. rows[l].metric # rows[m].metric \/ rows[l].trial # rows[m].trial
    BY <2>2, <2>3, <2>4, <2>5
  <2> QED BY <2>6 DEF KeyOf
<1> QED BY <1>6, <1>8, <1>9

\* Nor do two configurations have a key in common, unless they have the same
\* setting: the document of a run has as many keys as rows.
LEMMA KeysApart ==
    ASSUME NEW o, NEW machine, NEW sps, IsList(sps), \A k \in DOMAIN sps : IsSpec(sps[k]),
           NEW counts, \A k \in DOMAIN sps : counts[k] \in Nat,
           NEW sample, \A k \in DOMAIN sps : \A t \in 1..counts[k] : sample[t] \in Samples,
           NEW finished,
           \A a, b \in DOMAIN sps : a # b =>
               <<sps[a].metrics[1], sps[a].threads, sps[a].ws>>
                   # <<sps[b].metrics[1], sps[b].threads, sps[b].ws>>
    PROVE  LET rows == ToJson(o, machine, sps, counts, sample, finished).results
           IN  Cardinality({KeyOf(rows[k]) : k \in DOMAIN rows}) = Len(rows)
<1> DEFINE ss == [k \in DOMAIN sps |-> RowsOf(o, machine, sps[k], counts[k], sample)]
<1>1. PICK rows : rows = ToJson(o, machine, sps, counts, sample, finished).results
  OBVIOUS
<1>2. rows = FlattenSeq(ss)
  BY <1>1 DEF ToJson
<1>3. Len(sps) \in Nat /\ DOMAIN sps = 1..Len(sps)
  BY ListFacts
<1>4. IsList(ss) /\ DOMAIN ss = DOMAIN sps
  <2>1. ss = [k \in 1..Len(sps) |-> ss[k]] /\ DOMAIN ss = DOMAIN sps
    BY <1>3
  <2> HIDE DEF ss
  <2> QED BY <1>3, <2>1, FunctionIsList
<1>5. ASSUME NEW k \in DOMAIN sps
      PROVE  /\ IsList(ss[k])
             /\ \A l \in DOMAIN ss[k] :
                   /\ \E q \in DOMAIN sps[k].metrics : ss[k][l].metric = sps[k].metrics[q]
                   /\ ss[k][l].thread_count = sps[k].threads /\ ss[k][l].working_set_bytes = sps[k].ws
             /\ \A l, m \in DOMAIN ss[k] : l # m => KeyOf(ss[k][l]) # KeyOf(ss[k][m])
  <2>1. ss[k] = RowsOf(o, machine, sps[k], counts[k], sample)
    OBVIOUS
  <2> HIDE DEF ss
  <2>2. IsList(ss[k])
    BY <2>1, RowsOfFacts
  <2> QED BY <2>1, <2>2, RowsOfApart
<1> HIDE DEF ss
<1>6. IsList(rows)
  BY <1>2, <1>4, <1>5, FlattenElements
<1>7. ASSUME NEW l \in DOMAIN rows, NEW m \in DOMAIN rows, l # m
      PROVE  KeyOf(rows[l]) # KeyOf(rows[m])
  <2>1. PICK a \in DOMAIN ss, b \in DOMAIN ss : \E c \in DOMAIN ss[a], d \in DOMAIN ss[b] :
           (a # b \/ c # d) /\ rows[l] = ss[a][c] /\ rows[m] = ss[b][d]
    BY <1>2, <1>4, <1>5, <1>7, FlattenPlaces
  <2>2. PICK c \in DOMAIN ss[a], d \in DOMAIN ss[b] :
           (a # b \/ c # d) /\ rows[l] = ss[a][c] /\ rows[m] = ss[b][d]
    BY <2>1
  <2>3. CASE a = b
    BY <1>4, <1>5, <2>2, <2>3
  <2>4. CASE a # b
    <3>1. PICK p \in DOMAIN sps[a].metrics : rows[l].metric = sps[a].metrics[p]
      BY <1>4, <1>5, <2>2
    <3>2. PICK q \in DOMAIN sps[b].metrics : rows[m].metric = sps[b].metrics[q]
      BY <1>4, <1>5, <2>2
    <3>3. /\ rows[l].thread_count = sps[a].threads /\ rows[l].working_set_bytes = sps[a].ws
          /\ rows[m].thread_count = sps[b].threads /\ rows[m].working_set_bytes = sps[b].ws
      BY <1>4, <1>5, <2>2
    <3>4. IsSpec(sps[a]) /\ IsSpec(sps[b]) /\ a \in DOMAIN sps /\ b \in DOMAIN sps
      BY <1>4
    <3>5. ASSUME rows[l].metric = rows[m].metric PROVE sps[a].metrics[1] = sps[b].metrics[1]
      <4>1. sps[a].metrics[p] = sps[b].metrics[q]
        BY <3>1, <3>2, <3>5
      <4>2. PICK sp, sq : sp = sps[a] /\ sq = sps[b]
        OBVIOUS
      <4>3. sp.metrics[1] = sq.metrics[1]
        BY <3>4, <4>1, <4>2, MetricsApart
      <4> QED BY <4>2, <4>3
    <3>6. <<sps[a].metrics[1], sps[a].threads, sps[a].ws>>
              # <<sps[b].metrics[1], sps[b].threads, sps[b].ws>>
      BY <2>4, <3>4
    <3>7. \/ rows[l].metric # rows[m].metric
          \/ rows[l].thread_count # rows[m].thread_count
          \/ rows[l].working_set_bytes # rows[m].working_set_bytes
      BY <3>3, <3>5, <3>6
    <3> QED BY <3>7 DEF KeyOf
  <2> QED BY <2>3, <2>4
<1>8. Len(rows) \in Nat /\ DOMAIN rows = 1..Len(rows)
  BY <1>6, ListFacts
<1> DEFINE keys == {KeyOf(rows[k]) : k \in DOMAIN rows}
           f == [k \in 1..Len(rows) |-> KeyOf(rows[k])]
<1>9. f \in Bijection(1..Len(rows), keys)
  <2>1. f \in [1..Len(rows) -> keys] /\ \A k \in 1..Len(rows) : f[k] = KeyOf(rows[k])
    BY <1>8
  <2>2. \A x \in keys : \E k \in 1..Len(rows) : f[k] = x
    BY <1>8
  <2>3. \A k, m \in 1..Len(rows) : f[k] = f[m] => k = m
    BY <1>7, <1>8, <2>1
  <2> HIDE DEF f, keys
  <2>4. f \in Surjection(1..Len(rows), keys)
    BY <2>1, <2>2 DEF Surjection
  <2>5. f \in Injection(1..Len(rows), keys)
    BY <2>1, <2>3 DEF Injection, IsInjective
  <2> QED BY <2>4, <2>5 DEF Bijection
<1>10. IsFiniteSet(1..Len(rows)) /\ Cardinality(1..Len(rows)) = Len(rows)
  <2>1. 1 \in Int /\ Len(rows) \in Int
    BY <1>8
  <2>2. Cardinality(1..Len(rows)) = IF 1 > Len(rows) THEN 0 ELSE Len(rows) - 1 + 1
    BY <2>1, FS_Interval
  <2>3. IsFiniteSet(1..Len(rows))
    BY <2>1, FS_Interval
  <2> QED BY <1>8, <2>2, <2>3
<1>11. ExistsBijection(1..Len(rows), keys)
  BY <1>9 DEF ExistsBijection
<1> HIDE DEF keys, f
<1>12. Cardinality(keys) = Len(rows)
  BY <1>10, <1>11, FS_Bijection
<1> QED BY <1>1, <1>12 DEF keys

-----------------------------------------------------------------------------
(* The documents of the engine. *)

JsonKeys == {"argv", "finished_at", "machine", "results", "run_id", "schema_version", "started_at",
             "summary"}

\* A document of the engine, whole or a chunk.
IsDocument(j) ==
    /\ JsonKeys \ {"summary"} \subseteq DOMAIN j /\ DOMAIN j \subseteq JsonKeys
    /\ j.schema_version = 1 /\ j.run_id = "uuid"
    /\ j.started_at = StartTime /\ j.finished_at \in Clocks
    /\ DecodesMachine(j.machine)
    /\ IsList(j.results) /\ \A l \in DOMAIN j.results : IsRow(j.results[l])
    /\ "summary" \in DOMAIN j => DecodesSummary(j.summary)

\* However many trials were made, no configuration has more than it was to have.
LEMMA CountsFacts ==
    ASSUME NEW o \in OptionSets, ~OutOfRange(o), NEW sps, NEW counts \in TrialCounts(o, sps)
    PROVE  o.trials \in Nat /\ \A k \in DOMAIN sps : counts[k] \in 0..o.trials
<1>1. o.trials \in Nat /\ o.trials >= 1
  BY OptionsAssumption DEF OutOfRange
<1>2. CASE o.interleave
  BY <1>1, <1>2 DEF TrialCounts
<1>3. CASE ~o.interleave
  <2>1. PICK done \in 0..Len(sps), part \in 0..(o.trials - 1) :
           counts = [k \in DOMAIN sps |->
                       IF k <= done THEN o.trials ELSE IF k = done + 1 THEN part ELSE 0]
    BY <1>3 DEF TrialCounts
  <2>2. part \in 0..o.trials
    BY <1>1
  <2> QED BY <1>1, <2>1, <2>2
<1> QED BY <1>1, <1>2, <1>3

\* What run_benchmarks() returns is such a document.
LEMMA JsonFacts ==
    ASSUME NEW o \in OptionSets, ~Refused(o), ~OutOfRange(o), NEW machine, DecodesMachine(machine),
           NEW counts \in TrialCounts(o, Specs(o)), NEW sample \in [1..o.trials -> Samples],
           NEW finished \in Clocks
    PROVE  IsDocument(ToJson(o, machine, Specs(o), counts, sample, finished))
<1> DEFINE sps == Specs(o)
           rows == [k \in DOMAIN sps |-> RowsOf(o, machine, sps[k], counts[k], sample)]
           sums == [k \in DOMAIN sps |-> SummariesOf(sps[k], counts[k], sample)]
           j == ToJson(o, machine, sps, counts, sample, finished)
<1>1. IsList(sps) /\ \A k \in DOMAIN sps : IsSpec(sps[k])
  BY SpecsFacts
<1>2. o.trials \in Nat /\ \A k \in DOMAIN sps : counts[k] \in 0..o.trials
  BY CountsFacts
<1> HIDE DEF sps
<1>3. Len(sps) \in Nat /\ DOMAIN sps = 1..Len(sps)
  BY <1>1, ListFacts
<1>4. /\ DOMAIN j = JsonKeys /\ j.results = FlattenSeq(rows) /\ j.summary = FlattenSeq(sums)
      /\ j.schema_version = 1 /\ j.run_id = "uuid" /\ j.started_at = StartTime
      /\ j.finished_at = finished /\ j.machine = machine
  BY DEF ToJson, JsonKeys
<1>5. ASSUME NEW k \in DOMAIN sps
      PROVE  /\ IsList(rows[k]) /\ \A l \in DOMAIN rows[k] : IsRow(rows[k][l])
             /\ IsList(sums[k]) /\ \A l \in DOMAIN sums[k] : DOMAIN sums[k][l] \subseteq SummaryFields
  <2>1. counts[k] \in Nat /\ \A t \in 1..counts[k] : sample[t] \in Samples
    BY <1>2
  <2>2. rows[k] = RowsOf(o, machine, sps[k], counts[k], sample)
        /\ sums[k] = SummariesOf(sps[k], counts[k], sample)
    OBVIOUS
  <2> HIDE DEF rows, sums
  <2>3. IsSpec(sps[k])
    BY <1>1
  <2>4. IsList(rows[k]) /\ \A l \in DOMAIN rows[k] : IsRow(rows[k][l])
    BY <2>1, <2>2, <2>3, RowsOfFacts
  <2>5. IsList(sums[k]) /\ \A l \in DOMAIN sums[k] : DOMAIN sums[k][l] \subseteq SummaryFields
    BY <2>1, <2>2, <2>3, SummariesOfFacts
  <2> QED BY <2>4, <2>5
<1>6. DOMAIN rows = DOMAIN sps /\ IsList(rows) /\ DOMAIN sums = DOMAIN sps /\ IsList(sums)
  <2>1. /\ DOMAIN rows = DOMAIN sps /\ rows = [k \in 1..Len(sps) |-> rows[k]]
        /\ DOMAIN sums = DOMAIN sps /\ sums = [k \in 1..Len(sps) |-> sums[k]]
    BY <1>3
  <2> HIDE DEF rows, sums
  <2> QED BY <1>3, <2>1, FunctionIsList
<1> HIDE DEF rows, sums
<1>7. IsList(FlattenSeq(rows)) /\ \A l \in DOMAIN FlattenSeq(rows) : IsRow(FlattenSeq(rows)[l])
  <2>1. /\ IsList(FlattenSeq(rows))
        /\ \A l \in DOMAIN FlattenSeq(rows) : \E k \in DOMAIN rows : \E i1 \in DOMAIN rows[k] :
               FlattenSeq(rows)[l] = rows[k][i1]
    BY <1>5, <1>6, FlattenElements
  <2> QED BY <1>5, <1>6, <2>1
<1>8. DecodesSummary(FlattenSeq(sums))
  <2>1. \A l \in DOMAIN FlattenSeq(sums) : \E k \in DOMAIN sums : \E i1 \in DOMAIN sums[k] :
           FlattenSeq(sums)[l] = sums[k][i1]
    BY <1>5, <1>6, FlattenElements
  <2> QED BY <1>5, <1>6, <2>1 DEF DecodesSummary
<1> HIDE DEF j
<1>9. IsDocument(j)
  BY <1>4, <1>7, <1>8 DEF IsDocument
<1> QED BY <1>9 DEF j, sps

\* dump() may cost a row its value and nothing else.
LEMMA DumpedFacts ==
    ASSUME NEW j, IsDocument(j), "summary" \in DOMAIN j
    PROVE  /\ IsDocument(Dumped(j)) /\ DOMAIN Dumped(j) = DOMAIN j
           /\ \A f \in DOMAIN j : f # "results" => Dumped(j)[f] = j[f]
           /\ Len(Dumped(j).results) = Len(j.results)
<1> DEFINE d == Dumped(j)
           rows == [k \in DOMAIN j.results |->
                      IF j.results[k].value = NotFinite
                      THEN [f \in DOMAIN j.results[k] \ {"value"} |-> j.results[k][f]]
                      ELSE j.results[k]]
<1>1. "results" \in DOMAIN j
  BY DEF IsDocument, JsonKeys
<1>2. /\ DOMAIN d = DOMAIN j /\ \A f \in DOMAIN j : f # "results" => d[f] = j[f]
      /\ d.results = rows
  BY <1>1 DEF Dumped
<1>3. IsList(j.results) /\ Len(j.results) \in Nat /\ DOMAIN j.results = 1..Len(j.results)
  BY ListFacts DEF IsDocument
<1>4. IsList(rows) /\ Len(rows) = Len(j.results) /\ DOMAIN rows = DOMAIN j.results
  <2>1. rows = [k \in 1..Len(j.results) |-> rows[k]] /\ DOMAIN rows = DOMAIN j.results
    BY <1>3
  <2> HIDE DEF rows
  <2> QED BY <1>3, <2>1, FunctionIsList
<1>5. ASSUME NEW k \in DOMAIN j.results PROVE IsRow(rows[k])
  <2>1. PICK r : r = j.results[k]
    OBVIOUS
  <2>2. IsRow(r)
    BY <2>1 DEF IsDocument
  <2>3. rows[k] = r \/ rows[k] = [f \in DOMAIN r \ {"value"} |-> r[f]]
    BY <2>1
  <2> HIDE DEF rows
  <2>4. IsRow([f \in DOMAIN r \ {"value"} |-> r[f]])
    <3>1. PICK q : q = [f \in DOMAIN r \ {"value"} |-> r[f]]
      OBVIOUS
    <3>2. DOMAIN q = DOMAIN r \ {"value"} /\ \A f \in DOMAIN r : f # "value" => q[f] = r[f]
      BY <3>1
    <3>3. \A f \in RowFields \ {"value"} : q[f] = r[f]
      BY <2>2, <3>2 DEF IsRow
    <3>4. /\ q.metric = r.metric /\ q.workload = r.workload /\ q.unit = r.unit
          /\ q.thread_count = r.thread_count /\ q.working_set_bytes = r.working_set_bytes
          /\ q.trial = r.trial /\ q.duration_ns = r.duration_ns /\ q.timestamp = r.timestamp
      BY <3>3 DEF RowFields
    <3>5. IsRow(q)
      BY <2>2, <3>2, <3>4 DEF IsRow
    <3> QED BY <3>1, <3>5
  <2> QED BY <2>2, <2>3, <2>4
<1> HIDE DEF d, rows
<1>6. IsDocument(d)
  <2>1. /\ d.schema_version = j.schema_version /\ d.run_id = j.run_id
        /\ d.started_at = j.started_at /\ d.finished_at = j.finished_at
        /\ d.machine = j.machine /\ d.summary = j.summary
    BY <1>2 DEF IsDocument, JsonKeys
  <2> QED BY <1>2, <1>4, <1>5, <2>1 DEF IsDocument
<1> QED BY <1>2, <1>4, <1>6 DEF d

\* Of a whole quotient, every smaller number fits once more.
LEMMA FitsOnceMore ==
    ASSUME NEW a \in Nat, NEW b \in Nat \ {0}, NEW c \in Nat, c < a \div b
    PROVE  (c + 1) * b <= a
<1>1. PICK q \in Nat : q = a \div b /\ q * b <= a
  <2>1. a \div b \in Nat /\ b * (a \div b) + (a % b) = a /\ (a % b) \in Nat
    OBVIOUS
  <2> QED BY <2>1
<1>2. c + 1 <= q
  BY <1>1
<1>3. PICK e \in Nat : q = (c + 1) + e
  <2>1. q - (c + 1) \in Nat
    BY <1>2
  <2> QED BY <2>1
<1>4. q * b = (c + 1) * b + e * b /\ e * b >= 0 /\ (c + 1) * b \in Nat
  BY <1>3
<1> QED BY <1>1, <1>4

\* post_envelope() sends documents, none of them empty unless the run is.
LEMMA PartFacts ==
    ASSUME IsDocument(run), "summary" \in DOMAIN run, opts.chunk \in Nat, NEW c \in Nat, c < ChunkCount
    PROVE  /\ IsDocument(Part(c))
           /\ Part(c).machine = run.machine /\ Part(c).finished_at = run.finished_at
           /\ run.results # <<>> => Len(Part(c).results) \in Nat \ {0}
<1>1. PICK j : j = Dumped(run)
  OBVIOUS
<1>2. /\ IsDocument(j) /\ DOMAIN j = DOMAIN run /\ Len(j.results) = Len(run.results)
      /\ j.machine = run.machine /\ j.finished_at = run.finished_at
  <2>1. {"machine", "finished_at"} \subseteq DOMAIN run
    BY DEF IsDocument, JsonKeys
  <2> QED BY <1>1, <2>1, DumpedFacts
<1>3. /\ IsList(j.results) /\ Len(j.results) \in Nat /\ DOMAIN j.results = 1..Len(j.results)
      /\ IsList(run.results) /\ Len(run.results) \in Nat
      /\ run.results # <<>> => Len(run.results) # 0
  <2>1. IsList(j.results) /\ IsList(run.results)
    BY <1>2 DEF IsDocument
  <2>2. run.results = [k \in 1..Len(run.results) |-> run.results[k]] /\ Len(run.results) \in Nat
    BY <2>1, ListFacts
  <2>3. Len(run.results) = 0 => run.results = <<>>
    BY <2>2
  <2> QED BY <2>1, <2>2, <2>3, ListFacts
<1>4. CASE ChunkCount = 1
  <2>1. Part(c) = j
    BY <1>1, <1>4 DEF Part
  <2> QED BY <1>2, <1>3, <2>1
<1>5. CASE ChunkCount # 1
  <2>1. run.results # <<>> /\ ChunkSize \in Nat \ {0}
        /\ ChunkCount = (Len(run.results) + ChunkSize - 1) \div ChunkSize
    BY <1>3, <1>5 DEF ChunkCount, ChunkSize
  <2>2. PICK n \in Nat : n = Len(run.results)
    BY <1>3
  <2>3. PICK z \in Nat \ {0} : z = ChunkSize
    BY <2>1
  <2>4. (c + 1) * z <= n + z - 1
    <3>1. n + z - 1 \in Nat
      OBVIOUS
    <3>2. ChunkCount = (n + z - 1) \div z
      BY <2>1, <2>2, <2>3, Zenon
    <3>3. c < (n + z - 1) \div z
      BY <3>2, Zenon
    <3> QED BY <3>1, <3>3, FitsOnceMore
  <2>5. PICK a \in Nat : a = c * z /\ (c + 1) * z = a + z
    <3>1. c * z \in Nat /\ (c + 1) * z = c * z + z
      OBVIOUS
    <3> QED BY <3>1
  <2>6. a < n
    BY <2>4, <2>5
  <2>7. PICK e \in Nat : e = LeastOf((c + 1) * z, n) /\ a < e /\ e <= n
    <3>1. LeastOf(a + z, n) \in Nat /\ a < LeastOf(a + z, n) /\ LeastOf(a + z, n) <= n
      BY <2>6 DEF LeastOf
    <3> QED BY <2>5, <3>1
  <2>8. PICK share : share = SubSeq(j.results, a + 1, e)
    OBVIOUS
  <2>9. /\ IsList(share) /\ Len(share) = e - a
        /\ \A l \in DOMAIN share : IsRow(share[l])
    <3>1. share = [l \in 1..(e - a) |-> j.results[a + l]]
      BY <1>2, <1>3, <2>2, <2>7, <2>8 DEF IsList
    <3>2. e - a \in Nat
      BY <2>7
    <3>3. share = [l \in 1..(e - a) |-> share[l]]
      BY <3>1
    <3>4. IsList(share) /\ Len(share) = e - a
      BY <3>2, <3>3, FunctionIsList
    <3>5. \A l \in 1..(e - a) : a + l \in DOMAIN j.results
      BY <1>2, <1>3, <2>2, <2>7
    <3> QED BY <1>2, <3>1, <3>4, <3>5 DEF IsDocument
  <2>10. Part(c) = IF c = 0 THEN [j EXCEPT !.results = share]
                   ELSE [f \in DOMAIN j \ {"summary"} |-> IF f = "results" THEN share ELSE j[f]]
    <3>1. share = SubSeq(Dumped(run).results, c * ChunkSize + 1,
                         LeastOf((c + 1) * ChunkSize, Len(Dumped(run).results)))
      BY <1>1, <1>2, <2>2, <2>3, <2>5, <2>7, <2>8
    <3> QED BY <1>1, <1>5, <3>1, Zenon DEF Part
  <2>11. PICK p : p = Part(c)
    OBVIOUS
  <2>12. /\ DOMAIN p \subseteq DOMAIN j /\ DOMAIN j \ {"summary"} \subseteq DOMAIN p
         /\ \A f \in DOMAIN p : f # "results" => p[f] = j[f]
         /\ p.results = share
    <3>1. "results" \in DOMAIN j
      BY <1>2 DEF IsDocument, JsonKeys
    <3>2. CASE c = 0
      BY <2>10, <2>11, <3>1, <3>2
    <3>3. CASE c # 0
      BY <2>10, <2>11, <3>1, <3>3
    <3> QED BY <3>2, <3>3
  <2>13. JsonKeys \ {"summary"} \subseteq DOMAIN p /\ DOMAIN p \subseteq JsonKeys
    BY <1>2, <2>12 DEF IsDocument
  <2>14. /\ p.schema_version = j.schema_version /\ p.run_id = j.run_id
         /\ p.started_at = j.started_at /\ p.finished_at = j.finished_at /\ p.machine = j.machine
    BY <2>12, <2>13 DEF JsonKeys
  <2>15. IsDocument(p)
    BY <1>2, <2>9, <2>12, <2>13, <2>14 DEF IsDocument
  <2> QED BY <1>2, <2>7, <2>9, <2>11, <2>12, <2>14, <2>15
<1> QED BY <1>4, <1>5

\* The eight keys, in their order.
LEMMA KeysFacts ==
    /\ DOMAIN SortedKeys = 1..8 /\ Front(SortedKeys) = [k \in 1..7 |-> SortedKeys[k]]
    /\ \A k \in 1..8 : SortedKeys[k] \in JsonKeys /\ (SortedKeys[k] = "summary" <=> k = 8)
    /\ \A k, l \in 1..8 : SortedKeys[k] = SortedKeys[l] => k = l
    /\ \A f \in JsonKeys : \E k \in 1..8 : SortedKeys[k] = f
<1>1. /\ SortedKeys[1] = "argv" /\ SortedKeys[2] = "finished_at" /\ SortedKeys[3] = "machine"
      /\ SortedKeys[4] = "results" /\ SortedKeys[5] = "run_id" /\ SortedKeys[6] = "schema_version"
      /\ SortedKeys[7] = "started_at" /\ SortedKeys[8] = "summary"
  BY DEF SortedKeys
<1>2. \A k \in 1..8 : k \in {1, 2, 3, 4, 5, 6, 7, 8}
  OBVIOUS
<1>3. DOMAIN SortedKeys = 1..8 /\ Len(SortedKeys) = 8
  BY DEF SortedKeys
<1>4. Front(SortedKeys) = [k \in 1..7 |-> SortedKeys[k]]
  <2>1. IsList(SortedKeys)
    <3>1. SortedKeys = [k \in 1..8 |-> SortedKeys[k]]
      BY DEF SortedKeys
    <3> QED BY <3>1, FunctionIsList
  <2>2. SubSeq(SortedKeys, 1, 7) = [k \in 1..7 |-> SortedKeys[k]]
    BY <1>3, <2>1 DEF IsList
  <2> QED BY <1>3, <2>2 DEF Front
<1>5. \A k \in 1..8 : SortedKeys[k] \in JsonKeys /\ (SortedKeys[k] = "summary" <=> k = 8)
  BY <1>1, <1>2 DEF JsonKeys
<1>6. \A k, l \in 1..8 : SortedKeys[k] = SortedKeys[l] => k = l
  BY <1>1, <1>2
<1>7. \A f \in JsonKeys : \E k \in 1..8 : SortedKeys[k] = f
  <2>1. ASSUME NEW f \in JsonKeys PROVE \E k \in {1, 2, 3, 4, 5, 6, 7, 8} : SortedKeys[k] = f
    BY <1>1, <2>1 DEF JsonKeys
  <2>2. {1, 2, 3, 4, 5, 6, 7, 8} \subseteq 1..8
    OBVIOUS
  <2> QED BY <2>1, <2>2
<1> QED BY <1>3, <1>4, <1>5, <1>6, <1>7

\* A document of the engine as the decoder sees it.
LEMMA MembersFacts ==
    ASSUME NEW j, IsDocument(j)
    PROVE  LET d == Members(j, SentKeys(j)) IN
             /\ WellFormed(d)
             /\ \A k \in DOMAIN d : d[k].ok /\ d[k].key \in DOMAIN j /\ d[k].val = j[d[k].key]
             /\ \A f \in DOMAIN j : \E k \in DOMAIN d : d[k].key = f
<1> DEFINE keys == SentKeys(j)
           d == Members(j, keys)
<1>1. PICK n \in {7, 8} : /\ DOMAIN keys = 1..n /\ \A k \in 1..n : keys[k] = SortedKeys[k]
                          /\ n = 8 <=> "summary" \in DOMAIN j
  <2>1. CASE "summary" \in DOMAIN j
    BY <2>1, KeysFacts DEF SentKeys
  <2>2. CASE "summary" \notin DOMAIN j
    BY <2>2, KeysFacts DEF SentKeys
  <2> QED BY <2>1, <2>2
<1>2. n \in Nat /\ 1..n \subseteq 1..8
  OBVIOUS
<1>3. \A k, l \in 1..n : keys[k] = keys[l] => k = l
  BY <1>1, <1>2, KeysFacts
<1>4. \A k \in 1..n : keys[k] \in DOMAIN j
  <2>1. ASSUME NEW k \in 1..n PROVE SortedKeys[k] \in DOMAIN j
    <3>1. k \in 1..8 /\ SortedKeys[k] \in JsonKeys /\ (SortedKeys[k] = "summary" <=> k = 8)
      BY <1>2, KeysFacts
    <3>2. k = 8 => n = 8
      OBVIOUS
    <3> QED BY <1>1, <3>1, <3>2 DEF IsDocument
  <2> QED BY <1>1, <2>1
<1>5. \A f \in DOMAIN j : \E k \in 1..n : keys[k] = f
  <2> SUFFICES ASSUME NEW f \in DOMAIN j PROVE \E k \in 1..n : keys[k] = f
    OBVIOUS
  <2>1. PICK k \in 1..8 : SortedKeys[k] = f
    BY KeysFacts DEF IsDocument
  <2>2. k = 8 => n = 8
    BY <1>1, <2>1, KeysFacts
  <2>3. k \in 1..n
    BY <2>2
  <2> QED BY <1>1, <2>1, <2>3
<1>6. DOMAIN d = 1..n /\ d = [k \in 1..n |-> d[k]]
      /\ \A k \in 1..n : d[k].key = keys[k] /\ d[k].ok /\ d[k].val = j[keys[k]]
  <2> HIDE DEF keys
  <2> QED BY <1>1 DEF Members
<1> HIDE DEF d, keys
<1>7. IsList(d)
  BY <1>2, <1>6, FunctionIsList
<1>8. WellFormed(d)
  <2>1. \A k, l \in DOMAIN d : d[k].key = d[l].key => k = l
    BY <1>3, <1>6
  <2>2. IsList(j.results) /\ j.started_at \in Nat /\ j.finished_at \in Nat
    BY ClockAssumption DEF IsDocument
  <2>3. \A k \in DOMAIN d : d[k].ok =>
           /\ d[k].key = "results" => IsList(d[k].val)
           /\ d[k].key \in {"started_at", "finished_at"} => d[k].val \in Nat
    BY <1>6, <2>2
  <2> HIDE DEF IsList
  <2> QED BY <1>7, <2>1, <2>3, Zenon DEF WellFormed
<1> QED BY <1>4, <1>5, <1>6, <1>8 DEF d, keys

\* The two registries agree, and so do the rules for rows.
LEMMA RowsAreValid ==
    ASSUME NEW r, IsRow(r)
    PROVE  DecodesResult(r) /\ ValidResult(Decoded(r, ResultTexts, ResultNumbers))
<1>1. ResultTexts \cup ResultNumbers = RowFields
  BY DEF ResultTexts, ResultNumbers, RowFields
<1>2. DecodesResult(r)
  BY <1>1 DEF IsRow, DecodesResult
<1>3. PICK q : q = Decoded(r, ResultTexts, ResultNumbers)
  OBVIOUS
<1>4. \A f \in RowFields \ {"value"} : q[f] = r[f]
  BY <1>1, <1>3 DEF Decoded, IsRow
<1>5. /\ q.metric = r.metric /\ q.workload = r.workload /\ q.unit = r.unit
      /\ q.thread_count = r.thread_count /\ q.working_set_bytes = r.working_set_bytes
      /\ q.trial = r.trial /\ q.duration_ns = r.duration_ns /\ q.timestamp = r.timestamp
  BY <1>4 DEF RowFields
<1>6. ASSUME NEW m \in Hosts \cup Riders
      PROVE  /\ m \in ApiMetrics /\ ApiWorkloadOf[m] = WorkloadOf(m) /\ ApiUnitOf[m] = UnitOf(m)
             /\ WorkloadOf(m) \in ApiWorkloads
  <2>1. m \in {"cpu_int_ops", "cpu_fp_ops", "cpu_hash_ops", "mem_read_bw", "mem_write_bw",
                "mem_copy_bw", "mem_latency", "disk_seq_read_bw", "disk_seq_write_bw",
                "disk_rand_read_iops", "disk_rand_write_iops", "disk_rand_read_p99_us"}
    BY DEF Hosts, Riders, CpuMetrics, MemBwMetrics, DiskSeqMetrics, IopsMetrics
  <2>2. m \in ApiMetrics
    BY <2>1 DEF ApiMetrics, CpuMetrics, MemBwMetrics, DiskSeqMetrics, IopsMetrics
  <2>3. ApiWorkloadOf[m] = WorkloadOf(m) /\ WorkloadOf(m) \in ApiWorkloads
    BY <2>1, <2>2 DEF ApiWorkloadOf, WorkloadOf, ApiWorkloads, CpuMetrics, MemBwMetrics,
                      DiskSeqMetrics, IopsMetrics
  <2>4. ApiUnitOf[m] = UnitOf(m)
    BY <2>1, <2>2 DEF ApiUnitOf, UnitOf, CpuMetrics, MemBwMetrics, DiskSeqMetrics, IopsMetrics
  <2> QED BY <2>2, <2>3, <2>4
<1>7. ValidResult(q)
  <2>1. r.metric \in Hosts \cup Riders /\ r.workload = WorkloadOf(r.metric)
        /\ r.unit = UnitOf(r.metric)
    BY DEF IsRow
  <2>2. r.thread_count >= 1 /\ r.working_set_bytes >= 0 /\ r.trial >= 0 /\ r.duration_ns >= 1
        /\ ParsesTimestamp(r.timestamp)
    BY ClockAssumption DEF IsRow, ParsesTimestamp
  <2> QED BY <1>5, <1>6, <2>1, <2>2 DEF ValidResult
<1> QED BY <1>2, <1>3, <1>7

-----------------------------------------------------------------------------
(* The machine block. *)

\* Finitely many natural numbers have an upper bound.
LEMMA FiniteNumbers ==
    ASSUME NEW n \in Nat, NEW f, DOMAIN f = 1..n, \A k \in 1..n : f[k] \in Nat
    PROVE  \E b \in Nat : \A k \in 1..n : f[k] <= b
<1> DEFINE Bounded(m) == \E b \in Nat : \A k \in 1..m : f[k] <= b
           Bad == {m \in 0..n : ~Bounded(m)}
<1>1. SUFFICES ASSUME Bad # {} PROVE FALSE
  <2>1. n \in 0..n
    OBVIOUS
  <2> QED BY <1>1, <2>1
<1>2. Bad \subseteq Nat
  OBVIOUS
<1>3. PICK m \in Bad : \A l \in Bad : m <= l
  <2> HIDE DEF Bad
  <2> QED BY <1>1, <1>2, LeastOfNats
<1>4. m \in 0..n /\ ~Bounded(m)
  OBVIOUS
<1>5. Bounded(0)
  <2>1. \A k \in 1..0 : f[k] <= 0
    OBVIOUS
  <2> QED BY <2>1
<1>6. m - 1 \in 0..n /\ m - 1 \notin Bad
  <2> HIDE DEF Bounded
  <2>1. m # 0
    BY <1>4, <1>5
  <2>2. m - 1 \in 0..n /\ ~(m <= m - 1)
    BY <1>4, <2>1
  <2> HIDE DEF Bad
  <2> QED BY <1>3, <2>2
<1>7. PICK b \in Nat : \A k \in 1..(m - 1) : f[k] <= b
  BY <1>6
<1>8. f[m] \in Nat
  BY <1>4, <1>6
<1>9. \A k \in 1..m : f[k] \in Nat /\ f[k] <= b + f[m]
  <2>1. ASSUME NEW k \in 1..m PROVE f[k] \in Nat /\ f[k] <= b + f[m]
    <3>1. f[k] \in Nat
      BY <1>4
    <3>2. k = m \/ k \in 1..(m - 1)
      BY <1>4
    <3> QED BY <1>7, <1>8, <3>1, <3>2
  <2> QED BY <2>1
<1>10. b + f[m] \in Nat
  BY <1>8
<1> QED BY <1>4, <1>9, <1>10

\* CacheSize() is the size of a cache or 0.
LEMMA CacheSizeType ==
    ASSUME NEW caches, IsFiniteSet(caches), \A c \in caches : c.kb \in Nat
    PROVE  CacheSize(caches) \in Nat
<1> DEFINE sizes == {c.kb : c \in caches} \cup {0}
<1>1. sizes \subseteq Nat /\ 0 \in sizes
  OBVIOUS
<1>a. PICK n \in Nat : ExistsBijection(1..n, caches)
  <2>1. Cardinality(caches) \in Nat /\ ExistsBijection(1..Cardinality(caches), caches)
    BY FS_CardinalityType
  <2> QED BY <2>1
<1>2. PICK g \in [1..n -> caches] : \A c \in caches : \E k \in 1..n : g[k] = c
  BY <1>a DEF ExistsBijection, Bijection, Surjection
<1>3. PICK b \in Nat : \A x \in sizes : x <= b
  <2> DEFINE f == [k \in 1..n |-> g[k].kb]
  <2>1. DOMAIN f = 1..n /\ \A k \in 1..n : f[k] = g[k].kb /\ f[k] \in Nat
    BY <1>2
  <2> HIDE DEF f
  <2>2. PICK b \in Nat : \A k \in 1..n : f[k] <= b
    BY <2>1, FiniteNumbers
  <2>3. ASSUME NEW x \in sizes PROVE x <= b
    <3>1. CASE x = 0
      BY <3>1
    <3>2. CASE x # 0
      <4>1. PICK c \in caches : x = c.kb
        BY <3>2
      <4>2. PICK k \in 1..n : g[k] = c
        BY <1>2
      <4> QED BY <2>1, <2>2, <4>1, <4>2
    <3> QED BY <3>1, <3>2
  <2> QED BY <2>3
<1> DEFINE bounds == {m \in Nat : \A x \in sizes : x <= m}
<1>4. PICK m \in bounds : \A l \in bounds : m <= l
  <2>1. bounds \subseteq Nat /\ bounds # {}
    BY <1>3
  <2> HIDE DEF bounds
  <2> QED BY <2>1, LeastOfNats
<1>5. m \in Nat /\ \A x \in sizes : x <= m
  OBVIOUS
<1>6. m \in sizes
  <2>1. SUFFICES ASSUME m \notin sizes PROVE FALSE
    OBVIOUS
  <2>2. m # 0
    BY <1>1, <2>1
  <2> HIDE DEF sizes
  <2>3. \A x \in sizes : x \in Nat /\ x # m /\ x <= m
    BY <1>1, <1>5, <2>1
  <2>4. m - 1 \in Nat /\ \A x \in sizes : x <= m - 1
    BY <1>5, <2>2, <2>3
  <2>5. m - 1 \in bounds
    BY <2>4
  <2> QED BY <1>4, <1>5, <2>5
<1>7. CacheSize(caches) = CHOOSE kb \in sizes : \A other \in sizes : other <= kb
  BY DEF CacheSize
<1> HIDE DEF sizes
<1>8. CacheSize(caches) \in sizes
  BY <1>5, <1>6, <1>7
<1> QED BY <1>1, <1>8

\* A machine with a processor has a core.
LEMMA CoresCounted ==
    ASSUME NEW blocks, IsList(blocks), blocks # <<>>
    PROVE  Len(blocks) \in Nat \ {0} /\ PhysicalCores(blocks) \in Nat \ {0}
<1>1. /\ Len(blocks) \in Nat /\ DOMAIN blocks = 1..Len(blocks)
      /\ blocks = [k \in 1..Len(blocks) |-> blocks[k]]
  BY ListFacts
<1>2. Len(blocks) # 0
  BY <1>1
<1> DEFINE cores == {<<b.package, b.core>> : b \in {c \in ToSet(blocks) : c.core >= 0}}
<1>3. CASE cores = {}
  BY <1>1, <1>2, <1>3 DEF PhysicalCores
<1>4. CASE cores # {}
  <2> DEFINE K == {k \in 1..Len(blocks) : blocks[k].core >= 0}
             f == [k \in K |-> <<blocks[k].package, blocks[k].core>>]
  <2>1. IsFiniteSet(K)
    <3>1. IsFiniteSet(1..Len(blocks))
      BY <1>1, FS_Interval
    <3>2. K \in SUBSET (1..Len(blocks))
      OBVIOUS
    <3> QED BY <3>1, <3>2, FS_Subset
  <2>2. \A k \in K : f[k] \in cores
    BY <1>1 DEF ToSet
  <2>3. \A x \in cores : \E k \in K : f[k] = x
    BY <1>1 DEF ToSet
  <2>4. f \in [K -> cores]
    BY <2>2
  <2>5. PhysicalCores(blocks) = Cardinality(cores)
    BY <1>4 DEF PhysicalCores
  <2> HIDE DEF f, K, cores
  <2>6. f \in Surjection(K, cores)
    BY <2>3, <2>4 DEF Surjection
  <2>7. IsFiniteSet(cores)
    BY <2>1, <2>6, FS_Surjection
  <2>8. Cardinality(cores) \in Nat /\ Cardinality(cores) # 0
    BY <1>4, <2>7, FS_CardinalityType, FS_EmptySet
  <2> QED BY <1>1, <1>2, <2>5, <2>8
<1> QED BY <1>3, <1>4

\* What collect_machine_info() returns is a machine the API knows, and a valid
\* one unless the system has an empty name or no processor.
IsMachine(m) ==
    /\ DecodesMachine(m)
    /\ \/ ValidMachine(Decoded(m, MachineTexts, MachineNumbers))
       \/ m.os = "" \/ m.logical_cpus = 0

LEMMA MachineFacts ==
    ASSUME NEW p \in Probes
    PROVE  IsMachine(MachineInfo(p))
<1> DEFINE m == MachineInfo(p)
           size1 == CacheSize({c \in p.caches : c.level = 1 /\ c.type = "data"})
           size2 == CacheSize({c \in p.caches : c.level = 2})
           size3 == CacheSize({c \in p.caches : c.level = 3})
<1>1. /\ IsList(p.blocks) /\ p.hardware \in Nat /\ p.memory \in Nat
      /\ IsFiniteSet(p.caches) /\ \A c \in p.caches : c.kb \in Nat
  BY ProbesAssumption DEF IsList
<1>2. size1 \in Nat /\ size2 \in Nat /\ size3 \in Nat
  <2>1. ASSUME NEW S \in SUBSET p.caches PROVE CacheSize(S) \in Nat
    <3>1. IsFiniteSet(S) /\ \A c \in S : c.kb \in Nat
      BY <1>1, FS_Subset
    <3> QED BY <3>1, CacheSizeType
  <2>2. /\ {c \in p.caches : c.level = 1 /\ c.type = "data"} \in SUBSET p.caches
        /\ {c \in p.caches : c.level = 2} \in SUBSET p.caches
        /\ {c \in p.caches : c.level = 3} \in SUBSET p.caches
    OBVIOUS
  <2> QED BY <2>1, <2>2
<1> HIDE DEF size1, size2, size3
<1>3. PICK cpus : cpus = IF p.blocks = <<>> THEN p.hardware ELSE Len(p.blocks)
  OBVIOUS
<1>4. PICK cores : cores = IF p.blocks = <<>> THEN cpus ELSE PhysicalCores(p.blocks)
  OBVIOUS
<1>5. cpus \in Nat /\ cores \in Nat /\ (cpus # 0 => cores # 0)
  BY <1>1, <1>3, <1>4, CoresCounted
<1>6. /\ DOMAIN m = MachineTexts \cup MachineNumbers
      /\ m.id = "hex32" /\ m.hostname = KnownOr(p.host, "unknown")
      /\ m.cpu_model = KnownOr(p.model, "unknown") /\ m.physical_cores = cores
      /\ m.logical_cpus = cpus /\ m.l1d_kb = size1 /\ m.l2_kb = size2 /\ m.l3_kb = size3
      /\ m.memory_bytes = p.memory /\ m.kernel = KnownOr(p.kernel, "unknown")
      /\ m.compiler = "g++" /\ m.engine_version = "0.1.0" /\ m.engine_git_sha = "unknown"
  BY <1>3, <1>4 DEF MachineInfo, MachineTexts, MachineNumbers, size1, size2, size3
<1> HIDE DEF m
<1>7. \A v : KnownOr(v, "unknown") # ""
  BY DEF KnownOr
<1>8. PICK q : q = Decoded(m, MachineTexts, MachineNumbers)
  OBVIOUS
<1>9. \A f \in MachineTexts \cup MachineNumbers : q[f] = m[f]
  BY <1>6, <1>8 DEF Decoded
<1>10. /\ q.id = m.id /\ q.hostname = m.hostname /\ q.cpu_model = m.cpu_model /\ q.os = m.os
       /\ q.kernel = m.kernel /\ q.compiler = m.compiler /\ q.engine_version = m.engine_version
       /\ q.engine_git_sha = m.engine_git_sha
       /\ q.physical_cores = m.physical_cores /\ q.logical_cpus = m.logical_cpus
       /\ q.l1d_kb = m.l1d_kb /\ q.l2_kb = m.l2_kb /\ q.l3_kb = m.l3_kb
       /\ q.memory_bytes = m.memory_bytes
  BY <1>9 DEF MachineTexts, MachineNumbers
<1>11. ASSUME m.os # "", m.logical_cpus # 0 PROVE ValidMachine(q)
  <2>1. \A f \in {"hostname", "cpu_model", "os", "kernel", "compiler", "engine_version",
                  "engine_git_sha"} : q[f] # ""
    <3>1. m.hostname # "" /\ m.cpu_model # "" /\ m.kernel # ""
      BY <1>6, <1>7, Zenon
    <3>2. m.compiler # "" /\ m.engine_version # "" /\ m.engine_git_sha # ""
      BY <1>6
    <3>3. /\ q.hostname # "" /\ q.cpu_model # "" /\ q.os # "" /\ q.kernel # "" /\ q.compiler # ""
          /\ q.engine_version # "" /\ q.engine_git_sha # ""
      BY <1>10, <1>11, <3>1, <3>2, Zenon
    <3> QED BY <3>3
  <2>2. q.physical_cores >= 1 /\ q.logical_cpus >= 1
    <3>1. q.logical_cpus = cpus /\ q.physical_cores = cores /\ cpus # 0
      BY <1>6, <1>10, <1>11
    <3> QED BY <1>5, <3>1
  <2>3. q.l1d_kb >= 0 /\ q.l2_kb >= 0 /\ q.l3_kb >= 0 /\ q.memory_bytes >= 0
    BY <1>1, <1>2, <1>6, <1>10
  <2> QED BY <1>6, <1>10, <2>1, <2>2, <2>3 DEF ValidMachine
<1>12. DecodesMachine(m)
  BY <1>6 DEF DecodesMachine
<1> QED BY <1>8, <1>11, <1>12 DEF IsMachine, m

-----------------------------------------------------------------------------
(* What validate_run() says of a run of the engine. *)

\* Hosts and riders are metrics of the registry.
LEMMA MetricsKnown == Hosts \cup Riders \subseteq AllMetrics
<1>1. /\ Registry[1].metrics = <<"cpu_int_ops">> /\ Registry[2].metrics = <<"cpu_fp_ops">>
      /\ Registry[3].metrics = <<"cpu_hash_ops">>
      /\ Registry[4].metrics = <<"mem_read_bw", "mem_write_bw", "mem_copy_bw">>
      /\ Registry[5].metrics = <<"mem_latency">>
      /\ Registry[6].metrics = <<"disk_seq_read_bw", "disk_seq_write_bw">>
      /\ Registry[7].metrics
            = <<"disk_rand_read_iops", "disk_rand_write_iops", "disk_rand_read_p99_us">>
  BY DEF Registry
<1>2. DOMAIN Registry = 1..7
  BY DEF Registry
<1>3. \A k \in 1..7 : \A l \in DOMAIN Registry[k].metrics : Registry[k].metrics[l] \in AllMetrics
  BY <1>2 DEF AllMetrics, ToSet
<1> DEFINE Within(s) == \A l \in DOMAIN s : s[l] \in AllMetrics
<1>4. ASSUME NEW x, NEW y, NEW z
      PROVE  /\ Within(<<x>>) => x \in AllMetrics
             /\ Within(<<x, y>>) => x \in AllMetrics /\ y \in AllMetrics
             /\ Within(<<x, y, z>>) => x \in AllMetrics /\ y \in AllMetrics /\ z \in AllMetrics
  <2> HIDE DEF AllMetrics
  <2>1. /\ 1 \in DOMAIN <<x>> /\ <<x>>[1] = x
        /\ 1 \in DOMAIN <<x, y>> /\ 2 \in DOMAIN <<x, y>> /\ <<x, y>>[1] = x /\ <<x, y>>[2] = y
        /\ 1 \in DOMAIN <<x, y, z>> /\ 2 \in DOMAIN <<x, y, z>> /\ 3 \in DOMAIN <<x, y, z>>
        /\ <<x, y, z>>[1] = x /\ <<x, y, z>>[2] = y /\ <<x, y, z>>[3] = z
    OBVIOUS
  <2> QED BY <2>1
<1>5. /\ Within(Registry[1].metrics) /\ Within(Registry[2].metrics) /\ Within(Registry[3].metrics)
      /\ Within(Registry[4].metrics) /\ Within(Registry[5].metrics) /\ Within(Registry[6].metrics)
      /\ Within(Registry[7].metrics)
  <2>1. /\ 1 \in 1..7 /\ 2 \in 1..7 /\ 3 \in 1..7 /\ 4 \in 1..7 /\ 5 \in 1..7 /\ 6 \in 1..7
        /\ 7 \in 1..7
    OBVIOUS
  <2> QED BY <1>3, <2>1
<1> HIDE DEF Within
<1>6. /\ "cpu_int_ops" \in AllMetrics /\ "cpu_fp_ops" \in AllMetrics /\ "cpu_hash_ops" \in AllMetrics
      /\ "mem_latency" \in AllMetrics
  BY <1>1, <1>4, <1>5, Zenon
<1>7. /\ "mem_read_bw" \in AllMetrics /\ "mem_write_bw" \in AllMetrics /\ "mem_copy_bw" \in AllMetrics
  BY <1>1, <1>4, <1>5, Zenon
<1>8. "disk_seq_read_bw" \in AllMetrics /\ "disk_seq_write_bw" \in AllMetrics
  BY <1>1, <1>4, <1>5, Zenon
<1>9. /\ "disk_rand_read_iops" \in AllMetrics /\ "disk_rand_write_iops" \in AllMetrics
      /\ "disk_rand_read_p99_us" \in AllMetrics
  BY <1>1, <1>4, <1>5, Zenon
<1> QED BY <1>6, <1>7, <1>8, <1>9 DEF Hosts, Riders, CpuMetrics, MemBwMetrics, DiskSeqMetrics, IopsMetrics

\* The value of a trial is finite, also where nothing was done or no time passed.
LEMMA ValueNat ==
    ASSUME NEW m, NEW units \in Nat, NEW ns \in Nat, NEW threads \in Nat, NEW p99 \in Nat
    PROVE  ValueOf(m, units, ns, threads, p99) \in Nat
<1>1. ASSUME NEW a \in Nat, NEW b \in Nat \ {0} PROVE Quotient(a, b) \in Nat
  <2>1. a \div b \in Nat
    OBVIOUS
  <2> QED BY <2>1 DEF Quotient
<1>2. ns * threads \in Nat
  OBVIOUS
<1>3. CASE units = 0 \/ ns = 0 \/ m = "disk_rand_read_p99_us"
  BY <1>3 DEF ValueOf
<1>4. CASE units # 0 /\ ns # 0 /\ m # "disk_rand_read_p99_us"
  <2>1. Quotient(ns * threads, units) \in Nat /\ Quotient(units, ns) \in Nat
    BY <1>1, <1>2, <1>4
  <2> QED BY <1>4, <2>1 DEF ValueOf
<1> QED BY <1>3, <1>4

\* Every row passes check_result().
LEMMA RowChecked ==
    ASSUME NEW o \in OptionSets, NEW machine, NEW sp, IsSpec(sp), NEW k \in DOMAIN sp.metrics,
           NEW t \in Nat, NEW s \in Samples
    PROVE  CheckResult(Row(o, machine, sp, sp.metrics[k], t, s))
<1> DEFINE m == sp.metrics[k]
           r == Row(o, machine, sp, m, t, s)
<1>1. IsRow(r)
  BY RowIsRow
<1>2. sp.threads \in Nat \ {0} /\ s.units \in Nat /\ s.ns \in Nat /\ s.p99 \in Nat
  BY SpecFacts, SamplesAssumption
<1> HIDE DEF m
<1>3. /\ DOMAIN r = RowFields /\ r.value = ValueOf(m, s.units, s.ns, sp.threads, s.p99)
      /\ r.params = ColdEffect(o.cold, machine.l3_kb, ColdRegion(sp.metrics[1], sp.ws))
  BY DEF Row, RowFields
<1> HIDE DEF r
<1>4. r.value # NotFinite
  <2>1. r.value \in Nat
    BY <1>2, <1>3, ValueNat
  <2> QED BY <2>1 DEF NotFinite
<1>5. r.params \in {"clflush", "evict", "none", "n/a"}
  <2>1. o.cold \in {"clflush", "evict", "none"}
    BY OptionsAssumption
  <2> QED BY <1>3, <2>1 DEF ColdEffect
<1>6. r.metric \in AllMetrics
  BY <1>1, MetricsKnown DEF IsRow
<1>7. /\ DOMAIN r \cap {"schema_version", "run_id", "machine"} = {}
      /\ RequiredOfResult \subseteq DOMAIN r
  BY <1>3 DEF RowFields, RequiredOfResult
<1>8. r.timestamp # 0 /\ r.thread_count >= 1 /\ r.trial >= 0
  BY <1>1, ClockAssumption DEF IsRow
<1>9. r.workload = WorkloadOf(r.metric) /\ r.unit = UnitOf(r.metric)
  BY <1>1 DEF IsRow
<1>10. CheckResult(r)
  BY <1>4, <1>5, <1>6, <1>7, <1>8, <1>9 DEF CheckResult
<1> QED BY <1>10 DEF r, m

\* So do those of all the trials of a configuration, of which there are none
\* unless one was made.
LEMMA RowsOfChecked ==
    ASSUME NEW o \in OptionSets, NEW machine, NEW sp, IsSpec(sp), NEW n \in Nat, NEW sample,
           \A t \in 1..n : sample[t] \in Samples
    PROVE  /\ IsList(RowsOf(o, machine, sp, n, sample))
           /\ \A l \in DOMAIN RowsOf(o, machine, sp, n, sample) :
                 n # 0 /\ CheckResult(RowsOf(o, machine, sp, n, sample)[l])
<1> DEFINE trial(t) == [k \in DOMAIN sp.metrics |->
                           Row(o, machine, sp, sp.metrics[k], t - 1, sample[t])]
           ss == [t \in 1..n |-> trial(t)]
<1>1. Len(sp.metrics) \in Nat /\ DOMAIN sp.metrics = 1..Len(sp.metrics)
  BY SpecFacts, ListFacts
<1>2. ASSUME NEW t \in 1..n
      PROVE  IsList(trial(t)) /\ \A k \in DOMAIN trial(t) : CheckResult(trial(t)[k])
  <2>1. DOMAIN trial(t) = DOMAIN sp.metrics
        /\ \A k \in DOMAIN sp.metrics :
              trial(t)[k] = Row(o, machine, sp, sp.metrics[k], t - 1, sample[t])
    OBVIOUS
  <2>2. trial(t) = [k \in 1..Len(sp.metrics) |-> trial(t)[k]]
    BY <1>1
  <2>3. t - 1 \in Nat /\ sample[t] \in Samples
    OBVIOUS
  <2>4. \A k \in DOMAIN sp.metrics : CheckResult(Row(o, machine, sp, sp.metrics[k], t - 1, sample[t]))
    BY <2>3, RowChecked
  <2> HIDE DEF trial
  <2>5. IsList(trial(t))
    BY <1>1, <2>2, FunctionIsList
  <2> QED BY <2>1, <2>4, <2>5
<1>3. DOMAIN ss = 1..n /\ \A t \in 1..n : ss[t] = trial(t)
  OBVIOUS
<1>4. IsList(ss)
  <2>1. ss = [t \in 1..n |-> ss[t]]
    OBVIOUS
  <2> HIDE DEF ss
  <2> QED BY <2>1, FunctionIsList
<1>5. RowsOf(o, machine, sp, n, sample) = FlattenSeq(ss)
  BY DEF RowsOf
<1> HIDE DEF ss, trial
<1>6. /\ IsList(FlattenSeq(ss))
      /\ \A l \in DOMAIN FlattenSeq(ss) : \E k \in DOMAIN ss : \E j \in DOMAIN ss[k] :
             FlattenSeq(ss)[l] = ss[k][j]
  BY <1>2, <1>3, <1>4, FlattenElements
<1>7. \A t \in 1..n : n # 0
  OBVIOUS
<1> QED BY <1>2, <1>3, <1>5, <1>6, <1>7

\* Every summary of at least one trial passes check_summary(): this is where the
\* statistics count.
LEMMA SummaryChecked ==
    ASSUME NEW h, NEW v \in Seq(Nat), Len(v) # 0, NEW q, NEW late \in Nat, late <= Len(v),
           DOMAIN h = {"workload", "metric", "thread_count", "working_set_bytes"},
           h.metric \in AllMetrics, h.workload = WorkloadOf(h.metric),
           q = [late_trials |-> late, canary_attempts |-> 1,
                clock_call_ns_start |-> 14, clock_call_ns_end |-> 14]
    PROVE  CheckSummary(Joined(h, Joined(Summarize(v), q)))
<1> DEFINE stats == {"n", "mean", "stddev", "cov", "min", "max", "median", "p5", "p95", "mad"}
           quality == {"late_trials", "canary_attempts", "clock_call_ns_start", "clock_call_ns_end"}
           head == {"workload", "metric", "thread_count", "working_set_bytes"}
<1>1. PICK u : u = Summarize(v)
  OBVIOUS
<1>2. /\ DOMAIN u = stats /\ u.n = Len(v) /\ u.stddev >= 0 /\ u.cov >= 0 /\ u.mad >= 0
      /\ u.min <= u.median /\ u.median <= u.max /\ u.min <= u.max /\ u.p5 <= u.p95
  BY <1>1, SummarizeFacts
<1>3. /\ DOMAIN q = quality /\ q.late_trials = late /\ q.canary_attempts = 1
      /\ q.clock_call_ns_start = 14 /\ q.clock_call_ns_end = 14
  OBVIOUS
<1>4. PICK s : s = Joined(h, Joined(u, q))
  OBVIOUS
<1>6. PICK c : c = Joined(u, q)
  OBVIOUS
<1>7. /\ DOMAIN c = stats \cup quality
      /\ \A f \in stats : c[f] = u[f]
      /\ \A f \in quality : c[f] = q[f]
  <2>1. \A f \in quality : f \notin stats
    OBVIOUS
  <2> HIDE DEF stats, quality
  <2>2. DOMAIN c = DOMAIN u \cup DOMAIN q /\ (\A f \in DOMAIN u : c[f] = u[f])
        /\ \A f \in DOMAIN q : f \notin DOMAIN u => c[f] = q[f]
    BY <1>6 DEF Joined
  <2> QED BY <1>2, <1>3, <2>1, <2>2
<1>8. /\ DOMAIN s = head \cup stats \cup quality
      /\ \A f \in head : s[f] = h[f]
      /\ \A f \in stats : s[f] = u[f]
      /\ \A f \in quality : s[f] = q[f]
  <2>1. \A f \in stats \cup quality : f \notin head
    OBVIOUS
  <2>2. s = Joined(h, c)
    BY <1>4, <1>6
  <2>3. DOMAIN h = head
    OBVIOUS
  <2> HIDE DEF stats, quality, head
  <2>4. DOMAIN s = DOMAIN h \cup DOMAIN c /\ (\A f \in DOMAIN h : s[f] = h[f])
        /\ \A f \in DOMAIN c : f \notin DOMAIN h => s[f] = c[f]
    BY <2>2 DEF Joined
  <2> QED BY <1>7, <2>1, <2>3, <2>4
<1>9. /\ s.metric = h.metric /\ s.workload = h.workload /\ s.n = Len(v)
      /\ s.stddev = u.stddev /\ s.cov = u.cov /\ s.mad = u.mad /\ s.min = u.min
      /\ s.max = u.max /\ s.median = u.median /\ s.p5 = u.p5 /\ s.p95 = u.p95
  BY <1>2, <1>8
<1>10. /\ s.late_trials = late /\ s.canary_attempts = 1
       /\ s.clock_call_ns_start = 14 /\ s.clock_call_ns_end = 14
  BY <1>3, <1>8
<1>11. RequiredOfSummary \subseteq DOMAIN s
  BY <1>8 DEF RequiredOfSummary
<1>12. s.metric \in AllMetrics /\ s.workload = WorkloadOf(s.metric)
  BY <1>9
<1>13. s.n >= 1 /\ s.late_trials <= s.n
  <2>1. Len(v) \in Nat
    OBVIOUS
  <2> QED BY <1>9, <1>10, <2>1
<1>14. \A f \in {"stddev", "cov", "mad", "clock_call_ns_start", "clock_call_ns_end", "late_trials"}
           \cap DOMAIN s : s[f] >= 0
  <2>1. /\ s.stddev >= 0 /\ s.cov >= 0 /\ s.mad >= 0
    BY <1>2, <1>9
  <2>2. /\ s.clock_call_ns_start >= 0 /\ s.clock_call_ns_end >= 0 /\ s.late_trials >= 0
    BY <1>10
  <2> QED BY <2>1, <2>2
<1>15. s.canary_attempts >= 1
  BY <1>10
<1>16. s.min <= s.max /\ s.min <= s.median /\ s.median <= s.max /\ s.p5 <= s.p95
  BY <1>2, <1>9
<1>17. CheckSummary(s)
  BY <1>11, <1>12, <1>13, <1>14, <1>15, <1>16 DEF CheckSummary
<1> QED BY <1>1, <1>4, <1>17

\* The summaries of a configuration pass, and there are some if a trial was made.
LEMMA SummariesChecked ==
    ASSUME NEW sp, IsSpec(sp), NEW n \in Nat, NEW sample, \A t \in 1..n : sample[t] \in Samples
    PROVE  /\ \A l \in DOMAIN SummariesOf(sp, n, sample) : CheckSummary(SummariesOf(sp, n, sample)[l])
           /\ n # 0 => Len(SummariesOf(sp, n, sample)) # 0
<1>1. /\ Len(sp.metrics) \in Nat /\ DOMAIN sp.metrics = 1..Len(sp.metrics)
      /\ sp.threads \in Nat \ {0} /\ Len(sp.metrics) # 0
      /\ \A k \in DOMAIN sp.metrics :
            sp.metrics[k] \in Hosts \cup Riders /\ WorkloadOf(sp.metrics[k]) = sp.kind
  <2>1. /\ IsList(sp.metrics) /\ sp.threads \in Nat \ {0}
        /\ \A k \in DOMAIN sp.metrics :
              sp.metrics[k] \in Hosts \cup Riders /\ WorkloadOf(sp.metrics[k]) = sp.kind
    BY SpecFacts
  <2>2. Len(sp.metrics) \in Nat /\ DOMAIN sp.metrics = 1..Len(sp.metrics)
    BY <2>1, ListFacts
  <2>3. Len(sp.metrics) # 0
    <3>1. PICK m \in Hosts, t \in Nat \ {0}, w \in Nat :
             sp = [kind |-> WorkloadOf(m), metrics |-> <<m>> \o RidersOf(m), threads |-> t, ws |-> w]
      BY DEF IsSpec
    <3>2. sp.metrics = <<m>> \o RidersOf(m)
      BY <3>1
    <3>3. ASSUME NEW x, NEW y PROVE Len(<<x>> \o <<y>>) # 0 /\ Len(<<x>> \o <<>>) # 0
      <4>1. <<x>> \in Seq({x, y}) /\ <<y>> \in Seq({x, y}) /\ <<>> \in Seq({x, y})
            /\ Len(<<x>>) = 1 /\ Len(<<y>>) = 1 /\ Len(<<>>) = 0
        OBVIOUS
      <4> QED BY <4>1
    <3> QED BY <3>2, <3>3 DEF RidersOf
  <2> QED BY <2>1, <2>2, <2>3
<1>2. CASE n = 0
  <2>1. SummariesOf(sp, n, sample) = <<>>
    BY <1>2 DEF SummariesOf
  <2> QED BY <1>2, <2>1
<1>3. CASE n # 0
  <2> DEFINE Values(m) == [t \in 1..n |-> ValueOf(m, sample[t].units, sample[t].ns, sp.threads, sample[t].p99)]
             late == Cardinality({t \in 1..n : sample[t].late})
             Quality == [late_trials |-> late,
                         canary_attempts |-> 1, clock_call_ns_start |-> 14, clock_call_ns_end |-> 14]
             Head4(m) == [workload |-> sp.kind, metric |-> m, thread_count |-> sp.threads,
                          working_set_bytes |-> sp.ws]
             f == [k \in DOMAIN sp.metrics |->
                     Joined(Head4(sp.metrics[k]), Joined(Summarize(Values(sp.metrics[k])), Quality))]
  <2>1. SummariesOf(sp, n, sample) = f
    BY <1>3 DEF SummariesOf
  <2>2. late \in Nat /\ late <= n
    <3> DEFINE L == {t \in 1..n : sample[t].late}
    <3>1. L \in SUBSET (1..n)
      OBVIOUS
    <3>2. IsFiniteSet(1..n) /\ Cardinality(1..n) = n
      <4>1. 1 \in Int /\ n \in Int
        OBVIOUS
      <4>2. IsFiniteSet(1..n) /\ Cardinality(1..n) = IF 1 > n THEN 0 ELSE n - 1 + 1
        BY <4>1, FS_Interval
      <4> QED BY <1>3, <4>2
    <3> HIDE DEF L
    <3>3. IsFiniteSet(L) /\ Cardinality(L) <= Cardinality(1..n)
      BY <3>1, <3>2, FS_Subset
    <3>4. Cardinality(L) \in Nat
      BY <3>3, FS_CardinalityType
    <3> QED BY <3>2, <3>3, <3>4 DEF L
  <2> HIDE DEF late
  <2>3. ASSUME NEW k \in DOMAIN sp.metrics PROVE CheckSummary(f[k])
    <3>1. PICK m : m = sp.metrics[k]
      OBVIOUS
    <3>2. PICK v : v = Values(m)
      OBVIOUS
    <3>3. v \in Seq(Nat) /\ Len(v) = n
      <4>1. ASSUME NEW t \in 1..n
            PROVE  ValueOf(m, sample[t].units, sample[t].ns, sp.threads, sample[t].p99) \in Nat
        <5>1. sample[t].units \in Nat /\ sample[t].ns \in Nat /\ sample[t].p99 \in Nat
              /\ sp.threads \in Nat
          BY <1>1, SamplesAssumption
        <5> QED BY <5>1, ValueNat
      <4>2. v \in [1..n -> Nat]
        BY <3>2, <4>1
      <4> QED BY <4>2
    <3>4. PICK h : h = Head4(m)
      OBVIOUS
    <3>5. PICK q : q = Quality
      OBVIOUS
    <3>6. /\ DOMAIN h = {"workload", "metric", "thread_count", "working_set_bytes"}
          /\ h.metric = m /\ h.workload = sp.kind
      BY <3>4
    <3>7. h.metric \in AllMetrics /\ h.workload = WorkloadOf(h.metric)
      BY <1>1, <3>1, <3>6, MetricsKnown
    <3>8. f[k] = Joined(h, Joined(Summarize(v), q))
      BY <3>1, <3>2, <3>4, <3>5
    <3> HIDE DEF f, Values, Head4
    <3>9. CheckSummary(Joined(h, Joined(Summarize(v), q)))
      BY <1>3, <2>2, <3>3, <3>5, <3>6, <3>7, SummaryChecked
    <3> QED BY <3>8, <3>9
  <2>4. DOMAIN f = DOMAIN sp.metrics
    OBVIOUS
  <2>5. Len(f) # 0
    <3>1. f = [k \in 1..Len(sp.metrics) |-> f[k]]
      BY <1>1
    <3> HIDE DEF f
    <3>2. Len(f) = Len(sp.metrics)
      BY <1>1, <3>1, FunctionIsList
    <3> QED BY <1>1, <3>2
  <2> HIDE DEF f
  <2> QED BY <2>1, <2>3, <2>4, <2>5
<1> QED BY <1>2, <1>3

\* A run that validates, is written as it is, and has a summary if it has results.
SoundRun(j) ==
    /\ ValidateRun(j) /\ Dumped(j) = j
    /\ j.summary = <<>> => j.results = <<>>

\* Where all values are numbers, dump() writes every one.
LEMMA DumpedSame ==
    ASSUME NEW j, NEW rows, NEW D, j = [f \in D |-> j[f]], "results" \in D, j.results = rows,
           IsList(rows), \A k \in DOMAIN rows : rows[k].value # NotFinite
    PROVE  Dumped(j) = j
<1> DEFINE same == [k \in DOMAIN rows |->
                      IF rows[k].value = NotFinite
                      THEN [f \in DOMAIN rows[k] \ {"value"} |-> rows[k][f]]
                      ELSE rows[k]]
<1>1. Dumped(j) = [j EXCEPT !.results = same]
  BY DEF Dumped
<1>2. same = [k \in DOMAIN rows |-> rows[k]]
  OBVIOUS
<1>3. rows = [k \in DOMAIN rows |-> rows[k]]
  BY ListFacts
<1>4. same = j.results
  BY <1>2, <1>3
<1> HIDE DEF same
<1>5. [j EXCEPT !.results = same] = [f \in D |-> IF f = "results" THEN same ELSE j[f]]
  OBVIOUS
<1>6. [f \in D |-> IF f = "results" THEN same ELSE j[f]] = [f \in D |-> j[f]]
  BY <1>4
<1> QED BY <1>1, <1>5, <1>6

\* The machine block passes check_machine().
LEMMA MachineChecked ==
    ASSUME NEW p \in Probes
    PROVE  CheckMachine(MachineInfo(p))
BY DEF CheckMachine, MachineInfo

\* What run_benchmarks() returns is such a run, however many trials were made.
LEMMA JsonChecked ==
    ASSUME NEW o \in OptionSets, ~Refused(o), ~OutOfRange(o), NEW machine, CheckMachine(machine),
           NEW counts \in TrialCounts(o, Specs(o)), NEW sample \in [1..o.trials -> Samples],
           NEW finished \in Clocks
    PROVE  SoundRun(ToJson(o, machine, Specs(o), counts, sample, finished))
<1> DEFINE sps == Specs(o)
           rows == [k \in DOMAIN sps |-> RowsOf(o, machine, sps[k], counts[k], sample)]
           sums == [k \in DOMAIN sps |-> SummariesOf(sps[k], counts[k], sample)]
           j == ToJson(o, machine, sps, counts, sample, finished)
<1>1. IsList(sps) /\ \A k \in DOMAIN sps : IsSpec(sps[k])
  BY SpecsFacts
<1>2. o.trials \in Nat /\ \A k \in DOMAIN sps : counts[k] \in 0..o.trials
  BY CountsFacts
<1> HIDE DEF sps
<1>3. Len(sps) \in Nat /\ DOMAIN sps = 1..Len(sps)
  BY <1>1, ListFacts
<1>4. /\ DOMAIN j = JsonKeys /\ j.results = FlattenSeq(rows) /\ j.summary = FlattenSeq(sums)
      /\ j.schema_version = 1 /\ j.run_id = "uuid" /\ j.started_at = StartTime
      /\ j.finished_at = finished /\ j.machine = machine
  BY DEF ToJson, JsonKeys
<1>5. ASSUME NEW k \in DOMAIN sps
      PROVE  /\ IsList(rows[k]) /\ IsList(sums[k])
             /\ \A l \in DOMAIN rows[k] : CheckResult(rows[k][l])
             /\ \A l \in DOMAIN sums[k] : CheckSummary(sums[k][l])
             /\ Len(sums[k]) = 0 => DOMAIN rows[k] = {}
  <2>1. counts[k] \in Nat /\ \A t \in 1..counts[k] : sample[t] \in Samples
    BY <1>2
  <2>2. rows[k] = RowsOf(o, machine, sps[k], counts[k], sample)
        /\ sums[k] = SummariesOf(sps[k], counts[k], sample)
    OBVIOUS
  <2> HIDE DEF rows, sums
  <2>3. IsSpec(sps[k])
    BY <1>1
  <2>4. IsList(rows[k]) /\ \A l \in DOMAIN rows[k] : counts[k] # 0 /\ CheckResult(rows[k][l])
    <3>1. PICK sp, n : sp = sps[k] /\ n = counts[k]
      OBVIOUS
    <3>2. IsSpec(sp) /\ n \in Nat /\ \A t \in 1..n : sample[t] \in Samples
      BY <2>1, <2>3, <3>1
    <3>3. /\ IsList(RowsOf(o, machine, sp, n, sample))
          /\ \A l \in DOMAIN RowsOf(o, machine, sp, n, sample) :
                n # 0 /\ CheckResult(RowsOf(o, machine, sp, n, sample)[l])
      BY <3>2, RowsOfChecked
    <3>4. rows[k] = RowsOf(o, machine, sp, n, sample)
      BY <2>2, <3>1
    <3> QED BY <3>1, <3>3, <3>4
  <2>5. IsList(sums[k])
    BY <2>1, <2>2, <2>3, SummariesOfFacts
  <2>6. /\ \A l \in DOMAIN sums[k] : CheckSummary(sums[k][l])
        /\ counts[k] # 0 => Len(sums[k]) # 0
    BY <2>1, <2>2, <2>3, SummariesChecked
  <2> QED BY <2>4, <2>5, <2>6
<1>6. DOMAIN rows = DOMAIN sps /\ IsList(rows) /\ DOMAIN sums = DOMAIN sps /\ IsList(sums)
  <2>1. /\ DOMAIN rows = DOMAIN sps /\ rows = [k \in 1..Len(sps) |-> rows[k]]
        /\ DOMAIN sums = DOMAIN sps /\ sums = [k \in 1..Len(sps) |-> sums[k]]
    BY <1>3
  <2> HIDE DEF rows, sums
  <2> QED BY <1>3, <2>1, FunctionIsList
<1> HIDE DEF rows, sums
<1>7. /\ IsList(FlattenSeq(rows))
      /\ \A l \in DOMAIN FlattenSeq(rows) : \E k \in DOMAIN rows : \E i1 \in DOMAIN rows[k] :
             FlattenSeq(rows)[l] = rows[k][i1]
  BY <1>5, <1>6, FlattenElements
<1>8. \A l \in DOMAIN FlattenSeq(rows) : CheckResult(FlattenSeq(rows)[l])
  BY <1>5, <1>6, <1>7
<1>9. \A l \in DOMAIN FlattenSeq(sums) : CheckSummary(FlattenSeq(sums)[l])
  <2>1. \A l \in DOMAIN FlattenSeq(sums) : \E k \in DOMAIN sums : \E i1 \in DOMAIN sums[k] :
           FlattenSeq(sums)[l] = sums[k][i1]
    BY <1>5, <1>6, FlattenElements
  <2> QED BY <1>5, <1>6, <2>1
<1>10. ASSUME FlattenSeq(sums) = <<>> PROVE FlattenSeq(rows) = <<>>
  <2>1. \A k \in DOMAIN sums : Len(sums[k]) = 0
    BY <1>5, <1>6, <1>10, FlattenEmpty
  <2>2. \A k \in DOMAIN rows : DOMAIN rows[k] = {}
    BY <1>5, <1>6, <2>1
  <2>3. DOMAIN FlattenSeq(rows) = {}
    BY <1>7, <2>2
  <2>4. Len(FlattenSeq(rows)) \in Nat /\ DOMAIN FlattenSeq(rows) = 1..Len(FlattenSeq(rows))
        /\ FlattenSeq(rows) = [k \in 1..Len(FlattenSeq(rows)) |-> FlattenSeq(rows)[k]]
    BY <1>7, ListFacts
  <2> QED BY <2>3, <2>4
<1>11. Dumped(j) = j
  <2>1. j = [f \in JsonKeys |-> j[f]]
    BY DEF ToJson, JsonKeys
  <2>2. "results" \in JsonKeys
    BY DEF JsonKeys
  <2>3. \A k \in DOMAIN FlattenSeq(rows) : FlattenSeq(rows)[k].value # NotFinite
    BY <1>8 DEF CheckResult
  <2> HIDE DEF j
  <2> QED BY <1>4, <1>7, <2>1, <2>2, <2>3, DumpedSame
<1> HIDE DEF j
<1>12. j.started_at # 0 /\ j.finished_at # 0
  BY <1>4, ClockAssumption
<1>13. ValidateRun(j)
  <2>1. {"schema_version", "run_id", "started_at", "finished_at", "argv", "results", "machine"}
           \subseteq DOMAIN j
    BY <1>4 DEF JsonKeys
  <2> QED BY <1>4, <1>8, <1>9, <1>12, <2>1 DEF ValidateRun
<1>14. SoundRun(j)
  BY <1>4, <1>10, <1>11, <1>13 DEF SoundRun
<1> QED BY <1>14 DEF j, sps

-----------------------------------------------------------------------------
(* The inductive invariant of the engine: what it has made is a document, of *)
(* which there is a chunk left to send, and the decoder has the last it sent. *)

EngineInv ==
    /\ cmd = "start" => opts \in OptionSets /\ sent = 0
    /\ cmd \in {"write", "post", "waiting"} =>
          /\ IsDocument(run) /\ "summary" \in DOMAIN run /\ IsMachine(run.machine)
          /\ opts.chunk \in Nat /\ sent \in Nat /\ sent < ChunkCount
    /\ cmd = "waiting" => doc = Members(Part(sent), SentKeys(Part(sent)))

DocumentInv == DecoderInv /\ EngineInv /\ EngineRunsAccepted

\* A run has at least one chunk.
LEMMA ChunksPositive ==
    ASSUME IsList(run.results), opts.chunk \in Nat
    PROVE  ChunkCount \in Nat \ {0}
<1>1. Len(run.results) \in Nat /\ (Len(run.results) = 0 => run.results = <<>>)
  <2>1. Len(run.results) \in Nat /\ run.results = [k \in 1..Len(run.results) |-> run.results[k]]
    BY ListFacts
  <2> QED BY <2>1
<1>2. CASE run.results = <<>>
  BY <1>2 DEF ChunkCount
<1>3. CASE run.results # <<>>
  <2>1. PICK n \in Nat \ {0} : n = Len(run.results)
    BY <1>1, <1>3
  <2>2. PICK z \in Nat \ {0} : z = ChunkSize
    BY <2>1 DEF ChunkSize
  <2>3. ChunkCount = (n + z - 1) \div z
    BY <1>3, <2>1, <2>2, Zenon DEF ChunkCount
  <2>4. PICK a \in Nat : a = n + z - 1 /\ a >= z
    <3>1. n + z - 1 \in Nat /\ n + z - 1 >= z
      OBVIOUS
    <3> QED BY <3>1
  <2>5. a \div z \in Nat /\ z * (a \div z) + (a % z) = a /\ (a % z) < z
    OBVIOUS
  <2>6. a \div z # 0
    <3>1. a \div z = 0 => z * (a \div z) = 0
      OBVIOUS
    <3>2. (a % z) \in Int
      OBVIOUS
    <3> QED BY <2>4, <2>5, <3>1, <3>2
  <2> QED BY <2>3, <2>4, <2>5, <2>6
<1> QED BY <1>2, <1>3

\* ... in the next state as well.
LEMMA NextChunksPositive ==
    (IsList(run.results) /\ opts.chunk \in Nat => ChunkCount \in Nat \ {0})'
<1>1. IsList(run.results) /\ opts.chunk \in Nat => ChunkCount \in Nat \ {0}
  BY ChunksPositive
<1> QED BY <1>1, PTL

\* What run_benchmarks() makes is a document with a valid machine.
LEMMA RunBenchmarksInv ==
    ASSUME DocumentInv, RunBenchmarks, UNCHANGED decoder
    PROVE  EngineInv'
<1>1. opts \in OptionSets /\ sent = 0 /\ ~Refused(opts) /\ ~OutOfRange(opts)
  BY DEF RunBenchmarks, DocumentInv, EngineInv
<1>2. PICK probe \in Probes, sample \in [1..opts.trials -> Samples], finished \in Clocks,
           counts \in TrialCounts(opts, Specs(opts)) :
         run' = ToJson(opts, MachineInfo(probe), Specs(opts), counts, sample, finished)
  BY DEF RunBenchmarks
<1>3. PICK machine : machine = MachineInfo(probe)
  OBVIOUS
<1>4. IsMachine(machine)
  BY <1>3, MachineFacts
<1>5. IsDocument(run')
  <2>1. DecodesMachine(machine)
    BY <1>4 DEF IsMachine
  <2>2. IsDocument(ToJson(opts, machine, Specs(opts), counts, sample, finished))
    BY <1>1, <2>1, JsonFacts
  <2> QED BY <1>2, <1>3, <2>2
<1>6. run'.machine = machine /\ "summary" \in DOMAIN run'
  BY <1>2, <1>3 DEF ToJson
<1>7. cmd' = "write" /\ opts' = opts /\ sent' = sent
  BY DEF RunBenchmarks
<1>8. opts.chunk \in Nat
  BY <1>1, OptionsAssumption
<1>9. (ChunkCount \in Nat \ {0})'
  <2>1. (IsList(run.results) /\ opts.chunk \in Nat)'
    BY <1>5, <1>7, <1>8 DEF IsDocument
  <2>2. (IsList(run.results) /\ opts.chunk \in Nat => ChunkCount \in Nat \ {0})'
    BY NextChunksPositive
  <2> QED BY <2>1, <2>2
<1> QED BY <1>1, <1>4, <1>5, <1>6, <1>7, <1>8, <1>9 DEF EngineInv

\* The chunk the decoder is at, as it sees it.
LEMMA SentDocument ==
    ASSUME DecoderInv, EngineInv, cmd = "waiting"
    PROVE  \E j :
             /\ IsDocument(j) /\ IsMachine(j.machine)
             /\ j.machine = run.machine /\ j.finished_at = run.finished_at
             /\ \A k \in DOMAIN doc :
                   doc[k].ok /\ doc[k].key \in DOMAIN j /\ doc[k].val = j[doc[k].key]
             /\ \A f \in DOMAIN j : \A none : ValueAt(f, none) = j[f]
             /\ run.results # <<>> => Len(DocumentRows) \in Nat \ {0}
<1>1. PICK j : j = Part(sent)
  OBVIOUS
<1>2. /\ IsDocument(j) /\ j.machine = run.machine /\ j.finished_at = run.finished_at
      /\ run.results # <<>> => Len(j.results) \in Nat \ {0}
  BY <1>1, PartFacts DEF EngineInv
<1>3. doc = Members(j, SentKeys(j))
  BY <1>1 DEF EngineInv
<1>4. /\ WellFormed(doc)
      /\ \A k \in DOMAIN doc : doc[k].ok /\ doc[k].key \in DOMAIN j /\ doc[k].val = j[doc[k].key]
      /\ \A f \in DOMAIN j : \E k \in DOMAIN doc : doc[k].key = f
  BY <1>2, <1>3, MembersFacts
<1>5. ASSUME NEW f \in DOMAIN j, NEW none PROVE ValueAt(f, none) = j[f]
  <2>1. PICK k \in DOMAIN doc : doc[k].key = f
    BY <1>4
  <2>2. {l \in DOMAIN doc : doc[l].key = f} = {k}
    BY <1>4, <2>1 DEF WellFormed
  <2>3. (CHOOSE l \in {k} : TRUE) = k
    OBVIOUS
  <2>4. ValueAt(f, none) = doc[k].val
    BY <2>2, <2>3 DEF ValueAt
  <2> QED BY <1>4, <2>1, <2>4
<1>6. Len(DocumentRows) = Len(j.results)
  <2>1. "results" \in DOMAIN j
    BY <1>2 DEF IsDocument, JsonKeys
  <2>2. PICK k \in DOMAIN doc : doc[k].key = "results"
    BY <1>4, <2>1
  <2> QED BY <1>4, <2>2, RowsOfMember
<1>7. IsMachine(j.machine)
  BY <1>2 DEF EngineInv
<1> QED BY <1>2, <1>4, <1>5, <1>6, <1>7

\* No member of a chunk is refused by itself.
LEMMA FieldsAccepted ==
    ASSUME DecoderInv, EngineInv, cmd = "waiting"
    PROVE  ~BadField
<1> SUFFICES ASSUME BadField PROVE FALSE
  OBVIOUS
<1>1. PICK j :
         /\ IsDocument(j)
         /\ \A k \in DOMAIN doc :
               doc[k].ok /\ doc[k].key \in DOMAIN j /\ doc[k].val = j[doc[k].key]
  BY SentDocument
<1>2. at <= Len(doc) /\ doc[at].key # "results" /\ ~DecodesField(doc[at])
  BY DEF BadField, InMembers, Member
<1>3. at \in DOMAIN doc
  <2>1. Len(doc) \in Nat /\ DOMAIN doc = 1..Len(doc) /\ at \in 1..(Len(doc) + 1)
    BY ListFacts DEF DecoderInv, DecoderTypeOK, WellFormed
  <2> QED BY <1>2, <2>1
<1>4. doc[at].ok /\ doc[at].key \in JsonKeys /\ doc[at].val = j[doc[at].key]
      /\ doc[at].key \in DOMAIN j
  BY <1>1, <1>3 DEF IsDocument
<1>5. DecodesMachine(j.machine) /\ ("summary" \in DOMAIN j => DecodesSummary(j.summary))
  BY <1>1 DEF IsDocument
<1>6. DecodesField(doc[at])
  BY <1>2, <1>4, <1>5 DEF DecodesField, JsonKeys
<1> QED BY <1>2, <1>6

\* Nor is a row of it.
LEMMA ResultsAccepted ==
    ASSUME DecoderInv, EngineInv, cmd = "waiting"
    PROVE  ~BadResult
<1> SUFFICES ASSUME BadResult PROVE FALSE
  OBVIOUS
<1>1. PICK j :
         /\ IsDocument(j)
         /\ \A k \in DOMAIN doc :
               doc[k].ok /\ doc[k].key \in DOMAIN j /\ doc[k].val = j[doc[k].key]
  BY SentDocument
<1>2. phase = "results" /\ i < Len(Member.val)
      /\ (~DecodesResult(Member.val[i + 1]) \/ ~ValidResult(Element))
  BY DEF BadResult, InResults
<1>3. at \in DOMAIN doc /\ Len(Member.val) = Len(DocumentRows) /\ i \in 0..Len(DocumentRows)
      /\ Len(DocumentRows) \in Nat
  BY <1>2, ElementIsRow
<1>4. doc[at].key = "results"
  BY <1>2 DEF DecoderInv, ResultsInv
<1>5. Member.val = j.results
  BY <1>1, <1>3, <1>4 DEF Member
<1>6. IsList(j.results) /\ \A l \in DOMAIN j.results : IsRow(j.results[l])
  BY <1>1 DEF IsDocument
<1>7. i + 1 \in DOMAIN j.results
  BY <1>2, <1>3, <1>5, <1>6, ListFacts
<1>8. IsRow(Member.val[i + 1])
  BY <1>5, <1>6, <1>7
<1> QED BY <1>2, <1>8, RowsAreValid DEF Element

\* Times are in an order.
LEMMA NotBefore == \A a, b \in Nat \ {0} : ~(a < b) => a >= b
  OBVIOUS

\* A header is refused for one of the reasons given only.
LEMMA HeadersAccepted ==
    ASSUME DecoderInv, EngineInv, cmd = "waiting", BadHeader
    PROVE  \/ run.results = <<>> \/ run.finished_at < run.started_at
           \/ run.machine.os = "" \/ run.machine.logical_cpus = 0
<1> SUFFICES ASSUME run.results # <<>>, ~(run.finished_at < run.started_at),
                    run.machine.os # "", run.machine.logical_cpus # 0
             PROVE  FALSE
  OBVIOUS
<1>1. PICK j :
         /\ IsDocument(j) /\ IsMachine(j.machine)
         /\ j.machine = run.machine /\ j.finished_at = run.finished_at
         /\ \A f \in DOMAIN j : \A none : ValueAt(f, none) = j[f]
         /\ run.results # <<>> => Len(DocumentRows) \in Nat \ {0}
  BY SentDocument
<1>2. at = Len(doc) + 1 /\ count = Len(DocumentRows) /\ ~HeaderValid(env, count)
  BY DEF BadHeader, Replayed, DecoderInv, ReplayInv, AllRead
<1>3. {"schema_version", "run_id", "started_at", "finished_at", "machine"}
         \subseteq DOMAIN j \cap DOMAIN NoHeader
  BY <1>1 DEF IsDocument, JsonKeys, NoHeader
<1>4. /\ env.schema_version = j.schema_version /\ env.run_id = j.run_id
      /\ env.started_at = j.started_at /\ env.finished_at = j.finished_at
      /\ env.machine = Decoded(j.machine, MachineTexts, MachineNumbers)
  <2>1. ASSUME NEW f \in DOMAIN NoHeader, f \in DOMAIN j, f # "machine" PROVE env[f] = j[f]
    <3>1. env[f] = ValueAt(f, NoHeader[f])
      BY <1>2, <2>1, EnvIsDocument
    <3> QED BY <1>1, <2>1, <3>1
  <2>2. env["machine"] = Decoded(ValueAt("machine", <<>>), MachineTexts, MachineNumbers)
    <3>1. "machine" \in DOMAIN NoHeader
      BY <1>3
    <3> QED BY <1>2, <3>1, EnvIsDocument
  <2>3. ValueAt("machine", <<>>) = j["machine"]
    BY <1>1, <1>3
  <2> QED BY <1>3, <2>1, <2>2, <2>3
<1>5. /\ j.schema_version = 1 /\ j.run_id = "uuid" /\ j.started_at = StartTime
      /\ j.finished_at \in Clocks /\ run.started_at = StartTime
  BY <1>1 DEF IsDocument, EngineInv
<1>6. /\ j.started_at \in Nat \ {0} /\ j.finished_at \in Nat \ {0}
      /\ j.finished_at >= j.started_at
  <2>1. j.started_at \in Nat \ {0} /\ j.finished_at \in Nat \ {0}
    BY <1>5, ClockAssumption
  <2>2. ~(j.finished_at < j.started_at)
    BY <1>1, <1>5
  <2> QED BY <2>1, <2>2, NotBefore, Zenon
<1>7. ValidMachine(env.machine)
  BY <1>1, <1>4 DEF IsMachine
<1>8. count # 0
  BY <1>1, <1>2
<1>9. HeaderValid(env, count)
  BY <1>4, <1>5, <1>6, <1>7, <1>8 DEF HeaderValid, ParsesTimestamp
<1> QED BY <1>2, <1>9

\* So the decoder's answers to the engine are as promised.
LEMMA DecodeAccepts ==
    ASSUME DocumentInv, Decode, UNCHANGED engine
    PROVE  EngineRunsAccepted'
<1>1. cmd' = cmd /\ run' = run
  BY DEF engine
<1>2. DecoderInv /\ EngineInv
  BY DEF DocumentInv
<1>3. CASE cmd # "waiting"
  BY <1>1, <1>3 DEF EngineRunsAccepted
<1>4. CASE cmd = "waiting" /\ BadHeader
  <2>1. \/ run.results = <<>> \/ run.finished_at < run.started_at
        \/ run.machine.os = "" \/ run.machine.logical_cpus = 0
    BY <1>2, <1>4, HeadersAccepted
  <2> QED BY <1>1, <2>1 DEF EngineRunsAccepted
<1>5. CASE cmd = "waiting" /\ TooManyResults
  <2>1. phase = "results" /\ i < Len(Member.val) /\ i >= MaxResults /\ reply' = 413 /\ doc' = doc
    BY <1>5 DEF TooManyResults, InResults, Answer
  <2>2. i \in Nat /\ Len(Member.val) = Len(DocumentRows) /\ Len(DocumentRows) \in Nat
    BY <1>2, <2>1, ElementIsRow
  <2>3. Len(DocumentRows) > MaxResults
    BY <2>1, <2>2, MaxResultsAssumption
  <2>4. DocumentRows' = DocumentRows
    BY <2>1, SameDocument
  <2>5. Len(DocumentRows') > MaxResults
    BY <2>3, <2>4
  <2>6. (reply = 413 /\ Len(DocumentRows) > MaxResults)'
    BY <2>1, <2>5, Zenon
  <2> QED BY <2>6, Zenon DEF EngineRunsAccepted
<1>6. CASE cmd = "waiting" /\ ~BadHeader /\ ~TooManyResults
  <2>1. ~BadField /\ ~BadResult
    BY <1>2, <1>6, FieldsAccepted, ResultsAccepted
  <2>2. \/ phase' \in {"members", "results", "replay", "broken"}
        \/ reply' \in {200, 500}
    <3>1. CASE Field \/ OpenResults \/ BufferResult \/ HandResult \/ CloseResults \/ EndObject
               \/ Replay \/ BodyBreaks
      BY <3>1 DEF Field, OpenResults, BufferResult, HandResult, CloseResults, EndObject, Replay,
                  BodyBreaks, InMembers, GoodResult, InResults, Replaying
    <3>2. CASE ResultsNoArray \/ HandFails \/ \E status \in {200, 500} : Commit(status)
      BY <3>2 DEF ResultsNoArray, HandFails, Commit, Answer
    <3> QED BY <1>6, <2>1, <3>1, <3>2 DEF Decode
  <2>3. phase' # "answered" \/ ~(reply' \in {400, 413})
    BY <2>2
  <2> QED BY <2>3, Zenon DEF EngineRunsAccepted
<1> QED BY <1>3, <1>4, <1>5, <1>6

-----------------------------------------------------------------------------
(* The steps of the engine. *)

\* The chunks depend on the run and the options only.
LEMMA SameParts ==
    ASSUME run' = run, opts' = opts
    PROVE  ChunkCount' = ChunkCount /\ \A c : Part(c)' = Part(c)
<1>1. ChunkSize' = ChunkSize
  BY DEF ChunkSize
<1>2. ChunkCount' = ChunkCount
  BY <1>1 DEF ChunkCount
<1>3. ASSUME NEW c PROVE Part(c)' = Part(c)
  <2>1. Dumped(run)' = Dumped(run)
    BY Zenon
  <2> QED BY <1>1, <1>2, <2>1, Zenon DEF Part
<1> QED BY <1>2, <1>3

\* Writing, and giving up or ending, leaves the document as it is.
LEMMA EngineMovesOn ==
    ASSUME EngineInv, UNCHANGED <<run, opts, sent>>,
           \/ cmd' = "exited"
           \/ cmd \in {"write", "post"} /\ cmd' = "post"
    PROVE  EngineInv'
<1>1. ChunkCount' = ChunkCount
  BY SameParts
<1>2. CASE cmd' = "exited"
  BY <1>2 DEF EngineInv
<1>3. CASE cmd \in {"write", "post"} /\ cmd' = "post"
  BY <1>1, <1>3 DEF EngineInv
<1> QED BY <1>2, <1>3

\* Every step of the engine alone preserves the invariant, and none of them
\* waits for an answer.
LEMMA AloneInv ==
    ASSUME DocumentInv, Alone
    PROVE  EngineInv' /\ cmd' # "waiting"
<1>1. EngineInv
  BY DEF DocumentInv
<1>2. CASE RunBenchmarks
  <2>1. cmd' = "write" /\ UNCHANGED decoder
    BY <1>2 DEF RunBenchmarks, Alone
  <2> QED BY <1>2, <2>1, RunBenchmarksInv
<1>3. CASE UsageError \/ RunThrows \/ CannotWrite \/ BadUrl \/ Validate \/ Report
  <2>1. cmd' = "exited" /\ UNCHANGED <<run, opts, sent>>
    BY <1>3 DEF UsageError, RunThrows, CannotWrite, BadUrl, Validate, Report, Exits, Leave
  <2> QED BY <1>1, <2>1, EngineMovesOn
<1>4. CASE Write \/ SkipWrite
  <2>1. cmd = "write" /\ cmd' \in {"post", "exited"} /\ UNCHANGED <<run, opts, sent>>
    BY <1>4 DEF Write, SkipWrite, Exits, Leave
  <2> QED BY <1>1, <2>1, EngineMovesOn
<1> QED BY <1>2, <1>3, <1>4 DEF Alone

\* A chunk is sent as a well-formed document.
LEMMA PostInv ==
    ASSUME DocumentInv, Post
    PROVE  DecoderInv' /\ EngineInv' /\ phase' = "members"
<1>1. EngineInv
  BY DEF DocumentInv
<1>2. /\ cmd = "post" /\ cmd' = "waiting" /\ UNCHANGED <<run, opts, sent>>
      /\ Receive(Members(Part(sent), SentKeys(Part(sent))))
  BY DEF Post, Send
<1>3. PICK j : j = Part(sent)
  OBVIOUS
<1>4. IsDocument(j)
  BY <1>1, <1>2, <1>3, PartFacts DEF EngineInv
<1>5. PICK d : d = Members(j, SentKeys(j))
  OBVIOUS
<1>6. WellFormed(d)
  BY <1>4, <1>5, MembersFacts
<1>7. Receive(d)
  BY <1>2, <1>3, <1>5
<1>8. DecoderInv'
  BY <1>6, <1>7, ReceiveInv
<1>9. EngineInv'
  <2>1. ChunkCount' = ChunkCount /\ Part(sent)' = j
    <3>1. ChunkCount' = ChunkCount /\ \A c : Part(c)' = Part(c)
      BY <1>2, SameParts
    <3> QED BY <1>2, <1>3, <3>1
  <2>2. doc' = d
    BY <1>7 DEF Receive
  <2>3. (doc = Members(Part(sent), SentKeys(Part(sent))))'
    BY <1>5, <2>1, <2>2
  <2>4. (/\ IsDocument(run) /\ "summary" \in DOMAIN run /\ IsMachine(run.machine)
         /\ opts.chunk \in Nat /\ sent \in Nat /\ sent < ChunkCount)'
    BY <1>1, <1>2, <2>1 DEF EngineInv
  <2> QED BY <1>2, <2>3, <2>4 DEF EngineInv
<1>10. phase' = "members"
  BY <1>7 DEF Receive
<1> QED BY <1>8, <1>9, <1>10

\* An answer, or none, ends the run or leaves a chunk to send.
LEMMA ReplyInv ==
    ASSUME DocumentInv, Reply \/ Lose
    PROVE  EngineInv' /\ cmd' # "waiting"
<1>1. EngineInv /\ cmd = "waiting"
  BY DEF DocumentInv, Reply, Lose, Answered, TransportFails
<1>2. CASE Lose
  <2>1. cmd' = "exited" /\ UNCHANGED <<run, opts, sent>>
    BY <1>2 DEF Lose, TransportFails, Leave, Exits
  <2> QED BY <1>1, <2>1, EngineMovesOn
<1>3. CASE Reply
  <2>1. /\ UNCHANGED <<run, opts>> /\ sent' = sent + 1
        /\ \/ cmd' = "exited"
           \/ cmd' = "post" /\ sent + 1 # ChunkCount
    BY <1>3 DEF Reply, Answered, Leave, Exits
  <2>2. ChunkCount' = ChunkCount
    BY <2>1, SameParts
  <2>3. CASE cmd' = "exited"
    BY <2>3 DEF EngineInv
  <2>4. CASE cmd' = "post" /\ sent + 1 # ChunkCount
    <3>1. /\ IsDocument(run) /\ "summary" \in DOMAIN run /\ IsMachine(run.machine)
          /\ opts.chunk \in Nat /\ sent \in Nat /\ sent < ChunkCount
      BY <1>1 DEF EngineInv
    <3>2. ChunkCount \in Nat
      BY <3>1, ChunksPositive DEF IsDocument
    <3>3. sent + 1 \in Nat /\ sent + 1 < ChunkCount
      BY <2>2, <2>4, <3>1, <3>2
    <3> QED BY <2>1, <2>2, <2>4, <3>1, <3>3 DEF EngineInv
  <2> QED BY <2>1, <2>3, <2>4
<1> QED BY <1>2, <1>3

\* What is unchanged keeps the invariant.
LEMMA EngineKept ==
    ASSUME EngineInv, UNCHANGED engine, doc' = doc \/ cmd # "waiting"
    PROVE  EngineInv'
<1>1. cmd' = cmd /\ run' = run /\ opts' = opts /\ sent' = sent
  BY DEF engine
<1>2. ChunkCount' = ChunkCount /\ Part(sent)' = Part(sent)
  <2>1. ChunkCount' = ChunkCount /\ \A c : Part(c)' = Part(c)
    BY <1>1, SameParts
  <2> QED BY <1>1, <2>1
<1>3. (cmd = "start" => opts \in OptionSets /\ sent = 0)'
  BY <1>1 DEF EngineInv
<1>4. (cmd \in {"write", "post", "waiting"} =>
          /\ IsDocument(run) /\ "summary" \in DOMAIN run /\ IsMachine(run.machine)
          /\ opts.chunk \in Nat /\ sent \in Nat /\ sent < ChunkCount)'
  BY <1>1, <1>2 DEF EngineInv
<1>5. (cmd = "waiting" => doc = Members(Part(sent), SentKeys(Part(sent))))'
  BY <1>1, <1>2 DEF EngineInv
<1> QED BY <1>3, <1>4, <1>5 DEF EngineInv

-----------------------------------------------------------------------------
(* The theorems. *)

\* The decoder's and the engine's invariants hold throughout: every step of
\* either keeps both.
THEOREM Invariance == Spec => []DocumentInv
<1>1. Init => DocumentInv
  <2> SUFFICES ASSUME Init PROVE DocumentInv
    OBVIOUS
  <2>1. /\ doc = <<>> /\ phase = "idle" /\ at = 1 /\ i = 0 /\ env = NoHeader /\ taken = <<>>
        /\ buffered = <<>> /\ count = 0 /\ handed = <<>> /\ reply = 0
    BY DEF Init, DecoderInit
  <2>2. WellFormed(doc) /\ Len(doc) = 0 /\ DOMAIN doc = {}
    BY <2>1 DEF WellFormed, IsList
  <2>3. DecoderTypeOK
    BY <2>1, <2>2 DEF DecoderTypeOK
  <2>4. HeaderInv
    BY <2>1, <2>2 DEF HeaderInv
  <2>5. MembersInv /\ ResultsInv /\ ReplayInv
    BY <2>1 DEF MembersInv, ResultsInv, ReplayInv
  <2>6. AnswerInv
    <3>1. 0 \in 0..Len(DocumentRows)
      BY <2>2, RowsAreList
    <3>2. FirstRows(0) = <<>>
      BY <2>2, <3>1, FirstRowsFacts
    <3> QED BY <2>1, <3>1, <3>2 DEF AnswerInv
  <2>7. EngineInv
    BY DEF Init, CommandInit, ForeignInit, EngineInv
  <2>8. EngineRunsAccepted
    BY <2>1 DEF EngineRunsAccepted
  <2> QED BY <2>3, <2>4, <2>5, <2>6, <2>7, <2>8 DEF DocumentInv, DecoderInv
<1>2. DocumentInv /\ [Next]_vars => DocumentInv'
  <2> SUFFICES ASSUME DocumentInv, [Next]_vars PROVE DocumentInv'
    OBVIOUS
  <2>0. DecoderInv /\ EngineInv /\ EngineRunsAccepted
    BY DEF DocumentInv
  <2>1. ASSUME UNCHANGED decoder PROVE DecoderInv'
    <3>1. UNCHANGED <<doc, phase, at, i, env, taken, buffered, count, handed, reply>>
      BY <2>1 DEF decoder
    <3> QED BY <2>0, <3>1, SameDecoder
  <2>2. ASSUME cmd' # "waiting" \/ phase' # "answered" PROVE EngineRunsAccepted'
    BY <2>2 DEF EngineRunsAccepted
  <2>3. CASE Alone
    <3>1. UNCHANGED decoder
      BY <2>3 DEF Alone
    <3> QED BY <2>1, <2>2, <2>3, <3>1, AloneInv DEF DocumentInv
  <2>4. CASE Post
    BY <2>2, <2>4, PostInv DEF DocumentInv
  <2>5. CASE Reply \/ Lose
    <3>1. UNCHANGED decoder
      BY <2>5 DEF Reply, Lose
    <3> QED BY <2>1, <2>2, <2>5, <3>1, ReplyInv DEF DocumentInv
  <2>6. ASSUME NEW d \in ForeignDocuments, ForeignPost(d) PROVE DocumentInv'
    <3>1. cmd = "foreign" /\ Receive(d) /\ UNCHANGED engine /\ phase' = "members"
      BY <2>6 DEF ForeignPost, Receive
    <3>2. DecoderInv'
      BY <3>1, DocumentsAssumption, ReceiveInv
    <3>3. EngineInv'
      BY <2>0, <3>1, EngineKept
    <3> QED BY <2>2, <3>1, <3>2, <3>3 DEF DocumentInv
  <2>7. CASE Decode /\ UNCHANGED engine
    <3>1. DecoderInv'
      BY <2>0, <2>7, DecodeInv
    <3>2. doc' = doc
      BY <2>7 DEF Decode, Field, BadField, ResultsNoArray, OpenResults, TooManyResults, BadResult,
                  BufferResult, HandResult, CloseResults, EndObject, Replay, HandFails, BadHeader,
                  Commit, BodyBreaks, Answer
    <3>3. EngineInv'
      BY <2>0, <2>7, <3>2, EngineKept
    <3>4. EngineRunsAccepted'
      BY <2>7, DecodeAccepts
    <3> QED BY <3>1, <3>3, <3>4 DEF DocumentInv
  <2>8. CASE UNCHANGED vars
    <3>1. UNCHANGED decoder /\ UNCHANGED engine
      BY <2>8 DEF vars
    <3>2. doc' = doc /\ cmd' = cmd /\ run' = run /\ phase' = phase /\ reply' = reply
      BY <3>1 DEF decoder, engine
    <3>3. DocumentRows' = DocumentRows
      BY <3>2, SameDocument
    <3>4. EngineRunsAccepted'
      <4>1. CASE ~(cmd = "waiting" /\ phase = "answered" /\ reply \in {400, 413})
        <5>1. ~(cmd' = "waiting" /\ phase' = "answered" /\ reply' \in {400, 413})
          BY <3>2, <4>1
        <5> QED BY <5>1 DEF EngineRunsAccepted
      <4>2. CASE run.results = <<>> \/ run.finished_at < run.started_at
        BY <3>2, <4>2, Zenon DEF EngineRunsAccepted
      <4>3. CASE run.machine.os = "" \/ run.machine.logical_cpus = 0
        BY <3>2, <4>3, Zenon DEF EngineRunsAccepted
      <4>4. CASE reply = 413 /\ Len(DocumentRows) > MaxResults
        BY <3>2, <3>3, <4>4, Zenon DEF EngineRunsAccepted
      <4>5. \/ ~(cmd = "waiting" /\ phase = "answered" /\ reply \in {400, 413})
            \/ run.results = <<>> \/ run.finished_at < run.started_at
            \/ run.machine.os = "" \/ run.machine.logical_cpus = 0
            \/ reply = 413 /\ Len(DocumentRows) > MaxResults
        BY <2>0, Zenon DEF EngineRunsAccepted
      <4> QED BY <4>1, <4>2, <4>3, <4>4, <4>5, Zenon
    <3> QED BY <2>0, <2>1, <3>1, <3>2, <3>4, EngineKept DEF DocumentInv
  <2> QED BY <2>3, <2>4, <2>5, <2>6, <2>7, <2>8 DEF Next
<1> QED BY <1>1, <1>2, PTL DEF Spec

\* The store is handed the results of a document in its order, and under 200
\* all of them: HandedInOrder, for documents of any length with their members
\* in any order.
THEOREM ResultsInOrder == Spec => []HandedInOrder
<1>1. DocumentInv => HandedInOrder
  BY InvHandsInOrder DEF DocumentInv
<1> QED BY <1>1, Invariance, PTL

\* The stream decoder accepts no document that would be refused if it were read
\* whole: OkMeansValid.
THEOREM AcceptsOnlyValid == Spec => []OkMeansValid
<1>1. DocumentInv => OkMeansValid
  BY InvOkMeansValid DEF DocumentInv
<1> QED BY <1>1, Invariance, PTL

\* No run of the engine is refused but for the reasons EngineRunsAccepted names,
\* whatever the options, the machine, the trials made and the size of a chunk.
THEOREM EngineIsAccepted == Spec => []EngineRunsAccepted
<1>1. DocumentInv => EngineRunsAccepted
  BY DEF DocumentInv
<1> QED BY <1>1, Invariance, PTL

\* No two rows of a run take the same place in the store, riders included, for
\* any options that repeat no setting: NoRowShadowed.  A run never changes, so it
\* is what run_benchmarks() makes that counts.
THEOREM RowsAreDistinct == Spec => []NoRowShadowed
<1>1. Init => NoRowShadowed
  BY DEF Init, CommandInit, ForeignInit, NoRowShadowed
<1>2. DocumentInv /\ NoRowShadowed /\ [Next]_vars => NoRowShadowed'
  <2> SUFFICES ASSUME DocumentInv, NoRowShadowed, [Next]_vars
               PROVE  NoRowShadowed'
    OBVIOUS
  <2>1. CASE UNCHANGED <<specs, run>>
    <3>1. SettingsDistinct' <=> SettingsDistinct
      BY <2>1 DEF SettingsDistinct
    <3>2. {KeyOf(run.results[k]) : k \in DOMAIN run.results}'
             = {KeyOf(run.results[k]) : k \in DOMAIN run.results}
      BY <2>1
    <3> QED BY <2>1, <3>1, <3>2 DEF NoRowShadowed
  <2>2. CASE RunBenchmarks
    <3> DEFINE sps == Specs(opts)
    <3>1. opts \in OptionSets /\ ~Refused(opts) /\ ~OutOfRange(opts) /\ specs' = sps
      BY <2>2 DEF RunBenchmarks, DocumentInv, EngineInv
    <3>2. PICK probe \in Probes, sample \in [1..opts.trials -> Samples], finished \in Clocks,
               counts \in TrialCounts(opts, sps) :
             run' = ToJson(opts, MachineInfo(probe), sps, counts, sample, finished)
      BY <2>2 DEF RunBenchmarks
    <3>3. IsList(sps) /\ \A k \in DOMAIN sps : IsSpec(sps[k])
      BY <3>1, SpecsFacts
    <3>4. opts.trials \in Nat /\ \A k \in DOMAIN sps : counts[k] \in 0..opts.trials
      BY <3>1, CountsFacts
    <3> HIDE DEF sps
    <3>5. \A k \in DOMAIN sps : counts[k] \in Nat /\ \A t \in 1..counts[k] : sample[t] \in Samples
      BY <3>4
    <3>6. PICK machine : machine = MachineInfo(probe)
      OBVIOUS
    <3>7. PICK rows : rows = ToJson(opts, machine, sps, counts, sample, finished).results
      OBVIOUS
    <3>8. run'.results = rows
      BY <3>2, <3>6, <3>7
    <3>9. ASSUME SettingsDistinct'
          PROVE  Cardinality({KeyOf(rows[k]) : k \in DOMAIN rows}) = Len(rows)
      <4>1. \A a, b \in DOMAIN sps : a # b =>
               <<sps[a].metrics[1], sps[a].threads, sps[a].ws>>
                   # <<sps[b].metrics[1], sps[b].threads, sps[b].ws>>
        BY <3>1, <3>9 DEF SettingsDistinct
      <4>2. /\ IsList(sps) /\ \A k \in DOMAIN sps : IsSpec(sps[k])
            /\ \A k \in DOMAIN sps : counts[k] \in Nat
            /\ \A k \in DOMAIN sps : \A t \in 1..counts[k] : sample[t] \in Samples
        BY <3>3, <3>5
      <4>3. PICK o, c, u : o = opts /\ c = counts /\ u = sample
        OBVIOUS
      <4>4. rows = ToJson(o, machine, sps, c, u, finished).results
        BY <3>7, <4>3
      <4>5. /\ \A k \in DOMAIN sps : c[k] \in Nat
            /\ \A k \in DOMAIN sps : \A t \in 1..c[k] : u[t] \in Samples
        BY <4>2, <4>3
      <4> QED BY <4>1, <4>2, <4>4, <4>5, KeysApart
    <3> QED BY <3>8, <3>9 DEF NoRowShadowed
  <2>3. CASE [Next]_vars /\ ~RunBenchmarks
    <3>1. ASSUME Alone PROVE UNCHANGED <<specs, run>>
      BY <2>3, <3>1 DEF Alone, UsageError, RunThrows, Write, CannotWrite, SkipWrite, BadUrl, Validate, Report
    <3>2. ASSUME Post \/ Reply \/ Lose PROVE UNCHANGED <<specs, run>>
      BY <3>2 DEF Post, Reply, Lose, Send, Answered, TransportFails
    <3>3. ASSUME UNCHANGED engine PROVE UNCHANGED <<specs, run>>
      BY <3>3 DEF engine
    <3>4. \/ Alone \/ Post \/ Reply \/ Lose
          \/ UNCHANGED engine
      BY <2>3 DEF Next, vars, ForeignPost
    <3>5. UNCHANGED <<specs, run>>
      BY <3>1, <3>2, <3>3, <3>4
    <3> QED BY <2>1, <3>5
  <2> QED BY <2>2, <2>3
<1> QED BY <1>1, <1>2, Invariance, PTL DEF Spec

\* What the engine has made is sound, and its checks have been told so.
ValidInv ==
    /\ cmd \in {"write", "post", "waiting"} \/ file # "none" => SoundRun(run)
    /\ cmd = "start" => file = "none"
    /\ cmd # "exited" => checked = [validate |-> -1, report |-> -1]
    /\ rc \in {0, 1} /\ exit # 2 /\ DOMAIN checked = {"validate", "report"}
    /\ SelfValidation

\* Every way out of a run with a document leaves with the code it was to have.
LEMMA LeaveKeeps ==
    ASSUME ValidInv, cmd \in {"write", "post", "waiting"}, NEW code, Leave(code)
    PROVE  cmd' = "exited" /\ exit' = code
<1>1. ValidateRun(run)
  BY DEF ValidInv, SoundRun
<1> QED BY <1>1 DEF Leave, Exits

\* A step that neither makes nor checks a document keeps the invariant.
LEMMA ValidMovesOn ==
    ASSUME ValidInv, run' = run, checked' = checked, rc' \in {0, 1}, exit' # 2,
           cmd' # "start" \/ cmd' = cmd,
           cmd' = "exited" \/ cmd # "exited",
           cmd' \in {"write", "post", "waiting"} => cmd \in {"write", "post", "waiting"},
           file' = file \/ cmd = "write"
    PROVE  ValidInv'
<1>1. (cmd \in {"write", "post", "waiting"} \/ file # "none" => SoundRun(run))'
  BY DEF ValidInv
<1>2. (cmd = "start" => file = "none")'
  BY DEF ValidInv
<1>3. (cmd # "exited" => checked = [validate |-> -1, report |-> -1])'
  BY DEF ValidInv
<1>4. (rc \in {0, 1} /\ exit # 2 /\ DOMAIN checked = {"validate", "report"})'
  BY DEF ValidInv
<1>5. SelfValidation'
  <2>1. CASE file' = file
    BY <2>1 DEF ValidInv, SelfValidation
  <2>2. CASE cmd = "write"
    <3>1. checked.validate = -1 /\ checked.report = -1
      BY <2>2 DEF ValidInv
    <3> QED BY <3>1 DEF SelfValidation
  <2> QED BY <2>1, <2>2
<1> QED BY <1>1, <1>2, <1>3, <1>4, <1>5 DEF ValidInv

\* What `bench run` writes validates and reports: SelfValidation, for any options
\* and machine and whatever the trials measured.
THEOREM RunsValidate == Spec => []SelfValidation
<1>1. Init => ValidInv
  BY DEF Init, CommandInit, ForeignInit, ValidInv, SelfValidation
<1>2. DocumentInv /\ ValidInv /\ [Next]_vars => ValidInv'
  <2> SUFFICES ASSUME DocumentInv, ValidInv, [Next]_vars PROVE ValidInv'
    OBVIOUS
  <2>0. rc \in {0, 1} /\ exit # 2
    BY DEF ValidInv
  <2>1. CASE UsageError \/ RunThrows
    <3>1. cmd' = "exited" /\ exit' # 2 /\ UNCHANGED <<run, file, rc, checked>>
      BY <2>1 DEF UsageError, RunThrows, Exits
    <3> QED BY <2>0, <3>1, ValidMovesOn
  <2>2. CASE RunBenchmarks
    <3>1. opts \in OptionSets /\ ~Refused(opts) /\ ~OutOfRange(opts)
      BY <2>2 DEF RunBenchmarks, DocumentInv, EngineInv
    <3>2. PICK probe \in Probes, sample \in [1..opts.trials -> Samples], finished \in Clocks,
               counts \in TrialCounts(opts, Specs(opts)) :
             run' = ToJson(opts, MachineInfo(probe), Specs(opts), counts, sample, finished)
      BY <2>2 DEF RunBenchmarks
    <3>3. PICK machine : machine = MachineInfo(probe)
      OBVIOUS
    <3>4. CheckMachine(machine)
      BY <3>3, MachineChecked
    <3>5. SoundRun(run')
      <4>1. SoundRun(ToJson(opts, machine, Specs(opts), counts, sample, finished))
        BY <3>1, <3>4, JsonChecked
      <4> QED BY <3>2, <3>3, <4>1
    <3>6. cmd = "start" /\ cmd' = "write" /\ UNCHANGED <<file, rc, exit, checked>>
      BY <2>2 DEF RunBenchmarks
    <3>7. file = "none" /\ checked = [validate |-> -1, report |-> -1]
      BY <3>6 DEF ValidInv
    <3>8. SelfValidation'
      BY <2>0, <3>6, <3>7 DEF SelfValidation
    <3> QED BY <2>0, <3>5, <3>6, <3>7, <3>8 DEF ValidInv
  <2>3. CASE Write \/ SkipWrite
    <3>1. cmd = "write" /\ UNCHANGED <<run, rc, checked>>
      BY <2>3 DEF Write, SkipWrite
    <3>2. cmd' \in {"post", "exited"} /\ exit' # 2
      <4>1. \/ cmd' = "post" /\ exit' = exit
            \/ Leave(0)
        BY <2>3 DEF Write, SkipWrite
      <4>2. CASE Leave(0)
        <5>1. cmd' = "exited" /\ exit' = 0
          BY <3>1, <4>2, LeaveKeeps
        <5> QED BY <5>1
      <4> QED BY <2>0, <4>1, <4>2
    <3> QED BY <2>0, <3>1, <3>2, ValidMovesOn
  <2>4. CASE CannotWrite \/ BadUrl \/ TransportFails
    <3>1. /\ cmd \in {"write", "post", "waiting"} /\ UNCHANGED <<run, file, checked>>
          /\ rc' = 1 /\ Leave(1)
      BY <2>4 DEF CannotWrite, BadUrl, TransportFails
    <3>2. cmd' = "exited" /\ exit' = 1
      BY <3>1, LeaveKeeps
    <3> QED BY <3>1, <3>2, ValidMovesOn
  <2>5. CASE Send
    <3>1. cmd = "post" /\ cmd' = "waiting" /\ UNCHANGED <<run, file, rc, exit, checked>>
      BY <2>5 DEF Send
    <3> QED BY <2>0, <3>1, ValidMovesOn
  <2>6. ASSUME NEW status, Answered(status) PROVE ValidInv'
    <3>1. cmd = "waiting" /\ UNCHANGED <<run, file, checked>> /\ rc' \in {0, 1}
      BY <2>0, <2>6 DEF Answered
    <3>2. cmd' \in {"post", "exited"} /\ exit' # 2
      <4>1. \/ cmd' = "post" /\ exit' = exit
            \/ Leave(rc')
        BY <2>6 DEF Answered
      <4>2. CASE Leave(rc')
        <5>1. PICK code : code = rc'
          OBVIOUS
        <5>2. Leave(code)
          BY <4>2, <5>1
        <5>3. cmd' = "exited" /\ exit' = code
          BY <3>1, <5>2, LeaveKeeps
        <5> QED BY <3>1, <5>1, <5>3
      <4> QED BY <2>0, <4>1, <4>2
    <3> QED BY <3>1, <3>2, ValidMovesOn
  <2>7. CASE Validate \/ Report
    <3>1. /\ cmd = "exited" /\ cmd' = "exited" /\ file # "none"
          /\ UNCHANGED <<run, file, rc, exit>>
      BY <2>7 DEF Validate, Report
    <3>2. ValidateRun(Dumped(run)) /\ (run.summary = <<>> => run.results = <<>>) /\ SoundRun(run)
      BY <3>1 DEF ValidInv, SoundRun
    <3>3. DOMAIN checked = {"validate", "report"}
      BY DEF ValidInv
    <3>4. DOMAIN checked' = {"validate", "report"}
      BY <2>7, <3>3 DEF Validate, Report
    <3>5. ASSUME file = "whole"
          PROVE  /\ checked'.validate \in {-1, 0} /\ checked'.report # 2
                 /\ checked'.report = 1 => run.results = <<>>
      <4>1. /\ checked.validate \in {-1, 0} /\ checked.report # 2
            /\ checked.report = 1 => run.results = <<>>
        BY <3>5 DEF ValidInv, SelfValidation
      <4>2. CASE Validate
        <5>1. checked'.validate = 0 /\ checked'.report = checked.report
          BY <3>2, <3>3, <3>5, <4>2 DEF Validate
        <5> QED BY <4>1, <5>1
      <4>3. CASE Report
        <5>1. /\ checked'.validate = checked.validate
              /\ checked'.report = IF run.summary = <<>> THEN 1 ELSE 0
          BY <3>2, <3>3, <3>5, <4>3 DEF Report
        <5> QED BY <3>2, <4>1, <5>1
      <4> QED BY <2>7, <4>2, <4>3
    <3>6. SelfValidation'
      BY <2>0, <3>1, <3>5 DEF SelfValidation
    <3> QED BY <2>0, <3>1, <3>2, <3>4, <3>6 DEF ValidInv
  <2>8. CASE UNCHANGED engine
    <3>1. UNCHANGED <<cmd, run, file, rc, exit, checked>>
      BY <2>8 DEF engine
    <3> QED BY <2>0, <3>1, ValidMovesOn
  <2> QED BY <2>1, <2>2, <2>3, <2>4, <2>5, <2>6, <2>7, <2>8
          DEF Next, Alone, Post, Reply, Lose, ForeignPost, vars
<1>3. ValidInv => SelfValidation
  BY DEF ValidInv
<1> QED BY <1>1, <1>2, <1>3, Invariance, PTL DEF Spec

=============================================================================
