------------------------- MODULE SpinBarrierProofs -------------------------
(***************************************************************************)
(* SpinBarrier is a barrier, for every finite set of participants and for  *)
(* every width of the generation counter.                                  *)
(***************************************************************************)
EXTENDS SpinBarrier, FiniteSetTheorems, TLAPS

Missing == {p \in Procs : ~Arrived(p)}

\* n_ and the number of missing participants are natural numbers; no
\* participant is missing exactly when that number is zero.
LEMMA MissingCount ==
    ASSUME NEW S \in SUBSET Procs
    PROVE  /\ n \in Nat \ {0}
           /\ IsFiniteSet(S)
           /\ Cardinality(S) \in 0..n
           /\ Cardinality(S) = 0 <=> S = {}
<1>1. IsFiniteSet(Procs) /\ Procs # {}
  BY ProcsAssumption
<1>2. IsFiniteSet(S) /\ Cardinality(S) <= n
  BY <1>1, FS_Subset DEF n
<1>3. n \in Nat /\ n # 0
  BY <1>1, FS_CardinalityType, FS_EmptySet DEF n
<1>4. Cardinality(S) \in Nat /\ (Cardinality(S) = 0 <=> S = {})
  BY <1>2, FS_CardinalityType, FS_EmptySet
<1> QED BY <1>2, <1>3, <1>4

\* The modulus is at least two, so a bump always changes the generation.
LEMMA BumpChanges ==
    ASSUME NEW g \in 0..(Modulus - 1)
    PROVE  /\ (g + 1) % Modulus \in 0..(Modulus - 1)
           /\ (g + 1) % Modulus # g
BY ModulusAssumption, SMT

\* The initial state satisfies the invariant: everybody is missing.
LEMMA InitIInv == Init => IInv
<1> SUFFICES ASSUME Init PROVE IInv
  OBVIOUS
<1>1. n \in Nat \ {0} /\ Modulus \in Nat /\ Modulus >= 2
  BY MissingCount, ModulusAssumption
<1>2. \A p \in Procs : pc[p] = "outside"
  BY DEF Init
<1>3. TypeOK
  <2>1. n \in 0..n /\ 0 \in 0..(Modulus - 1)
    BY <1>1
  <2> QED BY <2>1 DEF Init, TypeOK, PCs
<1>4. GenCurrent /\ LeaderCount /\ SoleLeader
  BY <1>2 DEF GenCurrent, LeaderCount, SoleLeader, Leading
<1>5. {p \in Procs : ~Arrived(p)} = Procs
  BY <1>2 DEF Arrived, Leading
<1>6. CountIsMissing
  BY <1>5 DEF CountIsMissing, Init, n
<1> QED BY <1>3, <1>4, <1>6 DEF IInv

\* Loading the generation does not make anybody arrive.
LEMMA LoadStep ==
    ASSUME IInv, NEW p \in Procs, LoadGeneration(p)
    PROVE  IInv' /\ Missing' = Missing
<1> USE DEF IInv, LoadGeneration
<1>1. TypeOK'
  BY DEF TypeOK, PCs
<1>2. \A q \in Procs : /\ pc'[q] = IF q = p THEN "decrement" ELSE pc[q]
                       /\ gen'[q] = IF q = p THEN generation ELSE gen[q]
  BY DEF TypeOK
<1>3. \A q \in Procs : /\ Leading(q)' <=> Leading(q)
                       /\ Arrived(q)' <=> Arrived(q)
  BY <1>2 DEF Leading, Arrived
<1>4. GenCurrent' /\ LeaderCount'
  BY <1>2 DEF GenCurrent, LeaderCount
<1>5. SoleLeader'
  BY <1>3 DEF SoleLeader
<1>6. Missing' = Missing
  BY <1>3 DEF Missing
<1>7. CountIsMissing'
  BY <1>3, <1>6 DEF CountIsMissing, Missing
<1> QED BY <1>1, <1>4, <1>5, <1>6, <1>7

\* The decrement removes exactly this thread from the missing ones, and finds
\* 1 in count_ exactly when nobody else is missing.
LEMMA DecrementStep ==
    ASSUME IInv, NEW p \in Procs, Decrement(p)
    PROVE  IInv' /\ p \in Missing /\ Missing' = Missing \ {p}
<1> USE DEF IInv, Decrement
<1>1. ~Arrived(p) /\ \A q \in Procs : ~Leading(q)
  BY DEF SoleLeader, Arrived, Leading
<1>2. p \in Missing /\ count = Cardinality(Missing)
  BY <1>1 DEF CountIsMissing, Missing
<1>3. /\ IsFiniteSet(Missing)
      /\ Cardinality(Missing \ {p}) = count - 1
      /\ count \in 1..n
      /\ count = 1 <=> Missing \ {p} = {}
  <2>1. Missing \in SUBSET Procs /\ (Missing \ {p}) \in SUBSET Procs
    BY DEF Missing
  <2>2. IsFiniteSet(Missing) /\ count \in 0..n /\ count # 0 /\ n \in Nat
    BY <2>1, <1>2, MissingCount
  <2>3. Cardinality(Missing \ {p}) = count - 1
    BY <2>2, <1>2, FS_RemoveElement
  <2>4. Cardinality(Missing \ {p}) = 0 <=> Missing \ {p} = {}
    BY <2>1, MissingCount
  <2> QED BY <2>2, <2>3, <2>4
<1>4. /\ pc'[p] = IF count = 1 THEN "complete" ELSE "spin"
      /\ gen'[p] = gen[p] /\ generation' = generation
      /\ \A q \in Procs \ {p} : pc'[q] = pc[q] /\ gen'[q] = gen[q]
  BY DEF TypeOK
<1>5. TypeOK'
  BY <1>3, MissingCount DEF TypeOK, PCs
<1>6. gen[p] = generation
  BY DEF GenCurrent
<1>7. /\ Arrived(p)' 
      /\ Leading(p)' <=> count = 1
      /\ \A q \in Procs \ {p} : /\ Leading(q)' <=> Leading(q)
                                /\ Arrived(q)' <=> Arrived(q)
  BY <1>4, <1>6 DEF Leading, Arrived
<1>8. Missing' = Missing \ {p}
  BY <1>7 DEF Missing
<1>9. GenCurrent'
  BY <1>4, <1>6 DEF GenCurrent
<1>10. LeaderCount'
  <2> SUFFICES ASSUME NEW q \in Procs
               PROVE  /\ pc'[q] \in {"complete", "reset"} => count' = 0
                      /\ pc'[q] = "bump" => count' = n
                      /\ pc'[q] \in {"reset", "bump"} => stamped'
    BY DEF LeaderCount
  <2>1. CASE q = p
    BY <2>1, <1>3, <1>4
  <2>2. CASE q # p
    BY <2>2, <1>1, <1>4 DEF Leading
  <2> QED BY <2>1, <2>2
<1>11. SoleLeader'
  <2> SUFFICES ASSUME NEW q \in Procs, Leading(q)'
               PROVE  \A r \in Procs : Arrived(r)' /\ (Leading(r)' => r = q)
    BY DEF SoleLeader
  <2>1. q = p /\ count = 1
    BY <1>1, <1>7
  <2>2. \A r \in Procs \ {p} : Arrived(r)
    BY <2>1, <1>3 DEF Missing
  <2> QED BY <2>1, <2>2, <1>1, <1>7
<1>12. CountIsMissing'
  BY <1>3, <1>8 DEF CountIsMissing, Missing
<1> QED BY <1>2, <1>5, <1>8, <1>9, <1>10, <1>11, <1>12

\* Running the completion and restoring the count keep everybody inside.
LEMMA LeaderStep ==
    ASSUME IInv, NEW p \in Procs, Complete(p) \/ Reset(p)
    PROVE  IInv' /\ Missing' = Missing
<1> USE DEF IInv, Complete, Reset
<1>1. n \in Nat /\ n \in 0..n
  BY MissingCount
<1>2. TypeOK'
  BY <1>1 DEF TypeOK, PCs
<1>3. /\ pc'[p] = IF pc[p] = "complete" THEN "reset" ELSE "bump"
      /\ \A q \in Procs \ {p} : pc'[q] = pc[q]
      /\ gen' = gen /\ generation' = generation
  BY DEF TypeOK
<1>4. Leading(p) /\ \A q \in Procs : Arrived(q) /\ (Leading(q) => q = p)
  BY DEF SoleLeader, Leading
<1>5. \A q \in Procs : /\ Leading(q)' <=> Leading(q)
                       /\ Arrived(q)' <=> Arrived(q)
  BY <1>3, <1>4 DEF Leading, Arrived
<1>6. GenCurrent'
  BY <1>3, <1>4 DEF GenCurrent, Leading
<1>7. LeaderCount'
  <2>1. \A q \in Procs \ {p} : pc'[q] \notin {"complete", "reset", "bump"}
    BY <1>3, <1>4 DEF Leading
  <2>2. pc[p] = "complete" => count' = 0 /\ stamped'
    BY DEF LeaderCount
  <2>3. pc[p] # "complete" => count' = n /\ stamped'
    BY DEF LeaderCount
  <2> QED BY <2>1, <2>2, <2>3, <1>3 DEF LeaderCount
<1>8. SoleLeader'
  BY <1>5 DEF SoleLeader
<1>9. Missing' = Missing
  BY <1>5 DEF Missing
<1>10. CountIsMissing'
  BY <1>4, <1>5 DEF CountIsMissing
<1> QED BY <1>2, <1>6, <1>7, <1>8, <1>9, <1>10

\* The bump finds everybody inside and releases everybody.
LEMMA BumpStep ==
    ASSUME IInv, NEW p \in Procs, Bump(p)
    PROVE  IInv' /\ Missing = {} /\ Missing' = Procs /\ stamped
<1> USE DEF IInv, Bump
<1>1. Leading(p) /\ \A q \in Procs : Arrived(q) /\ (Leading(q) => q = p)
  BY DEF SoleLeader, Leading
<1>2. Missing = {} /\ count = n /\ stamped
  BY <1>1 DEF Missing, LeaderCount
<1>3. /\ pc'[p] = "spin"
      /\ \A q \in Procs : pc'[q] = "spin"
      /\ gen' = gen
  BY <1>1 DEF TypeOK, Leading, Arrived
<1>4. /\ generation' \in 0..(Modulus - 1) /\ generation' # generation
  BY BumpChanges DEF TypeOK
<1>5. \A q \in Procs : gen[q] = generation
  BY <1>1 DEF Arrived, GenCurrent, Leading
<1>6. \A q \in Procs : ~Leading(q)' /\ ~Arrived(q)'
  BY <1>3, <1>4, <1>5 DEF Leading, Arrived
<1>7. TypeOK'
  BY <1>4 DEF TypeOK, PCs
<1>8. Missing' = Procs
  BY <1>6 DEF Missing
<1>9. GenCurrent' /\ LeaderCount'
  BY <1>3 DEF GenCurrent, LeaderCount
<1>10. SoleLeader'
  BY <1>6 DEF SoleLeader
<1>11. CountIsMissing'
  BY <1>2, <1>8 DEF CountIsMissing, Missing, n
<1> QED BY <1>2, <1>7, <1>8, <1>9, <1>10, <1>11

\* A thread that leaves the spin loop had been released before.
LEMMA LeaveStep ==
    ASSUME IInv, NEW p \in Procs, Leave(p)
    PROVE  IInv' /\ Missing' = Missing
<1> USE DEF IInv, Leave
<1>1. TypeOK'
  BY DEF TypeOK, PCs
<1>2. /\ \A q \in Procs : pc'[q] = IF q = p THEN "outside" ELSE pc[q]
      /\ gen' = gen /\ generation' = generation
  BY DEF TypeOK
<1>3. \A q \in Procs : /\ Leading(q)' <=> Leading(q)
                       /\ Arrived(q)' <=> Arrived(q)
  BY <1>2 DEF Leading, Arrived
<1>4. GenCurrent' /\ LeaderCount'
  BY <1>2 DEF GenCurrent, LeaderCount
<1>5. SoleLeader'
  BY <1>3 DEF SoleLeader
<1>6. Missing' = Missing
  BY <1>3 DEF Missing
<1>7. CountIsMissing'
  BY <1>3, <1>6 DEF CountIsMissing, Missing
<1> QED BY <1>1, <1>4, <1>5, <1>6, <1>7

\* Every step preserves the invariant.
LEMMA NextIInv == IInv /\ [Next]_vars => IInv'
<1> SUFFICES ASSUME IInv, [Next]_vars PROVE IInv'
  OBVIOUS
<1>1. CASE UNCHANGED vars
  BY <1>1 DEF vars, IInv, TypeOK, GenCurrent, LeaderCount, SoleLeader,
              CountIsMissing, Leading, Arrived
<1>2. CASE Next
  <2> PICK p \in Procs : LoadGeneration(p) \/ Proceed(p)
    BY <1>2 DEF Next
  <2> QED BY LoadStep, DecrementStep, LeaderStep, BumpStep, LeaveStep DEF Proceed
<1> QED BY <1>1, <1>2

\* The invariant holds in every reachable state.
THEOREM Invariance == Spec => []IInv
BY InitIInv, NextIInv, PTL DEF Spec

\* count_, generation_ and the program counters stay in their types for any
\* number of participants: count_ never goes below zero.
THEOREM TypeCorrect == Spec => []TypeOK
BY Invariance, PTL DEF IInv

\* At most one thread completes a phase and everybody is inside meanwhile.
THEOREM LeaderIsSole == Spec => []SoleLeader
BY Invariance, PTL DEF IInv

\* count_ is the number of participants still to arrive.
THEOREM CountIsExact == Spec => []CountIsMissing
BY Invariance, PTL DEF IInv

\* No phase ends before its completion function has run.
THEOREM StampedFirst == Spec => StampBeforeRelease
<1>1. IInv /\ [Next]_vars => [generation' # generation => stamped]_vars
  <2> SUFFICES ASSUME IInv, Next, generation' # generation PROVE stamped
    OBVIOUS
  <2> PICK p \in Procs : LoadGeneration(p) \/ Proceed(p)
    BY DEF Next
  <2>1. Bump(p)
    BY DEF LoadGeneration, Proceed, Decrement, Complete, Reset, Leave
  <2> QED BY <2>1, BumpStep
<1> QED BY <1>1, Invariance, PTL DEF Spec, StampBeforeRelease

\* SpinBarrier implements the safety half of Barrier: a step of the atomics is
\* an arrival of one thread, a release of all of them, or invisible.
THEOREM RefinesBarrier == Spec => B!Safety
<1> DEFINE in == {p \in Procs : Arrived(p)}
<1>1. Init => B!Init
  BY DEF Init, B!Init, Arrived, Leading
<1>2. IInv /\ [Next]_vars => [B!Next]_in
  <2> SUFFICES ASSUME IInv, [Next]_vars PROVE B!Next \/ in' = in
    OBVIOUS
  <2>0. in = Procs \ Missing /\ in' = Procs \ Missing' /\ Missing \subseteq Procs
    BY DEF Missing
  <2>1. CASE UNCHANGED vars
    BY <2>1 DEF vars, Arrived, Leading
  <2>2. CASE Next
    <3> PICK p \in Procs : LoadGeneration(p) \/ Proceed(p)
      BY <2>2 DEF Next
    <3>1. CASE Decrement(p)
      <4>1. p \notin in /\ in' = in \cup {p}
        BY <3>1, <2>0, DecrementStep
      <4> QED BY <4>1 DEF B!Next, B!Arrive
    <3>2. CASE Bump(p)
      <4>1. in = Procs /\ in' = {}
        BY <3>2, <2>0, BumpStep
      <4> QED BY <4>1 DEF B!Next, B!Release
    <3>3. CASE LoadGeneration(p) \/ Complete(p) \/ Reset(p) \/ Leave(p)
      BY <3>3, <2>0, LoadStep, LeaderStep, LeaveStep
    <3> QED BY <3>1, <3>2, <3>3 DEF Proceed
  <2> QED BY <2>1, <2>2
<1> QED BY <1>1, <1>2, Invariance, PTL DEF Spec, B!Safety

=============================================================================
