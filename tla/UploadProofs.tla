---------------------------- MODULE UploadProofs ----------------------------
(***************************************************************************)
(* The ingest path stores chunks as a whole, counts exactly what it stores *)
(* and never lets two transactions work on the same machine: for any       *)
(* number of requests, runs, machines and chunks, and any batch size.      *)
(*                                                                         *)
(* The upload and the ingest path together: an upload that ends with exit  *)
(* code 0 has stored the whole run, and retries and repeated posts change  *)
(* the store by whole chunks only.                                         *)
(***************************************************************************)
EXTENDS Upload, FiniteSetTheorems, TLAPS

-----------------------------------------------------------------------------
(* The ingest path. *)

\* A chunk is a sequence of numbers.
LEMMA ChunkType ==
    ASSUME NEW rn \in Runs, NEW c \in DOMAIN Chunks[rn]
    PROVE  Chunks[rn][c] \in Seq(Nat)
BY ChunksAssumption

\* The batch of a request that has arrived: a finite set of rows of its chunk,
\* no more of them than the batch has entries, that together with what was
\* flushed makes up all that has been decoded.
LEMMA BatchFacts ==
    ASSUME TypeOK, NEW r \in Requests, CarriesChunk(r), pc[r] # "absent"
    PROVE  /\ Batch(r) \subseteq RowsOf(r) /\ RowsOf(r) \subseteq AllRows
           /\ BatchLen(r) \in Nat
           /\ IsFiniteSet(Batch(r)) /\ Cardinality(Batch(r)) \in 0..BatchLen(r)
           /\ \A i \in 1..decoded[r] :
                i \in 1..flushed[r] \/ Key(r, i) \in Batch(r)
<1>1. /\ flushed[r] \in Nat /\ decoded[r] \in Nat /\ Len(chunk[r]) \in Nat
      /\ flushed[r] <= decoded[r] /\ decoded[r] <= Len(chunk[r])
      /\ run[r] \in Runs /\ chunk[r] \in Seq(Nat)
  BY DEF TypeOK, CarriesChunk
<1>2. BatchIndices(r) \subseteq 1..Len(chunk[r])
  BY <1>1 DEF BatchIndices
<1>3. RowsOf(r) \subseteq AllRows
  BY <1>1 DEF RowsOf, AllRows, Key
<1>4. Batch(r) \subseteq RowsOf(r)
  BY <1>2 DEF Batch, RowsOf
<1>5. IsFiniteSet(BatchIndices(r)) /\ Cardinality(BatchIndices(r)) = BatchLen(r)
  <2>1. flushed[r] + 1 \in Int /\ decoded[r] \in Int
    BY <1>1
  <2>2. /\ IsFiniteSet((flushed[r] + 1)..decoded[r])
        /\ Cardinality((flushed[r] + 1)..decoded[r]) =
             IF flushed[r] + 1 > decoded[r] THEN 0
             ELSE decoded[r] - (flushed[r] + 1) + 1
    BY <2>1, FS_Interval
  <2>3. (IF flushed[r] + 1 > decoded[r] THEN 0
         ELSE decoded[r] - (flushed[r] + 1) + 1) = BatchLen(r)
    <3>1. \A a, b \in Nat : a <= b => (IF a + 1 > b THEN 0 ELSE b - (a + 1) + 1) = b - a
      OBVIOUS
    <3> QED BY <1>1, <3>1 DEF BatchLen
  <2> QED BY <2>2, <2>3 DEF BatchIndices
<1>6. IsFiniteSet(Batch(r)) /\ Cardinality(Batch(r)) <= BatchLen(r)
  <2> DEFINE f == [i \in BatchIndices(r) |-> Key(r, i)]
  <2>1. f \in Surjection(BatchIndices(r), Batch(r))
    BY DEF Surjection, Batch
  <2> QED BY <2>1, <1>5, FS_Surjection
<1>7. Cardinality(Batch(r)) \in Nat
  BY <1>6, FS_CardinalityType
<1>8. \A i \in 1..decoded[r] : i \in 1..flushed[r] \/ Key(r, i) \in Batch(r)
  BY <1>1 DEF Batch, BatchIndices
<1> QED BY <1>1, <1>3, <1>4, <1>6, <1>7, <1>8 DEF BatchLen

\* Everything a step may know about a request it does not move.
Untouched(s) ==
    /\ pc'[s] = pc[s] /\ run'[s] = run[s] /\ chunk'[s] = chunk[s]
    /\ decoded'[s] = decoded[s] /\ flushed'[s] = flushed[s]
    /\ dedup'[s] = dedup[s] /\ fresh'[s] = fresh[s]
    /\ inserted'[s] = inserted[s] /\ skipped'[s] = skipped[s]
    /\ reply'[s] = reply[s]
    /\ \A m \in Machines : lock[m] = s => lock'[m] = s

\* A step that leaves a request and the store alone keeps its invariant.
LEMMA Frame ==
    ASSUME IInv, NEW s \in Requests, Untouched(s), rows' = rows, runs' = runs
    PROVE  RequestInv(s)'
<1>1. RequestInv(s) /\ TypeOK
  BY DEF IInv
<1>2. RowsOf(s)' = RowsOf(s) /\ \A i \in 1..flushed[s] : Key(s, i)' = Key(s, i)
  BY DEF RowsOf, Key, Untouched
<1>3. CarriesChunk(s)' /\ StartsEmpty(s)' /\ UnheardOf(s)'
  BY <1>1 DEF RequestInv, CarriesChunk, StartsEmpty, UnheardOf, Untouched
<1>4. HoldsLock(s)'
  <2>1. pc[s] \in Active => MachineOf[run[s]] \in Machines
    BY <1>1, RunsAssumption DEF RequestInv, CarriesChunk, Active
  <2> QED BY <1>1, <2>1 DEF RequestInv, HoldsLock, Untouched
<1>5. FlushedIsKept(s)'
  BY <1>1, <1>2 DEF RequestInv, FlushedIsKept, Untouched
<1> QED BY <1>1, <1>2, <1>3, <1>4, <1>5 DEF RequestInv, Untouched

\* The initial state: nothing has arrived and nothing is stored.
LEMMA InitIInv == Init => IInv
<1> SUFFICES ASSUME Init PROVE IInv
  OBVIOUS
<1>1. TypeOK
  BY DEF Init, TypeOK, Counters, States, AllRows
<1>2. StoreInv
  BY FS_EmptySet DEF Init, StoreInv
<1>3. ASSUME NEW r \in Requests PROVE RequestInv(r)
  BY DEF Init, RequestInv, CarriesChunk, StartsEmpty, HoldsLock, UnheardOf,
         FlushedIsKept, Active, Copying
<1> QED BY <1>1, <1>2, <1>3 DEF IInv

\* A request arrives with a chunk of its run, nothing decoded yet.
LEMMA ArriveStep ==
    ASSUME IInv, NEW r \in Requests, NEW rn \in Runs,
           NEW c \in DOMAIN Chunks[rn], Arrive(r, rn, c)
    PROVE  IInv'
<1> USE DEF Arrive, Goto, database
<1>1. TypeOK /\ StoreInv /\ RequestInv(r) /\ pc[r] = "absent"
  BY DEF IInv
<1>2. Chunks[rn][c] \in Seq(Nat)
  BY ChunkType
<1>3. decoded[r] = 0 /\ flushed[r] = 0
  BY <1>1 DEF RequestInv, StartsEmpty
<1>4. TypeOK'
  <2>1. \A s \in Requests : flushed'[s] <= decoded'[s] /\ decoded'[s] <= Len(chunk'[s])
    BY <1>1, <1>2, <1>3 DEF TypeOK
  <2> QED BY <1>1, <1>2, <2>1 DEF TypeOK, Counters, States
<1>5. StoreInv'
  BY <1>1 DEF StoreInv
<1>6. RequestInv(r)'
  <2>1. pc'[r] = "begin" /\ run'[r] = rn /\ chunk'[r] = Chunks[rn][c]
    BY <1>1 DEF TypeOK
  <2> QED BY <1>1, <2>1 DEF RequestInv, CarriesChunk, StartsEmpty, HoldsLock,
             UnheardOf, FlushedIsKept, Active, Copying
<1>7. ASSUME NEW s \in Requests \ {r} PROVE RequestInv(s)'
  BY <1>1, <1>7, Frame DEF TypeOK, Untouched
<1> QED BY <1>4, <1>5, <1>6, <1>7 DEF IInv

\* The upsert takes a row nobody holds, so no other request loses its own.
LEMMA UpsertStep ==
    ASSUME IInv, NEW r \in Requests, UpsertMachine(r)
    PROVE  IInv'
<1> USE DEF UpsertMachine, Goto, locals, database
<1>1. TypeOK /\ StoreInv /\ RequestInv(r) /\ pc[r] = "begin"
  BY DEF IInv
<1>2. MachineOf[run[r]] \in Machines
  BY <1>1, RunsAssumption DEF RequestInv, CarriesChunk
<1>3. TypeOK'
  BY <1>1, <1>2 DEF TypeOK, Counters, States
<1>4. StoreInv'
  BY <1>1 DEF StoreInv
<1>5. RequestInv(r)'
  <2>1. pc'[r] = "insertRun" /\ lock'[MachineOf[run[r]]] = r
    BY <1>1, <1>2 DEF TypeOK
  <2>2. RowsOf(r)' = RowsOf(r)
    BY DEF RowsOf, Key
  <2> QED BY <1>1, <2>1, <2>2 DEF RequestInv, CarriesChunk, StartsEmpty, HoldsLock,
             UnheardOf, FlushedIsKept, Active, Copying
<1>6. ASSUME NEW s \in Requests \ {r} PROVE RequestInv(s)'
  <2>1. \A m \in Machines : lock[m] = s => lock'[m] = s
    BY <1>1, <1>2, NobodyAssumption DEF TypeOK, Nobody
  <2> QED BY <1>1, <2>1, Frame DEF TypeOK, Untouched
<1> QED BY <1>3, <1>4, <1>5, <1>6 DEF IInv

\* The INSERT sees whether the run is committed.
LEMMA InsertRunStep ==
    ASSUME IInv, NEW r \in Requests, InsertRun(r)
    PROVE  IInv'
<1> USE DEF InsertRun, Goto, database
<1>1. TypeOK /\ StoreInv /\ RequestInv(r) /\ pc[r] = "insertRun"
  BY DEF IInv
<1>2. TypeOK'
  <2>1. dedup' \in [Requests -> BOOLEAN]
    BY <1>1 DEF TypeOK
  <2> QED BY <1>1, <2>1 DEF TypeOK, Counters, States
<1>3. StoreInv'
  BY <1>1 DEF StoreInv
<1>4. RequestInv(r)'
  <2>1. pc'[r] = "stream" /\ (dedup'[r] <=> run[r] \in runs)
    BY <1>1 DEF TypeOK
  <2>2. RowsOf(r)' = RowsOf(r) /\ \A i \in 1..flushed[r] : Key(r, i)' = Key(r, i)
    BY DEF RowsOf, Key
  <2>3. CarriesChunk(r)' /\ StartsEmpty(r)' /\ HoldsLock(r)' /\ UnheardOf(r)'
    BY <1>1, <2>1 DEF RequestInv, CarriesChunk, StartsEmpty, HoldsLock,
       UnheardOf, Active
  <2>4. FlushedIsKept(r)'
    <3>1. /\ fresh[r] = {} /\ flushed[r] = 0
          /\ inserted[r] = 0 /\ skipped[r] = 0
      BY <1>1 DEF RequestInv, StartsEmpty
    <3> QED BY <2>1, <3>1, FS_EmptySet DEF FlushedIsKept, Copying
  <2> QED BY <1>1, <2>1, <2>2, <2>3, <2>4 DEF RequestInv
<1>5. ASSUME NEW s \in Requests \ {r} PROVE RequestInv(s)'
  BY <1>1, Frame DEF TypeOK, Untouched
<1> QED BY <1>2, <1>3, <1>4, <1>5 DEF IInv

\* Steps that only move a request on: streaming a result, giving up the fast
\* path, ending the stream.
LEMMA StreamStep ==
    ASSUME IInv, NEW r \in Requests, Add(r) \/ FlushConflict(r) \/ FinalFlush(r)
    PROVE  IInv'
<1> USE DEF Goto, database, locals
<1>1. TypeOK /\ StoreInv /\ RequestInv(r) /\ pc[r] \in {"stream", "flush"}
  BY DEF IInv, Add, FlushConflict, FinalFlush
<1>2. CarriesChunk(r) /\ pc[r] # "absent"
  BY <1>1 DEF RequestInv
<1>3. /\ decoded[r] \in Nat /\ flushed[r] \in Nat /\ Len(chunk[r]) \in Nat
      /\ flushed[r] <= decoded[r] /\ decoded[r] <= Len(chunk[r])
  BY <1>1 DEF TypeOK
<1>4. /\ run' = run /\ chunk' = chunk /\ flushed' = flushed /\ fresh' = fresh
      /\ inserted' = inserted /\ skipped' = skipped /\ reply' = reply
      /\ lock' = lock /\ rows' = rows /\ runs' = runs
  BY DEF Add, FlushConflict, FinalFlush
<1>5. /\ pc' \in [Requests -> States] /\ pc'[r] \in Copying
      /\ pc'[r] = "commit" => flushed[r] = Len(chunk[r])
      /\ \A s \in Requests \ {r} : pc'[s] = pc[s]
  <2>1. CASE Add(r)
    BY <1>1, <2>1 DEF Add, TypeOK, States, Copying
  <2>2. CASE FlushConflict(r)
    BY <1>1, <2>2 DEF FlushConflict, TypeOK, Copying
  <2>3. CASE FinalFlush(r)
    <3>1. pc' = [pc EXCEPT ![r] = IF BatchLen(r) > 0 THEN "flush" ELSE "commit"]
      BY <2>3 DEF FinalFlush
    <3>2. ~(BatchLen(r) > 0) => flushed[r] = Len(chunk[r])
      BY <1>3, <2>3 DEF FinalFlush, BatchLen
    <3> QED BY <1>1, <3>1, <3>2 DEF TypeOK, States, Copying
  <2> QED BY <2>1, <2>2, <2>3
<1>6. /\ decoded' \in [Requests -> Nat]
      /\ flushed[r] <= decoded'[r] /\ decoded'[r] <= Len(chunk[r])
      /\ \A s \in Requests \ {r} : decoded'[s] = decoded[s]
  <2>1. CASE Add(r)
    BY <1>1, <1>3, <2>1 DEF Add, TypeOK
  <2>2. CASE FlushConflict(r) \/ FinalFlush(r)
    <3>1. decoded' = decoded
      BY <2>2 DEF FlushConflict, FinalFlush
    <3> QED BY <1>1, <1>3, <3>1 DEF TypeOK
  <2> QED BY <2>1, <2>2
<1>7. /\ dedup' \in [Requests -> BOOLEAN]
      /\ ~dedup'[r] => ~dedup[r]
      /\ \A s \in Requests \ {r} : dedup'[s] = dedup[s]
  BY <1>1 DEF Add, FlushConflict, FinalFlush, TypeOK
<1>8. TypeOK'
  BY <1>1, <1>4, <1>5, <1>6, <1>7 DEF TypeOK, Counters
<1>9. StoreInv'
  BY <1>1, <1>4 DEF StoreInv
<1>10. RequestInv(r)'
  <2>1. RowsOf(r)' = RowsOf(r) /\ \A i \in 1..flushed[r] : Key(r, i)' = Key(r, i)
    BY <1>4 DEF RowsOf, Key
  <2>2. CarriesChunk(r)' /\ StartsEmpty(r)' /\ HoldsLock(r)' /\ UnheardOf(r)'
    BY <1>1, <1>4, <1>5, <1>7 DEF RequestInv, CarriesChunk, StartsEmpty,
       HoldsLock, UnheardOf, Active, Copying
  <2>3. FlushedIsKept(r)'
    BY <1>1, <1>4, <1>5, <2>1 DEF RequestInv, FlushedIsKept, Copying
  <2> QED BY <1>1, <1>4, <2>2, <2>3 DEF RequestInv
<1>11. ASSUME NEW s \in Requests \ {r} PROVE RequestInv(s)'
  BY <1>4, <1>5, <1>6, <1>7, Frame DEF Untouched
<1> QED BY <1>8, <1>9, <1>10, <1>11 DEF IInv

\* What a flush does, whichever way it goes: the new keys of the batch join the
\* transaction and are counted, the others are skipped.
FlushEffect(r) ==
    /\ pc[r] = "flush"
    /\ fresh' = [fresh EXCEPT ![r] = @ \cup NewInBatch(r)]
    /\ inserted' = [inserted EXCEPT ![r] = @ + Cardinality(NewInBatch(r))]
    /\ skipped' = [skipped EXCEPT ![r] = @ + BatchLen(r) - Cardinality(NewInBatch(r))]
    /\ flushed' = [flushed EXCEPT ![r] = decoded[r]]
    /\ Goto(r, AfterFlush(r))
    /\ UNCHANGED <<run, chunk, decoded, dedup, reply, lock, database>>

\* A COPY that meets no conflict inserts the whole batch.
LEMMA CopyIsFlush ==
    ASSUME IInv, NEW r \in Requests, FlushCopy(r)
    PROVE  FlushEffect(r)
<1>1. TypeOK /\ CarriesChunk(r) /\ pc[r] # "absent"
  BY DEF IInv, RequestInv, FlushCopy
<1>2. NewInBatch(r) = Batch(r)
  BY DEF FlushCopy, Conflicts, NewInBatch
<1>3. BatchLen(r) \in Nat /\ Cardinality(Batch(r)) = BatchLen(r)
  BY <1>1, BatchFacts DEF FlushCopy, Conflicts
<1>4. [skipped EXCEPT ![r] = @ + BatchLen(r) - BatchLen(r)] = skipped
  BY <1>1, <1>3 DEF TypeOK, Counters
<1> QED BY <1>2, <1>3, <1>4 DEF FlushCopy, FlushEffect

\* After a flush everything decoded so far is stored or in the transaction.
LEMMA FlushStep ==
    ASSUME IInv, NEW r \in Requests, FlushEffect(r)
    PROVE  IInv'
<1> USE DEF Goto, database
<1>1. TypeOK /\ StoreInv /\ RequestInv(r) /\ pc[r] = "flush"
  BY DEF IInv, FlushEffect
<1>2. CarriesChunk(r) /\ FlushedIsKept(r) /\ pc[r] # "absent"
  BY <1>1 DEF RequestInv
<1>3. /\ Batch(r) \subseteq RowsOf(r) /\ RowsOf(r) \subseteq AllRows
      /\ BatchLen(r) \in Nat
      /\ IsFiniteSet(Batch(r)) /\ Cardinality(Batch(r)) \in 0..BatchLen(r)
      /\ \A i \in 1..decoded[r] : i \in 1..flushed[r] \/ Key(r, i) \in Batch(r)
  BY <1>1, <1>2, BatchFacts
<1> DEFINE N == NewInBatch(r)
<1>4. N \subseteq Batch(r) /\ N \cap (rows \cup fresh[r]) = {}
      /\ Batch(r) \subseteq rows \cup fresh[r] \cup N
  BY DEF NewInBatch
<1>5. IsFiniteSet(N) /\ Cardinality(N) \in 0..BatchLen(r)
  <2>1. N \in SUBSET Batch(r)
    BY <1>4
  <2>2. IsFiniteSet(N) /\ Cardinality(N) <= Cardinality(Batch(r))
    BY <1>3, <2>1, FS_Subset
  <2>3. Cardinality(N) \in Nat
    BY <2>2, FS_CardinalityType
  <2> QED BY <1>3, <2>2, <2>3
<1>6. /\ fresh'[r] = fresh[r] \cup N
      /\ inserted'[r] = inserted[r] + Cardinality(N)
      /\ skipped'[r] = skipped[r] + BatchLen(r) - Cardinality(N)
      /\ flushed'[r] = decoded[r] /\ pc'[r] = AfterFlush(r)
  BY <1>1 DEF FlushEffect, TypeOK, Counters
<1>7. /\ run' = run /\ chunk' = chunk /\ decoded' = decoded /\ dedup' = dedup
      /\ reply' = reply /\ lock' = lock /\ rows' = rows /\ runs' = runs
  BY DEF FlushEffect
<1>8. TypeOK'
  <2>1. AfterFlush(r) \in States
    BY DEF AfterFlush, States
  <2>2. fresh' \in [Requests -> SUBSET AllRows]
    BY <1>1, <1>3, <1>4 DEF FlushEffect, TypeOK
  <2>3. inserted' \in [Requests -> Nat] /\ skipped' \in [Requests -> Nat]
    <3>1. PICK new, all : new = Cardinality(N) /\ all = BatchLen(r)
      OBVIOUS
    <3>2. inserted' = [inserted EXCEPT ![r] = @ + new]
          /\ skipped' = [skipped EXCEPT ![r] = @ + all - new]
      BY <3>1 DEF FlushEffect
    <3>3. new \in Nat /\ \A k \in Nat : k + new \in Nat /\ k + all - new \in Nat
      BY <1>3, <1>5, <3>1
    <3>4. inserted \in [Requests -> Nat] /\ skipped \in [Requests -> Nat]
      BY <1>1 DEF TypeOK, Counters
    <3> HIDE DEF N
    <3> QED BY <3>2, <3>3, <3>4
  <2>4. /\ flushed' \in [Requests -> Nat] /\ pc' \in [Requests -> States]
        /\ \A s \in Requests : flushed'[s] <= decoded[s]
    BY <1>1, <2>1 DEF FlushEffect, TypeOK
  <2> QED BY <1>1, <1>7, <2>2, <2>3, <2>4 DEF TypeOK, Counters
<1>9. StoreInv'
  BY <1>1, <1>7 DEF StoreInv
<1>10. RequestInv(r)'
  <2>1. RowsOf(r)' = RowsOf(r) /\ \A i : Key(r, i)' = Key(r, i)
    BY <1>7 DEF RowsOf, Key
  <2>2. pc'[r] \in {"stream", "commit"}
    BY <1>6 DEF AfterFlush
  <2>3. CarriesChunk(r)' /\ StartsEmpty(r)' /\ HoldsLock(r)' /\ UnheardOf(r)'
    BY <1>1, <1>7, <2>2 DEF RequestInv, CarriesChunk, StartsEmpty,
       HoldsLock, UnheardOf, Active
  <2>4. /\ fresh'[r] \subseteq RowsOf(r) /\ fresh'[r] \cap rows = {}
    BY <1>1, <1>2, <1>3, <1>4, <1>6 DEF FlushedIsKept, Copying
  <2>5. \A i \in 1..flushed'[r] : Key(r, i) \in rows \cup fresh'[r]
    BY <1>1, <1>2, <1>3, <1>4, <1>6 DEF FlushedIsKept, Copying
  <2>6. IsFiniteSet(fresh'[r]) /\ inserted'[r] = Cardinality(fresh'[r])
    <3>1. IsFiniteSet(fresh[r]) /\ inserted[r] = Cardinality(fresh[r])
      BY <1>1, <1>2 DEF FlushedIsKept, Copying
    <3>2. fresh[r] \cap N = {}
      BY <1>4
    <3>3. /\ IsFiniteSet(fresh[r] \cup N)
          /\ Cardinality(fresh[r] \cup N) =
               Cardinality(fresh[r]) + Cardinality(N) - Cardinality(fresh[r] \cap N)
      BY <3>1, <1>5, FS_Union
    <3>4. Cardinality(fresh[r] \cap N) = 0
      BY <3>2, FS_EmptySet
    <3>5. inserted[r] \in Nat /\ Cardinality(N) \in Nat
      BY <1>1, <1>5 DEF TypeOK, Counters
    <3> HIDE DEF N
    <3> QED BY <1>6, <3>1, <3>3, <3>4, <3>5
  <2>7. inserted'[r] + skipped'[r] = flushed'[r]
    <3>1. /\ inserted[r] \in Nat /\ skipped[r] \in Nat
          /\ flushed[r] \in Nat /\ decoded[r] \in Nat
      BY <1>1 DEF TypeOK, Counters
    <3>2. inserted[r] + skipped[r] = flushed[r]
      BY <1>1, <1>2 DEF FlushedIsKept, Copying
    <3>3. Cardinality(N) \in Nat /\ BatchLen(r) = decoded[r] - flushed[r]
      BY <1>5 DEF BatchLen
    <3> HIDE DEF N
    <3> QED BY <1>6, <3>1, <3>2, <3>3
  <2>8. pc'[r] = "commit" => flushed'[r] = Len(chunk[r])
    BY <1>6 DEF AfterFlush
  <2>9. FlushedIsKept(r)'
    BY <1>7, <2>1, <2>4, <2>5, <2>6, <2>7, <2>8 DEF FlushedIsKept
  <2> QED BY <1>1, <1>7, <2>3, <2>9 DEF RequestInv
<1>11. ASSUME NEW s \in Requests \ {r} PROVE RequestInv(s)'
  <2>1. Untouched(s)
    BY <1>1, <1>7 DEF FlushEffect, TypeOK, Counters, Untouched
  <2> QED BY <1>7, <2>1, Frame
<1> QED BY <1>8, <1>9, <1>10, <1>11 DEF IInv

\* Two requests that are past the upsert work on different machines.
LEMMA LockExcludes ==
    ASSUME IInv, NEW r \in Requests, NEW s \in Requests, r # s,
           pc[r] \in Active, pc[s] \in Active
    PROVE  MachineOf[run[r]] # MachineOf[run[s]]
BY DEF IInv, RequestInv, HoldsLock

\* The part of TypeOK about what belongs to the request alone.
LocalsTyped ==
    /\ run \in [Requests -> Runs \cup {NoRun}]
    /\ chunk \in [Requests -> Seq(Nat)]
    /\ decoded \in [Requests -> Nat] /\ flushed \in [Requests -> Nat]
    /\ dedup \in [Requests -> BOOLEAN]
    /\ fresh \in [Requests -> SUBSET AllRows]
    /\ inserted \in [Requests -> Nat] /\ skipped \in [Requests -> Nat]
    /\ \A r \in Requests : flushed[r] <= decoded[r] /\ decoded[r] <= Len(chunk[r])

\* The end of a request keeps it typed.
LEMMA ForgetTyped ==
    ASSUME TypeOK, NEW r \in Requests, Forget(r)
    PROVE  LocalsTyped'
<1>1. /\ decoded' \in [Requests -> Nat] /\ flushed' \in [Requests -> Nat]
      /\ dedup' \in [Requests -> BOOLEAN] /\ fresh' \in [Requests -> SUBSET AllRows]
      /\ inserted' \in [Requests -> Nat] /\ skipped' \in [Requests -> Nat]
  BY DEF TypeOK, Counters, Forget
<1>2. \A s \in Requests : flushed'[s] <= decoded'[s] /\ decoded'[s] <= Len(chunk'[s])
  BY DEF TypeOK, Forget
<1> QED BY <1>1, <1>2 DEF TypeOK, LocalsTyped, Forget

\* A commit makes the rows of one run visible: nobody else is in that run.
LEMMA CommitStep ==
    ASSUME IInv, NEW r \in Requests, Commit(r) \/ CommitUnreported(r)
    PROVE  IInv'
<1> USE DEF Goto
<1>1. TypeOK /\ StoreInv /\ RequestInv(r) /\ pc[r] = "commit"
  BY DEF IInv, Commit, CommitUnreported
<1>2. Forget(r) /\ run' = run /\ chunk' = chunk
  BY DEF Commit, CommitUnreported, Forget
<1>3. /\ rows' = rows \cup fresh[r] /\ runs' = runs \cup {run[r]}
      /\ lock' = Unlock(r)
      /\ pc' = [pc EXCEPT ![r] = "answered"]
  BY DEF Commit, CommitUnreported, CommitRows
<1>4. \E a \in {"stored", "error"} : reply' = [reply EXCEPT ![r] = a]
  BY DEF Commit, CommitUnreported
<1>5. CarriesChunk(r) /\ FlushedIsKept(r) /\ run[r] \in Runs
  BY <1>1 DEF RequestInv, CarriesChunk
<1>6. /\ fresh[r] \subseteq RowsOf(r) /\ RowsOf(r) \subseteq rows'
      /\ IsFiniteSet(fresh[r])
  BY <1>1, <1>3, <1>5 DEF FlushedIsKept, Copying, RowsOf
<1>7. TypeOK'
  <2>1. lock' \in [Machines -> Requests \cup {Nobody}]
    BY <1>1, <1>3 DEF Unlock, TypeOK
  <2>2. rows' \in SUBSET AllRows /\ runs' \in SUBSET Runs
    BY <1>1, <1>3, <1>5 DEF TypeOK
  <2>3. pc' \in [Requests -> States] /\ reply' \in [Requests -> {"none", "stored", "error"}]
    BY <1>1, <1>3, <1>4 DEF TypeOK, Counters, States
  <2>4. LocalsTyped'
    BY <1>1, <1>2, ForgetTyped
  <2> QED BY <1>1, <2>1, <2>2, <2>3, <2>4 DEF TypeOK, Counters, LocalsTyped
<1>8. StoreInv'
  <2>1. IsFiniteSet(rows')
    BY <1>1, <1>3, <1>6, FS_Union DEF StoreInv
  <2>2. \A row \in fresh[r] : row[1] = run[r]
    BY <1>6 DEF RowsOf, Key
  <2> QED BY <1>1, <1>3, <2>1, <2>2 DEF StoreInv
<1>9. RequestInv(r)'
  <2>1. pc'[r] = "answered" /\ RowsOf(r)' = RowsOf(r)
    BY <1>1, <1>2, <1>3 DEF TypeOK, RowsOf, Key
  <2>2. CarriesChunk(r)'
    BY <1>1, <1>2, <1>5 DEF CarriesChunk
  <2>3. StartsEmpty(r)' /\ HoldsLock(r)' /\ UnheardOf(r)' /\ FlushedIsKept(r)'
    BY <2>1 DEF StartsEmpty, HoldsLock, UnheardOf, FlushedIsKept, Active, Copying
  <2> QED BY <1>6, <2>1, <2>2, <2>3 DEF RequestInv
<1>10. ASSUME NEW s \in Requests \ {r} PROVE RequestInv(s)'
  <2>1. /\ pc'[s] = pc[s] /\ reply'[s] = reply[s] /\ RequestInv(s)
        /\ decoded'[s] = decoded[s] /\ flushed'[s] = flushed[s]
        /\ dedup'[s] = dedup[s] /\ fresh'[s] = fresh[s]
        /\ inserted'[s] = inserted[s] /\ skipped'[s] = skipped[s]
    BY <1>1, <1>2, <1>3, <1>4 DEF IInv, TypeOK, Counters, Forget
  <2>2. pc[s] \in Active => run[s] # run[r]
    BY <1>1, LockExcludes DEF Active
  <2>3. RowsOf(s)' = RowsOf(s) /\ \A i \in 1..flushed[s] : Key(s, i)' = Key(s, i)
    BY <1>2, <2>1 DEF RowsOf, Key
  <2>4. HoldsLock(s)'
    <3>1. pc[s] \in Active => MachineOf[run[s]] \in Machines
      BY <2>1, RunsAssumption DEF RequestInv, CarriesChunk, Active
    <3> QED BY <1>2, <1>3, <2>1, <3>1 DEF RequestInv, HoldsLock, Unlock
  <2>5. CarriesChunk(s)' /\ StartsEmpty(s)' /\ UnheardOf(s)'
    BY <1>2, <1>3, <2>1, <2>2 DEF RequestInv, CarriesChunk, StartsEmpty,
       UnheardOf, Active
  <2>6. FlushedIsKept(s)'
    <3> SUFFICES ASSUME pc[s] \in Copying PROVE FlushedIsKept(s)'
      BY <2>1 DEF FlushedIsKept
    <3>1. FlushedIsKept(s) /\ run[s] # run[r]
      BY <2>1, <2>2 DEF RequestInv, Active, Copying
    <3>2. fresh[s] \cap fresh[r] = {}
      <4>1. \A row \in fresh[s] : row[1] = run[s]
        BY <3>1 DEF FlushedIsKept, RowsOf, Key
      <4>2. \A row \in fresh[r] : row[1] = run[r]
        BY <1>6 DEF RowsOf, Key
      <4> QED BY <3>1, <4>1, <4>2
    <3>3. fresh[s] \cap rows' = {}
      BY <1>3, <3>1, <3>2 DEF FlushedIsKept
    <3> QED BY <1>2, <1>3, <2>1, <2>3, <3>1, <3>3 DEF FlushedIsKept
  <2> QED BY <1>3, <2>1, <2>3, <2>4, <2>5, <2>6 DEF RequestInv
<1> QED BY <1>7, <1>8, <1>9, <1>10 DEF IInv

\* A rollback leaves the store and every other request as they are.
LEMMA FailStep ==
    ASSUME IInv, NEW r \in Requests, Fail(r)
    PROVE  IInv'
<1> USE DEF Fail, Goto, database
<1>1. TypeOK /\ StoreInv /\ RequestInv(r) /\ pc[r] # "absent"
  BY DEF IInv
<1>2. TypeOK'
  <2>1. lock' \in [Machines -> Requests \cup {Nobody}]
    BY <1>1 DEF Unlock, TypeOK
  <2>2. LocalsTyped'
    BY <1>1, ForgetTyped
  <2>3. /\ pc' \in [Requests -> States]
        /\ reply' \in [Requests -> {"none", "stored", "error"}]
    BY <1>1 DEF TypeOK, Counters, States
  <2> QED BY <1>1, <2>1, <2>2, <2>3 DEF TypeOK, Counters, LocalsTyped
<1>3. StoreInv'
  BY <1>1 DEF StoreInv
<1>4. RequestInv(r)'
  <2>1. pc'[r] = "answered" /\ reply'[r] = "error"
    BY <1>1 DEF TypeOK, Counters
  <2> QED BY <1>1, <2>1 DEF RequestInv, CarriesChunk, StartsEmpty, HoldsLock,
             UnheardOf, FlushedIsKept, Active, Copying, Forget
<1>5. ASSUME NEW s \in Requests \ {r} PROVE RequestInv(s)'
  <2>1. Untouched(s)
    BY <1>1 DEF TypeOK, Counters, Untouched, Unlock, Forget
  <2> QED BY <2>1, Frame
<1> QED BY <1>2, <1>3, <1>4, <1>5 DEF IInv

\* Every step keeps the invariant.
LEMMA NextIInv ==
    ASSUME IInv, [Next]_vars
    PROVE  IInv'
<1>1. CASE UNCHANGED vars
  <2>1. \A s \in Requests : RequestInv(s)'
    BY <1>1, Frame DEF Untouched, vars, locals, database
  <2>2. TypeOK' /\ StoreInv'
    BY <1>1 DEF IInv, TypeOK, Counters, StoreInv, vars, locals, database
  <2> QED BY <2>1, <2>2 DEF IInv
<1>2. CASE Next
  <2> PICK r \in Requests :
        \/ \E rn \in Runs : \E c \in DOMAIN Chunks[rn] : Arrive(r, rn, c)
        \/ Serve(r) \/ CommitUnreported(r) \/ Fail(r)
    BY <1>2 DEF Next
  <2>1. CASE \E rn \in Runs : \E c \in DOMAIN Chunks[rn] : Arrive(r, rn, c)
    BY <2>1, ArriveStep
  <2>2. CASE UpsertMachine(r)
    BY <2>2, UpsertStep
  <2>3. CASE InsertRun(r)
    BY <2>3, InsertRunStep
  <2>4. CASE Add(r) \/ FlushConflict(r) \/ FinalFlush(r)
    BY <2>4, StreamStep
  <2>5. CASE FlushCopy(r)
    BY <2>5, CopyIsFlush, FlushStep
  <2>6. CASE FlushDedup(r)
    <3>1. FlushEffect(r)
      BY <2>6 DEF FlushDedup, FlushEffect
    <3> QED BY <3>1, FlushStep
  <2>7. CASE Commit(r) \/ CommitUnreported(r)
    BY <2>7, CommitStep
  <2>8. CASE Fail(r)
    BY <2>8, FailStep
  <2> QED BY <2>1, <2>2, <2>3, <2>4, <2>5, <2>6, <2>7, <2>8 DEF Serve
<1> QED BY <1>1, <1>2

\* The invariant holds in every reachable state.
THEOREM Invariance == Spec => []IInv
<1>1. Init => IInv
  BY InitIInv
<1>2. IInv /\ [Next]_vars => IInv'
  BY NextIInv
<1> QED BY <1>1, <1>2, PTL DEF Spec

\* The ingest state is well typed: in particular no flush ever gets ahead of
\* the decoder, nor the decoder of the body.
THEOREM TypeCorrect == Spec => []TypeOK
<1>1. IInv => TypeOK
  BY DEF IInv
<1> QED BY <1>1, Invariance, PTL

\* A request answered 200 has all its rows in the table (IngestResult's
\* inserted and skipped ones alike).
THEOREM AnsweredIsStored == Spec => []AnsweredMeansStored
<1>1. IInv => AnsweredMeansStored
  BY DEF IInv, RequestInv, AnsweredMeansStored
<1> QED BY <1>1, Invariance, PTL

\* The unchecked COPY of flush() is only used while no row of the run is
\* committed, whoever else posts that run.
THEOREM FastPathAlone == Spec => []FastPathIsAlone
<1>1. IInv => FastPathIsAlone
  BY DEF IInv, RequestInv, UnheardOf, StoreInv, FastPathIsAlone
<1> QED BY <1>1, Invariance, PTL

\* upsertMachine serialises a machine's transactions: no two that are past it
\* work on the same machine.
THEOREM LocksDisjoint == Spec => []RowLocksDisjoint
<1>1. IInv => RowLocksDisjoint
  BY LockExcludes DEF RowLocksDisjoint
<1> QED BY <1>1, Invariance, PTL

\* A commit adds exactly the rows of the chunk that were not there.
LEMMA CommitStores ==
    ASSUME IInv, NEW r \in Requests, pc[r] = "commit", rows' = rows \cup fresh[r]
    PROVE  /\ Abstract!StoreChunk(run[r]) /\ run[r] \in Runs
           /\ Cardinality(rows') = Cardinality(rows) + inserted[r]
           /\ inserted[r] + skipped[r] = Len(chunk[r])
<1>1. TypeOK /\ StoreInv /\ CarriesChunk(r) /\ FlushedIsKept(r)
  BY DEF IInv, RequestInv
<1>2. /\ fresh[r] \subseteq RowsOf(r) /\ fresh[r] \cap rows = {}
      /\ RowsOf(r) \subseteq rows \cup fresh[r]
      /\ IsFiniteSet(fresh[r]) /\ inserted[r] = Cardinality(fresh[r])
      /\ inserted[r] + skipped[r] = Len(chunk[r])
  BY <1>1 DEF FlushedIsKept, Copying, RowsOf
<1>3. run[r] \in Runs /\ RowsOf(r) \in ChunkRows(run[r])
  <2>1. PICK c \in DOMAIN Chunks[run[r]] : chunk[r] = Chunks[run[r]][c]
    BY <1>1 DEF CarriesChunk
  <2>2. run[r] \in Runs /\ chunk[r] \in Seq(Nat)
    BY <1>1 DEF CarriesChunk, TypeOK
  <2>3. DOMAIN chunk[r] = 1..Len(chunk[r])
    BY <2>2
  <2>4. RowsOf(r) = {<<run[r], Chunks[run[r]][c][i]>> : i \in DOMAIN Chunks[run[r]][c]}
    BY <2>1, <2>3 DEF RowsOf, Key
  <2> QED BY <2>2, <2>4 DEF ChunkRows
<1>4. rows' = rows \cup RowsOf(r)
  BY <1>2
<1>5. Abstract!StoreChunk(run[r])
  BY <1>3, <1>4 DEF Abstract!StoreChunk
<1>6. Cardinality(rows') = Cardinality(rows) + inserted[r]
  <2>1. IsFiniteSet(rows) /\ Cardinality(rows) \in Nat /\ inserted[r] \in Nat
    BY <1>1, FS_CardinalityType DEF StoreInv, TypeOK, Counters
  <2>2. Cardinality(rows \cup fresh[r]) =
          Cardinality(rows) + Cardinality(fresh[r]) - Cardinality(rows \cap fresh[r])
    BY <1>2, <2>1, FS_Union
  <2>3. Cardinality(rows \cap fresh[r]) = 0
    BY <1>2, FS_EmptySet
  <2> QED BY <1>2, <2>1, <2>2, <2>3
<1> QED BY <1>2, <1>3, <1>5, <1>6

\* Only a commit touches the stored measurements.
LEMMA OnlyCommitWrites ==
    ASSUME [Next]_vars
    PROVE  \/ rows' = rows
           \/ \E r \in Requests : pc[r] = "commit" /\ rows' = rows \cup fresh[r]
<1>1. CASE UNCHANGED vars
  BY <1>1 DEF vars, database
<1>2. CASE Next
  <2> PICK r \in Requests :
        \/ \E rn \in Runs : \E c \in DOMAIN Chunks[rn] : Arrive(r, rn, c)
        \/ Serve(r) \/ CommitUnreported(r) \/ Fail(r)
    BY <1>2 DEF Next
  <2>1. CASE Commit(r) \/ CommitUnreported(r)
    BY <2>1 DEF Commit, CommitUnreported, CommitRows
  <2>2. CASE ~(Commit(r) \/ CommitUnreported(r))
    BY <2>2 DEF Serve, Arrive, UpsertMachine, InsertRun, Add, FinalFlush,
       FlushCopy, FlushConflict, FlushDedup, Fail, database
  <2> QED BY <2>1, <2>2
<1> QED BY <1>1, <1>2

\* Ingest implements RunStore: whatever the requests do, fail at or race with,
\* the measurements change by one whole chunk of one run at a time, and a chunk
\* stored again changes nothing.
THEOREM RefinesRunStore == Spec => ImplementsRunStore
<1>1. Init => Abstract!Init
  BY DEF Init, Abstract!Init
<1>2. IInv /\ [Next]_vars => [Abstract!Next]_rows
  <2> SUFFICES ASSUME IInv, [Next]_vars, rows' # rows PROVE Abstract!Next
    OBVIOUS
  <2>1. PICK r \in Requests : pc[r] = "commit" /\ rows' = rows \cup fresh[r]
    BY OnlyCommitWrites
  <2>2. run[r] \in Runs /\ Abstract!StoreChunk(run[r])
    BY <2>1, CommitStores
  <2> QED BY <2>2 DEF Abstract!Next
<1> QED BY <1>1, <1>2, Invariance, PTL DEF Spec, ImplementsRunStore, Abstract!Spec

\* The answer's inserted and skipped are exact: the store grows by the former,
\* and together they are the number of results the request carried.
THEOREM CountsExact == Spec => CountsAreExact
<1> DEFINE Exact(r) ==
      (pc[r] = "commit" /\ reply'[r] = "stored") =>
        /\ Cardinality(rows') = Cardinality(rows) + inserted[r]
        /\ inserted[r] + skipped[r] = Len(chunk[r])
<1>1. ASSUME IInv, [Next]_vars, NEW r \in Requests PROVE Exact(r)
  <2> SUFFICES ASSUME pc[r] = "commit", reply'[r] = "stored"
               PROVE  /\ Cardinality(rows') = Cardinality(rows) + inserted[r]
                      /\ inserted[r] + skipped[r] = Len(chunk[r])
    OBVIOUS
  <2>1. reply[r] # "stored" /\ reply \in [Requests -> {"none", "stored", "error"}]
    BY <1>1 DEF IInv, RequestInv, TypeOK, Counters
  <2>2. Next
    BY <1>1, <2>1 DEF vars
  <2>3. PICK q \in Requests :
          \/ \E rn \in Runs : \E c \in DOMAIN Chunks[rn] : Arrive(q, rn, c)
          \/ Serve(q) \/ CommitUnreported(q) \/ Fail(q)
    BY <2>2 DEF Next
  <2>4. Commit(q)
    BY <2>1, <2>3 DEF Serve, Arrive, UpsertMachine, InsertRun, Add, FinalFlush,
       FlushCopy, FlushConflict, FlushDedup, CommitUnreported, Fail
  <2>5. q = r
    BY <2>1, <2>4 DEF Commit
  <2> QED BY <1>1, <2>4, <2>5, CommitStores DEF Commit, CommitRows
<1>2. IInv /\ [Next]_vars => [\A r \in Requests : Exact(r)]_vars
  BY <1>1
<1> QED BY <1>2, Invariance, PTL DEF Spec, CountsAreExact

\* The dates of one machine span the runs in S that were made on it.
Spans(s, S, m) ==
    LET Stored == {rn \in S : MachineOf[rn] = m}
    IN  IF Stored = {} THEN s = Unseen
        ELSE /\ \E rn \in Stored : s.first = Started[rn]
             /\ \E rn \in Stored : s.last = Finished[rn]
             /\ \A rn \in Stored : s.first <= Started[rn] /\ s.last >= Finished[rn]

\* The upsert's LEAST and GREATEST: merging a run into dates that span the runs
\* in S gives dates that span S with that run, also when it was there already.
LEMMA MergedSpans ==
    ASSUME NEW S \in SUBSET Runs, NEW rn \in Runs, NEW s,
           Spans(s, S, MachineOf[rn])
    PROVE  Spans(Merged(s, rn), S \cup {rn}, MachineOf[rn])
<1> DEFINE m == MachineOf[rn]
           Old == {q \in S : MachineOf[q] = m}
           New == {q \in S \cup {rn} : MachineOf[q] = m}
           t == Merged(s, rn)
<1>1. New = Old \cup {rn} /\ Old \subseteq Runs
  OBVIOUS
<1>2. \A q \in Runs : Started[q] \in Nat /\ Finished[q] \in Nat
  BY RunsAssumption
<1>3. /\ t.first = IF s = Unseen \/ Started[rn] < s.first THEN Started[rn] ELSE s.first
      /\ t.last = IF Finished[rn] > s.last THEN Finished[rn] ELSE s.last
  BY DEF Merged
<1>4. CASE Old = {}
  <2>1. s = Unseen /\ New = {rn}
    BY <1>1, <1>4 DEF Spans
  <2>2. s.last = -1
    BY <2>1 DEF Unseen
  <2>3. t.first = Started[rn] /\ t.last = Finished[rn]
    BY <1>2, <1>3, <2>1, <2>2
  <2> QED BY <1>2, <2>1, <2>3 DEF Spans
<1>5. CASE Old # {}
  <2>1. /\ \E q \in Old : s.first = Started[q]
        /\ \E q \in Old : s.last = Finished[q]
        /\ \A q \in Old : s.first <= Started[q] /\ s.last >= Finished[q]
    BY <1>5 DEF Spans
  <2>2. s.first \in Nat /\ s.last \in Nat
    BY <1>1, <1>2, <2>1
  <2>3. s # Unseen
    BY <2>2 DEF Unseen
  <2>4. /\ \E q \in New : t.first = Started[q]
        /\ \E q \in New : t.last = Finished[q]
    BY <1>1, <1>3, <2>1, <2>3
  <2>5. \A q \in New : t.first <= Started[q] /\ t.last >= Finished[q]
    BY <1>1, <1>2, <1>3, <2>1, <2>2, <2>3
  <2> QED BY <1>1, <2>4, <2>5 DEF Spans
<1> QED BY <1>4, <1>5

\* A run says nothing about the machines it was not made on.
LEMMA OthersSpan ==
    ASSUME NEW S, NEW rn, NEW s, NEW m, m # MachineOf[rn], Spans(s, S, m)
    PROVE  Spans(s, S \cup {rn}, m)
<1>1. {q \in S \cup {rn} : MachineOf[q] = m} = {q \in S : MachineOf[q] = m}
  OBVIOUS
<1> QED BY <1>1 DEF Spans

SeenInv ==
    /\ DOMAIN seen = Machines
    /\ \A m \in Machines : Spans(seen[m], runs, m)

\* Only a commit touches the stored runs and the machines' dates, and it does
\* both at once.
LEMMA NextSeenInv ==
    ASSUME IInv, SeenInv, [Next]_vars
    PROVE  SeenInv'
<1>1. CASE runs' = runs /\ seen' = seen
  BY <1>1 DEF SeenInv, Spans
<1>2. ASSUME NEW r \in Requests, Commit(r) \/ CommitUnreported(r) PROVE SeenInv'
  <2>1. /\ runs' = runs \cup {run[r]}
        /\ seen' = [seen EXCEPT ![MachineOf[run[r]]] = Merged(@, run[r])]
        /\ pc[r] = "commit"
    BY <1>2 DEF Commit, CommitUnreported, CommitRows
  <2>2. run[r] \in Runs /\ runs \in SUBSET Runs /\ MachineOf[run[r]] \in Machines
    BY <2>1, RunsAssumption DEF IInv, TypeOK, RequestInv, CarriesChunk
  <2>3. ASSUME NEW m \in Machines PROVE Spans(seen'[m], runs', m)
    <3>1. CASE m = MachineOf[run[r]]
      <4>1. seen'[m] = Merged(seen[m], run[r])
        BY <2>1, <3>1 DEF SeenInv
      <4>2. Spans(seen[m], runs, m)
        BY DEF SeenInv
      <4> QED BY <2>1, <2>2, <3>1, <4>1, <4>2, MergedSpans
    <3>2. CASE m # MachineOf[run[r]]
      <4>1. seen'[m] = seen[m]
        BY <2>1, <3>2 DEF SeenInv
      <4>2. Spans(seen[m], runs, m)
        BY DEF SeenInv
      <4> QED BY <2>1, <3>2, <4>1, <4>2, OthersSpan
    <3> QED BY <3>1, <3>2
  <2>4. DOMAIN seen' = Machines
    BY <2>1 DEF SeenInv
  <2> QED BY <2>3, <2>4 DEF SeenInv, Spans
<1>3. CASE UNCHANGED vars
  BY <1>1, <1>3 DEF vars, database
<1>4. CASE Next
  <2> PICK r \in Requests :
        \/ \E rn \in Runs : \E c \in DOMAIN Chunks[rn] : Arrive(r, rn, c)
        \/ Serve(r) \/ CommitUnreported(r) \/ Fail(r)
    BY <1>4 DEF Next
  <2>1. CASE Commit(r) \/ CommitUnreported(r)
    BY <1>2, <2>1
  <2>2. CASE ~(Commit(r) \/ CommitUnreported(r))
    BY <1>1, <2>2 DEF Serve, Arrive, UpsertMachine, InsertRun, Add, FinalFlush,
       FlushCopy, FlushConflict, FlushDedup, Fail, database
  <2> QED BY <2>1, <2>2
<1> QED BY <1>3, <1>4

\* upsertMachine's first_seen and last_seen are the earliest start and the
\* latest finish of the machine's stored runs, in whatever order and however
\* often the runs were ingested.
THEOREM DatesSpanRuns == Spec => []SeenSpansRuns
<1>1. Init => SeenInv
  BY DEF Init, SeenInv, Spans
<1>2. IInv /\ SeenInv /\ [Next]_vars => SeenInv'
  BY NextSeenInv
<1>3. SeenInv => SeenSpansRuns
  BY DEF SeenInv, Spans, SeenSpansRuns
<1> QED BY <1>1, <1>2, <1>3, Invariance, PTL DEF Spec

-----------------------------------------------------------------------------
(* The upload. *)

\* What the client knows of a request in flight survives a step of the server.
LEMMA ServerKeeps ==
    ASSUME IInv, NEW r \in Requests, Serve(r) \/ CommitUnreported(r) \/ Fail(r)
    PROVE  /\ run' = run /\ chunk' = chunk
           /\ \A s \in Requests : pc[s] # "absent" => pc'[s] # "absent"
<1>1. run' = run /\ chunk' = chunk
  BY DEF Serve, UpsertMachine, InsertRun, Add, FinalFlush, FlushCopy,
     FlushConflict, FlushDedup, Commit, CommitUnreported, Fail, Forget, locals
<1>2. pc \in [Requests -> States]
  BY DEF IInv, TypeOK
<1>3. \/ pc' = pc
      \/ \E to \in States \ {"absent"} : pc' = [pc EXCEPT ![r] = to]
  BY DEF Serve, UpsertMachine, InsertRun, Add, FinalFlush, FlushCopy,
     FlushConflict, FlushDedup, Commit, CommitUnreported, Fail, Goto,
     AfterFlush, States
<1> QED BY <1>1, <1>2, <1>3

\* Stored measurements stay stored.
LEMMA RowsGrow ==
    ASSUME [Next]_vars
    PROVE  rows \subseteq rows'
BY OnlyCommitWrites

\* Every step of the composition is a step of the ingest path, or leaves it
\* alone: the client always sends a chunk its run has.
LEMMA UploadIsIngest ==
    ASSUME UploadInv, [UploadNext]_allVars
    PROVE  [Next]_vars
<1>1. CASE ServerStep
  BY <1>1 DEF ServerStep, Next
<1>2. ASSUME NEW rn \in Runs, SendRequest(rn) PROVE [Next]_vars
  <2>1. part[rn] \in DOMAIN Chunks[rn]
    BY DEF UploadInv, ClientInv
  <2>2. PICK r \in Requests : Arrive(r, rn, part[rn])
    BY <1>2 DEF SendRequest
  <2> QED BY <2>1, <2>2 DEF Next
<1>3. ASSUME NEW rn \in Runs,
             \/ StartPost(rn) \/ RefuseUrl(rn) \/ ResolveFails(rn)
             \/ ConnectFails(rn) \/ LoseAnswer(rn) \/ ReceiveAnswer(rn)
      PROVE [Next]_vars
  BY <1>3 DEF StartPost, RefuseUrl, ResolveFails, ConnectFails, LoseAnswer, ReceiveAnswer
<1>4. CASE UNCHANGED allVars
  BY <1>4 DEF allVars
<1> QED BY <1>1, <1>2, <1>3, <1>4 DEF UploadNext, ClientStep

\* A client that is not moved keeps its invariant while the store grows.
LEMMA ClientFrame ==
    ASSUME ClientType, NEW rn \in Runs, ClientInv(rn), rows \subseteq rows',
           cpc'[rn] = cpc[rn], part'[rn] = part[rn], rc'[rn] = rc[rn],
           cur'[rn] = cur[rn],
           cpc[rn] = "wait" =>
             /\ pc'[cur[rn]] # "absent"
             /\ run'[cur[rn]] = run[cur[rn]] /\ chunk'[cur[rn]] = chunk[cur[rn]]
    PROVE  ClientInv(rn)'
<1>1. \A n : StoredUpTo(rn, n) => StoredUpTo(rn, n)'
  BY DEF StoredUpTo
<1> QED BY <1>1 DEF ClientInv

\* Initially no post has begun.
LEMMA UploadInitInv == UploadInit => UploadInv
<1> SUFFICES ASSUME UploadInit PROVE UploadInv
  OBVIOUS
<1>1. IInv
  BY InitIInv DEF UploadInit
<1>2. ClientType
  BY DEF UploadInit, ClientType
<1>3. ASSUME NEW rn \in Runs PROVE ClientInv(rn)
  <2>1. part[rn] = 1 /\ cpc[rn] = "idle"
    BY DEF UploadInit
  <2>2. Chunks[rn] \in Seq(Seq(Nat)) /\ Chunks[rn] # <<>>
    BY ChunksAssumption, ClientAssumption
  <2>3. 1 \in DOMAIN Chunks[rn] /\ DOMAIN Chunks[rn] \subseteq Nat \ {0}
    BY <2>2
  <2>4. StoredUpTo(rn, 0)
    BY <2>3 DEF StoredUpTo
  <2> QED BY <2>1, <2>3, <2>4 DEF ClientInv
<1> QED BY <1>1, <1>2, <1>3 DEF UploadInv

\* The server's steps leave the client alone.
LEMMA ServerStepInv ==
    ASSUME UploadInv, ServerStep
    PROVE  UploadInv'
<1>1. [Next]_vars /\ IInv
  BY UploadIsIngest DEF UploadInv, UploadNext
<1>2. IInv' /\ rows \subseteq rows'
  BY <1>1, NextIInv, RowsGrow
<1>3. cpc' = cpc /\ part' = part /\ rc' = rc /\ cur' = cur
  BY DEF ServerStep, client
<1>4. /\ run' = run /\ chunk' = chunk
      /\ \A s \in Requests : pc[s] # "absent" => pc'[s] # "absent"
  BY <1>1, ServerKeeps DEF ServerStep
<1>5. ClientType'
  BY <1>3 DEF UploadInv, ClientType
<1>6. ASSUME NEW rn \in Runs PROVE ClientInv(rn)'
  <2>1. ClientInv(rn) /\ ClientType
    BY DEF UploadInv
  <2>2. cpc[rn] = "wait" => pc'[cur[rn]] # "absent"
    BY <1>4, <2>1 DEF ClientInv
  <2> QED BY <1>2, <1>3, <1>4, <2>1, <2>2, ClientFrame
<1> QED BY <1>2, <1>5, <1>6 DEF UploadInv

\* Sending a chunk: the request taken is one that nobody waits for.
LEMMA SendInv ==
    ASSUME UploadInv, NEW rn \in Runs, SendRequest(rn)
    PROVE  UploadInv'
<1>1. [Next]_vars /\ IInv /\ ClientType
  BY UploadIsIngest DEF UploadInv, UploadNext, ClientStep
<1>2. IInv' /\ rows \subseteq rows'
  BY <1>1, NextIInv, RowsGrow
<1>3. PICK r \in Requests :
        /\ pc[r] = "absent" /\ Arrive(r, rn, part[rn])
        /\ cur' = [cur EXCEPT ![rn] = r]
  BY DEF SendRequest, Arrive
<1>4. /\ cpc' = [cpc EXCEPT ![rn] = "wait"]
      /\ part' = part /\ rc' = rc
  BY DEF SendRequest
<1>5. /\ pc' = [pc EXCEPT ![r] = "begin"] /\ run' = [run EXCEPT ![r] = rn]
      /\ chunk' = [chunk EXCEPT ![r] = Chunks[rn][part[rn]]]
      /\ r \in DOMAIN pc /\ r \in DOMAIN run /\ r \in DOMAIN chunk
  BY <1>1, <1>3 DEF Arrive, Goto, IInv, TypeOK
<1>6. ClientType'
  BY <1>1, <1>3, <1>4 DEF ClientType
<1>7. ClientInv(rn)'
  <2>1. ClientInv(rn)
    BY DEF UploadInv
  <2>2. /\ cpc'[rn] = "wait" /\ cur'[rn] = r
        /\ pc'[r] = "begin" /\ run'[r] = rn /\ chunk'[r] = Chunks[rn][part[rn]]
    BY <1>1, <1>3, <1>4, <1>5 DEF ClientType
  <2>3. StoredUpTo(rn, part[rn] - 1) => StoredUpTo(rn, part[rn] - 1)'
    BY <1>2, <1>4 DEF StoredUpTo
  <2> QED BY <1>4, <2>1, <2>2, <2>3 DEF ClientInv
<1>8. ASSUME NEW q \in Runs \ {rn} PROVE ClientInv(q)'
  <2>1. ClientInv(q) /\ ClientType
    BY DEF UploadInv
  <2>2. cpc'[q] = cpc[q] /\ cur'[q] = cur[q]
    BY <1>1, <1>3, <1>4 DEF ClientType
  <2>3. cpc[q] = "wait" => cur[q] \in Requests /\ cur[q] # r
    BY <1>3, <2>1 DEF ClientInv
  <2>4. cpc[q] = "wait" =>
          /\ pc'[cur[q]] # "absent"
          /\ run'[cur[q]] = run[cur[q]] /\ chunk'[cur[q]] = chunk[cur[q]]
    BY <1>1, <1>5, <2>1, <2>3 DEF ClientInv, IInv, TypeOK
  <2> QED BY <1>2, <1>4, <2>1, <2>2, <2>4, ClientFrame
<1> QED BY <1>2, <1>6, <1>7, <1>8 DEF UploadInv

\* The client's other steps change nothing on the server: it is enough that
\* the client that moves keeps its own invariant.
LEMMA ClientOnly ==
    ASSUME UploadInv, UNCHANGED vars, NEW rn \in Runs, ClientType', ClientInv(rn)',
           cur' = cur,
           \A q \in Runs \ {rn} :
             cpc'[q] = cpc[q] /\ part'[q] = part[q] /\ rc'[q] = rc[q]
    PROVE  UploadInv'
<1>1. IInv' /\ rows' = rows /\ pc' = pc /\ run' = run /\ chunk' = chunk
  BY NextIInv DEF UploadInv, vars, locals, database
<1>2. ASSUME NEW q \in Runs \ {rn} PROVE ClientInv(q)'
  <2>1. ClientInv(q) /\ ClientType
    BY DEF UploadInv
  <2> QED BY <1>1, <2>1, ClientFrame DEF ClientInv
<1> QED BY <1>1, <1>2 DEF UploadInv

\* A new post starts again from the first chunk.
LEMMA StartInv ==
    ASSUME UploadInv, NEW rn \in Runs, StartPost(rn)
    PROVE  UploadInv'
<1>1. ClientType /\ UNCHANGED vars
  BY DEF UploadInv, StartPost
<1>2. ClientType'
  BY <1>1 DEF StartPost, ClientType
<1>3. ClientInv(rn)'
  <2>1. part'[rn] = 1 /\ cpc'[rn] = "send"
    BY <1>1 DEF StartPost, ClientType
  <2>2. Chunks[rn] \in Seq(Seq(Nat)) /\ Chunks[rn] # <<>>
    BY ChunksAssumption, ClientAssumption
  <2>3. 1 \in DOMAIN Chunks[rn] /\ DOMAIN Chunks[rn] \subseteq Nat \ {0}
    BY <2>2
  <2>4. StoredUpTo(rn, 0)'
    BY <2>3 DEF StoredUpTo
  <2> QED BY <2>1, <2>3, <2>4 DEF ClientInv
<1> QED BY <1>1, <1>2, <1>3, ClientOnly DEF StartPost, ClientType

\* A lost attempt goes to the next address, or spoils the exit code.
LEMMA LostInv ==
    ASSUME UploadInv, NEW rn \in Runs, ConnectFails(rn) \/ LoseAnswer(rn)
    PROVE  UploadInv'
<1>1. ClientType /\ ClientInv(rn)
  BY DEF UploadInv
<1>2. NextAddress(rn) /\ part' = part /\ cur' = cur /\ UNCHANGED vars
  BY DEF ConnectFails, LoseAnswer
<1>3. /\ ClientType'
      /\ \A q \in Runs \ {rn} : cpc'[q] = cpc[q] /\ rc'[q] = rc[q]
      /\ cpc'[rn] \in {"send", "ended"}
      /\ rc'[rn] = 0 => rc[rn] = 0 /\ cpc'[rn] = "send"
  BY <1>1, <1>2 DEF NextAddress, ClientType
<1>4. rows' = rows
  BY <1>2 DEF vars, database
<1>5. ClientInv(rn)'
  BY <1>1, <1>2, <1>3, <1>4 DEF ClientInv, StoredUpTo
<1> QED BY <1>2, <1>3, <1>5, ClientOnly

\* An upload that cannot even begin, or whose host cannot be resolved, ends with
\* exit code 1.
LEMMA GiveUpInv ==
    ASSUME UploadInv, NEW rn \in Runs, RefuseUrl(rn) \/ ResolveFails(rn)
    PROVE  UploadInv'
<1>1. ClientType /\ ClientInv(rn)
  BY DEF UploadInv
<1>2. /\ cpc' = [cpc EXCEPT ![rn] = "ended"] /\ rc' = [rc EXCEPT ![rn] = 1]
      /\ part' = part /\ cur' = cur /\ UNCHANGED vars
  BY DEF RefuseUrl, ResolveFails
<1>3. /\ ClientType'
      /\ \A q \in Runs \ {rn} : cpc'[q] = cpc[q] /\ rc'[q] = rc[q]
      /\ cpc'[rn] = "ended" /\ rc'[rn] = 1
  BY <1>1, <1>2 DEF ClientType
<1>4. ClientInv(rn)'
  BY <1>1, <1>2, <1>3 DEF ClientInv
<1> QED BY <1>2, <1>3, <1>4, ClientOnly

\* An answer of 200 means that the chunk in hand is stored (AnsweredMeansStored).
LEMMA AnswerInv ==
    ASSUME UploadInv, NEW rn \in Runs, ReceiveAnswer(rn)
    PROVE  UploadInv'
<1>1. /\ ClientType /\ ClientInv(rn) /\ IInv
      /\ UNCHANGED vars /\ cur' = cur /\ rows' = rows
  BY DEF UploadInv, ReceiveAnswer, vars, database
<1>2. PICK p \in Nat : p = part[rn] /\ p \in DOMAIN Chunks[rn]
  BY <1>1 DEF ClientInv, ClientType
<1>3. /\ DOMAIN Chunks[rn] = 1..Len(Chunks[rn]) /\ Len(Chunks[rn]) \in Nat
      /\ DOMAIN Chunks[rn][p] = 1..Len(Chunks[rn][p])
  BY <1>2, ChunksAssumption
<1>4. rc' \in [Runs -> 0..1] /\ \A q \in Runs \ {rn} : rc'[q] = rc[q]
  BY <1>1 DEF ReceiveAnswer, ClientType
<1>5. ASSUME rc'[rn] = 0 PROVE StoredUpTo(rn, p)'
  <2>1. rc[rn] = 0 /\ reply[cur[rn]] = "stored"
    BY <1>1, <1>5 DEF ReceiveAnswer, ClientType
  <2>2. /\ cur[rn] \in Requests /\ run[cur[rn]] = rn
        /\ chunk[cur[rn]] = Chunks[rn][p]
    BY <1>1, <1>2 DEF ReceiveAnswer, ClientInv
  <2>3. RowsOf(cur[rn]) \subseteq rows
    BY <1>1, <2>1, <2>2 DEF IInv, RequestInv
  <2>4. \A i \in DOMAIN Chunks[rn][p] : <<rn, Chunks[rn][p][i]>> \in rows
    BY <1>3, <2>2, <2>3 DEF RowsOf, Key
  <2>5. StoredUpTo(rn, p - 1)
    BY <1>1, <1>2, <2>1 DEF ClientInv
  <2>6. \A c \in DOMAIN Chunks[rn] : c <= p => c <= p - 1 \/ c = p
    BY <1>2, <1>3
  <2> QED BY <1>1, <2>4, <2>5, <2>6 DEF StoredUpTo
<1>6. CASE p < Len(Chunks[rn])
  <2>1. /\ cpc' = [cpc EXCEPT ![rn] = "send"]
        /\ part' = [part EXCEPT ![rn] = p + 1]
    BY <1>2, <1>6 DEF ReceiveAnswer
  <2>2. ClientType' /\ \A q \in Runs \ {rn} : cpc'[q] = cpc[q] /\ part'[q] = part[q]
    BY <1>1, <1>2, <1>4, <2>1 DEF ClientType
  <2>3. cpc'[rn] = "send" /\ part'[rn] = p + 1
    BY <1>1, <2>1 DEF ClientType
  <2>4. p + 1 \in DOMAIN Chunks[rn] /\ (p + 1) - 1 = p
    BY <1>2, <1>3, <1>6
  <2>5. ClientInv(rn)'
    BY <1>5, <2>3, <2>4 DEF ClientInv, StoredUpTo
  <2> QED BY <1>1, <1>4, <2>2, <2>5, ClientOnly
<1>7. CASE ~(p < Len(Chunks[rn]))
  <2>1. cpc' = [cpc EXCEPT ![rn] = "ended"] /\ part' = part
    BY <1>2, <1>7 DEF ReceiveAnswer
  <2>2. ClientType' /\ \A q \in Runs \ {rn} : cpc'[q] = cpc[q]
    BY <1>1, <1>4, <2>1 DEF ClientType
  <2>3. cpc'[rn] = "ended" /\ part'[rn] = p
    BY <1>1, <1>2, <2>1 DEF ClientType
  <2>4. p = Len(Chunks[rn])
    BY <1>2, <1>3, <1>7
  <2>5. rc'[rn] = 0 => StoredUpTo(rn, p - 1)'
    <3>1. \A c \in DOMAIN Chunks[rn] : c <= p - 1 => c <= p
      BY <1>2, <1>3
    <3> QED BY <1>5, <3>1 DEF StoredUpTo
  <2>6. ClientInv(rn)'
    BY <1>2, <1>5, <2>3, <2>4, <2>5 DEF ClientInv, StoredUpTo
  <2> QED BY <1>1, <1>4, <2>1, <2>2, <2>6, ClientOnly
<1> QED BY <1>6, <1>7

\* Every step of the composition keeps the invariant.
LEMMA UploadNextInv ==
    ASSUME UploadInv, [UploadNext]_allVars
    PROVE  UploadInv'
<1>1. CASE ServerStep
  BY <1>1, ServerStepInv
<1>2. CASE \E rn \in Runs : StartPost(rn) \/ RefuseUrl(rn) \/ ClientStep(rn)
  BY <1>2, StartInv, GiveUpInv, SendInv, LostInv, AnswerInv DEF ClientStep
<1>3. CASE UNCHANGED allVars
  <2>1. UNCHANGED vars /\ UNCHANGED client
    BY <1>3 DEF allVars
  <2>2. IInv' /\ ClientType'
    BY <2>1, NextIInv DEF UploadInv, client, ClientType
  <2>3. ASSUME NEW rn \in Runs PROVE ClientInv(rn)'
    <3>1. ClientInv(rn) /\ ClientType
      BY DEF UploadInv
    <3> QED BY <2>1, <3>1, ClientFrame DEF ClientInv, client, vars, locals, database
  <2> QED BY <2>2, <2>3 DEF UploadInv
<1> QED BY <1>1, <1>2, <1>3 DEF UploadNext

-----------------------------------------------------------------------------

\* The invariant of the composition.
THEOREM UploadInvariance == UploadSpec => []UploadInv
<1>1. UploadInit => UploadInv
  BY UploadInitInv
<1>2. UploadInv /\ [UploadNext]_allVars => UploadInv'
  BY UploadNextInv
<1> QED BY <1>1, <1>2, PTL DEF UploadSpec

\* post_envelope returns 0 only when every chunk of the run is stored, whatever
\* was lost, retried or failed on the way.
THEOREM ExitZeroIsStored == UploadSpec => []ExitZeroMeansStored
<1>1. UploadInv => ExitZeroMeansStored
  <2> SUFFICES ASSUME UploadInv, NEW rn \in Runs, cpc[rn] = "ended", rc[rn] = 0
               PROVE  AllOf(rn) \subseteq rows
    BY DEF ExitZeroMeansStored
  <2>1. StoredUpTo(rn, Len(Chunks[rn]))
    BY DEF UploadInv, ClientInv
  <2>2. \A c \in DOMAIN Chunks[rn] : c <= Len(Chunks[rn])
    BY ChunksAssumption
  <2>3. ASSUME NEW row \in AllOf(rn) PROVE row \in rows
    <3>1. PICK c \in DOMAIN Chunks[rn] :
            row \in {<<rn, Chunks[rn][c][i]>> : i \in DOMAIN Chunks[rn][c]}
      BY <2>3 DEF AllOf, ChunkRows
    <3>2. \A i \in DOMAIN Chunks[rn][c] : <<rn, Chunks[rn][c][i]>> \in rows
      BY <2>1, <2>2 DEF StoredUpTo
    <3> QED BY <3>1, <3>2
  <2> QED BY <2>3
<1> QED BY <1>1, UploadInvariance, PTL

\* "a chunk that is sent twice adds nothing": also with the client's retries
\* and repeated posts the store changes as RunStore says.
THEOREM UploadRefinesRunStore == UploadSpec => UploadImplementsRunStore
<1>1. UploadInit => Abstract!Init
  BY DEF UploadInit, Init, Abstract!Init
<1>2. UploadInv /\ [UploadNext]_allVars => [Abstract!Next]_rows
  <2> SUFFICES ASSUME UploadInv, [UploadNext]_allVars, rows' # rows
               PROVE  Abstract!Next
    OBVIOUS
  <2>1. [Next]_vars /\ IInv
    BY UploadIsIngest DEF UploadInv
  <2>2. PICK r \in Requests : pc[r] = "commit" /\ rows' = rows \cup fresh[r]
    BY <2>1, OnlyCommitWrites
  <2>3. run[r] \in Runs /\ Abstract!StoreChunk(run[r])
    BY <2>1, <2>2, CommitStores
  <2> QED BY <2>3 DEF Abstract!Next
<1> QED BY <1>1, <1>2, UploadInvariance, PTL
        DEF UploadSpec, UploadImplementsRunStore, Abstract!Spec

=============================================================================
