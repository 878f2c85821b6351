------------------------------- MODULE Ingest -------------------------------
(***************************************************************************)
(* The API's ingest path: handleIngestRun, IngestStream and the ingestion  *)
(* object (api/internal/store/ingest.go), for requests that run            *)
(* concurrently against one Postgres database.                             *)
(*                                                                         *)
(* A measurement is the key of its row: the tuple the unique index         *)
(* measurements_dedup_idx covers, written <<run, k>>.  A request carries   *)
(* one chunk of a run, a sequence of keys in which a key may be repeated.  *)
(* Its transaction is modelled by what Postgres does for it (read          *)
(* committed): upserting the machine row holds that row's lock until the   *)
(* transaction ends, uncommitted rows are seen by nobody else, COPY fails  *)
(* as a whole on a key that exists.  A request may fail at any point: the  *)
(* document turns out to be invalid, the client goes away, the database    *)
(* or the process fails; a commit may take effect although it is reported  *)
(* as failed.                                                              *)
(***************************************************************************)
EXTENDS Integers, Sequences, FiniteSets

CONSTANTS Requests,       \* the POSTs that may arrive
          Runs,           \* run ids
          Machines,       \* machine ids
          MachineOf,      \* the machine each run was made on
          Started,        \* env.StartedAt of each run
          Finished,       \* env.FinishedAt of each run
          Chunks,         \* per run, the chunks it is sent in: sequences of keys
          CopyBatchRows   \* copyBatchRows

ASSUME RunsAssumption ==
    /\ MachineOf \in [Runs -> Machines]
    /\ Started \in [Runs -> Nat] /\ Finished \in [Runs -> Nat]
    /\ \A run \in Runs : Started[run] <= Finished[run]
ASSUME ChunksAssumption ==
    Chunks \in [Runs -> Seq(Seq(Nat) \ {<<>>})]
ASSUME BatchAssumption == CopyBatchRows \in Nat \ {0}
ASSUME NobodyAssumption == "nobody" \notin Requests

VARIABLES
    pc,         \* where each request is
    run,        \* the run it belongs to
    chunk,      \* the keys it carries
    decoded,    \* in.results: results streamed out of the body so far
    flushed,    \* how many of them have left the batch in.rows
    dedup,      \* in.dedup
    inserted, skipped,   \* in.inserted, in.skipped
    fresh,      \* rows this transaction has inserted and not committed
    reply,      \* what the client would be answered
    lock,       \* per machine, the transaction holding its row
    rows, runs, \* committed measurements and runs
    seen        \* committed machines: first_seen and last_seen

locals   == <<run, chunk, decoded, flushed, dedup, inserted, skipped, fresh>>
database == <<rows, runs, seen>>
vars     == <<pc, locals, reply, lock, database>>

Nobody == "nobody"
Unseen == [first |-> -1, last |-> -1]
NoRun  == "none"

Init ==
    /\ pc = [r \in Requests |-> "absent"]
    /\ run = [r \in Requests |-> NoRun]
    /\ chunk = [r \in Requests |-> <<>>]
    /\ decoded = [r \in Requests |-> 0]
    /\ flushed = [r \in Requests |-> 0]
    /\ dedup = [r \in Requests |-> FALSE]
    /\ inserted = [r \in Requests |-> 0]
    /\ skipped = [r \in Requests |-> 0]
    /\ fresh = [r \in Requests |-> {}]
    /\ reply = [r \in Requests |-> "none"]
    /\ lock = [m \in Machines |-> Nobody]
    /\ rows = {} /\ runs = {}
    /\ seen = [m \in Machines |-> Unseen]

Goto(r, to) == pc' = [pc EXCEPT ![r] = to]
Key(r, i) == <<run[r], chunk[r][i]>>

\* The rows of a request, and of its batch in.rows.
RowsOf(r) == {Key(r, i) : i \in 1..Len(chunk[r])}
BatchIndices(r) == (flushed[r] + 1)..decoded[r]
Batch(r) == {Key(r, i) : i \in BatchIndices(r)}
BatchLen(r) == decoded[r] - flushed[r]

-----------------------------------------------------------------------------

\* A POST arrives with a chunk of a run.
Arrive(r, rn, c) ==
    /\ pc[r] = "absent"
    /\ run' = [run EXCEPT ![r] = rn]
    /\ chunk' = [chunk EXCEPT ![r] = Chunks[rn][c]]
    /\ Goto(r, "begin")
    /\ UNCHANGED <<decoded, flushed, dedup, inserted, skipped, fresh, reply,
                   lock, database>>

\* beginIngest: upsertMachine waits for, and then holds, the machine's row.
UpsertMachine(r) ==
    /\ pc[r] = "begin"
    /\ lock[MachineOf[run[r]]] = Nobody
    /\ lock' = [lock EXCEPT ![MachineOf[run[r]]] = r]
    /\ Goto(r, "insertRun")
    /\ UNCHANGED <<locals, reply, database>>

\* Mutant: a run that exists already is taken to be a new one.
InsertRunAlwaysNew(r) ==
    /\ pc[r] = "insertRun"
    /\ dedup' = [dedup EXCEPT ![r] = FALSE]
    /\ Goto(r, "stream")
    /\ UNCHANGED <<run, chunk, decoded, flushed, inserted, skipped, fresh,
                   reply, lock, database>>

\* INSERT INTO runs ... ON CONFLICT DO NOTHING: no row affected means the run
\* exists, and every batch is checked for conflicts from the start.
InsertRun(r) ==
    /\ pc[r] = "insertRun"
    /\ dedup' = [dedup EXCEPT ![r] = run[r] \in runs]
    /\ Goto(r, "stream")
    /\ UNCHANGED <<run, chunk, decoded, flushed, inserted, skipped, fresh,
                   reply, lock, database>>

\* add(): the next result joins the batch, which is flushed when it is full.
Add(r) ==
    /\ pc[r] = "stream"
    /\ decoded[r] < Len(chunk[r])
    /\ decoded' = [decoded EXCEPT ![r] = @ + 1]
    /\ Goto(r, IF BatchLen(r) + 1 >= CopyBatchRows THEN "flush" ELSE "stream")
    /\ UNCHANGED <<run, chunk, flushed, dedup, inserted, skipped, fresh,
                   reply, lock, database>>

\* COPY straight into measurements would meet a key that exists: stored, in
\* this transaction, or earlier in the same batch.
Conflicts(r) ==
    \/ Batch(r) \cap (rows \cup fresh[r]) # {}
    \/ Cardinality(Batch(r)) < BatchLen(r)

\* Where a flush returns to: add() goes on streaming, commit() to the commit.
AfterFlush(r) == IF decoded[r] = Len(chunk[r]) THEN "commit" ELSE "stream"

\* flush(), fast path: SAVEPOINT, COPY, RELEASE.
FlushCopy(r) ==
    /\ pc[r] = "flush" /\ ~dedup[r]
    /\ ~Conflicts(r)
    /\ fresh' = [fresh EXCEPT ![r] = @ \cup Batch(r)]
    /\ inserted' = [inserted EXCEPT ![r] = @ + BatchLen(r)]
    /\ flushed' = [flushed EXCEPT ![r] = decoded[r]]
    /\ Goto(r, AfterFlush(r))
    /\ UNCHANGED <<run, chunk, decoded, dedup, skipped, reply, lock, database>>

\* Mutant: the batch that failed is not sent again through the temp table.
FlushConflictDropped(r) ==
    /\ pc[r] = "flush" /\ ~dedup[r]
    /\ Conflicts(r)
    /\ dedup' = [dedup EXCEPT ![r] = TRUE]
    /\ flushed' = [flushed EXCEPT ![r] = decoded[r]]
    /\ Goto(r, AfterFlush(r))
    /\ UNCHANGED <<run, chunk, decoded, inserted, skipped, fresh, reply, lock,
                   database>>

\* flush(): the COPY fails with a unique violation; ROLLBACK TO SAVEPOINT, and
\* this batch and all later ones go the checked way.
FlushConflict(r) ==
    /\ pc[r] = "flush" /\ ~dedup[r]
    /\ Conflicts(r)
    /\ dedup' = [dedup EXCEPT ![r] = TRUE]
    /\ UNCHANGED <<pc, run, chunk, decoded, flushed, inserted, skipped, fresh,
                   reply, lock, database>>

NewInBatch(r) == Batch(r) \ (rows \cup fresh[r])

\* Mutant: every row of the batch is counted as inserted.
FlushDedupMiscounted(r) ==
    /\ pc[r] = "flush" /\ dedup[r]
    /\ fresh' = [fresh EXCEPT ![r] = @ \cup NewInBatch(r)]
    /\ inserted' = [inserted EXCEPT ![r] = @ + BatchLen(r)]
    /\ flushed' = [flushed EXCEPT ![r] = decoded[r]]
    /\ Goto(r, AfterFlush(r))
    /\ UNCHANGED <<run, chunk, decoded, dedup, skipped, reply, lock, database>>

\* flushDedup(): through a temp table with ON CONFLICT DO NOTHING.
FlushDedup(r) ==
    /\ pc[r] = "flush" /\ dedup[r]
    /\ fresh' = [fresh EXCEPT ![r] = @ \cup NewInBatch(r)]
    /\ inserted' = [inserted EXCEPT ![r] = @ + Cardinality(NewInBatch(r))]
    /\ skipped' = [skipped EXCEPT ![r] = @ + BatchLen(r) - Cardinality(NewInBatch(r))]
    /\ flushed' = [flushed EXCEPT ![r] = decoded[r]]
    /\ Goto(r, AfterFlush(r))
    /\ UNCHANGED <<run, chunk, decoded, dedup, reply, lock, database>>

\* commit() flushes what is left in the batch once the body has been read and
\* its header validated.
FinalFlush(r) ==
    /\ pc[r] = "stream"
    /\ decoded[r] = Len(chunk[r])
    /\ Goto(r, IF BatchLen(r) > 0 THEN "flush" ELSE "commit")
    /\ UNCHANGED <<locals, reply, lock, database>>

\* Mutant: the last writer's dates replace the machine's.
MergedReplaced(s, rn) == [first |-> Started[rn], last |-> Finished[rn]]

\* first_seen = LEAST(...), last_seen = GREATEST(...)
Merged(s, rn) ==
    [first |-> IF s = Unseen \/ Started[rn] < s.first THEN Started[rn] ELSE s.first,
     last  |-> IF Finished[rn] > s.last THEN Finished[rn] ELSE s.last]

\* Mutant: the connection goes back to the pool with its transaction open.
UnlockMissing(r) == lock

\* The end of a transaction releases the machine's row.
Unlock(r) == [m \in Machines |-> IF lock[m] = r THEN Nobody ELSE lock[m]]

\* What tx.Commit() makes visible.
CommitRows(r) ==
    /\ rows' = rows \cup fresh[r]
    /\ runs' = runs \cup {run[r]}
    /\ seen' = [seen EXCEPT ![MachineOf[run[r]]] = Merged(@, run[r])]
    /\ lock' = Unlock(r)

\* The ingestion object and its transaction end with the request.
Forget(r) ==
    /\ decoded' = [decoded EXCEPT ![r] = 0] /\ flushed' = [flushed EXCEPT ![r] = 0]
    /\ dedup' = [dedup EXCEPT ![r] = FALSE] /\ fresh' = [fresh EXCEPT ![r] = {}]
    /\ inserted' = [inserted EXCEPT ![r] = 0] /\ skipped' = [skipped EXCEPT ![r] = 0]
    /\ UNCHANGED <<run, chunk>>

\* The commit succeeds and the request is answered 200; the commit succeeds
\* and the server is told that it failed, or never gets to answer.
Commit(r) ==
    /\ pc[r] = "commit"
    /\ CommitRows(r)
    /\ reply' = [reply EXCEPT ![r] = "stored"]
    /\ Goto(r, "answered")
    /\ Forget(r)

CommitUnreported(r) ==
    /\ pc[r] = "commit"
    /\ CommitRows(r)
    /\ reply' = [reply EXCEPT ![r] = "error"]
    /\ Goto(r, "answered")
    /\ Forget(r)

\* Mutant: what was flushed before the failure stays.
FailKeepingRows(r) ==
    /\ pc[r] \in {"begin", "insertRun", "stream", "flush", "commit"}
    /\ rows' = rows \cup fresh[r]
    /\ lock' = Unlock(r)
    /\ reply' = [reply EXCEPT ![r] = "error"]
    /\ Goto(r, "answered")
    /\ Forget(r)
    /\ UNCHANGED <<runs, seen>>

\* Anything else that goes wrong: an invalid result, an invalid header found
\* after the last result, too many results, a cancelled context, a database
\* error, a restart.  The transaction is rolled back.
Fail(r) ==
    /\ pc[r] \in {"begin", "insertRun", "stream", "flush", "commit"}
    /\ lock' = Unlock(r)
    /\ reply' = [reply EXCEPT ![r] = "error"]
    /\ Goto(r, "answered")
    /\ Forget(r)
    /\ UNCHANGED database

-----------------------------------------------------------------------------

\* What the server does with a request by itself.
Serve(r) ==
    \/ UpsertMachine(r) \/ InsertRun(r) \/ Add(r) \/ FinalFlush(r)
    \/ FlushCopy(r) \/ FlushConflict(r) \/ FlushDedup(r) \/ Commit(r)

Next ==
    \E r \in Requests :
        \/ \E rn \in Runs : \E c \in DOMAIN Chunks[rn] : Arrive(r, rn, c)
        \/ Serve(r) \/ CommitUnreported(r) \/ Fail(r)

\* Every request's goroutine and every statement it waits for proceeds; a lock
\* that is freed again and again is eventually granted.
Fairness == \A r \in Requests : SF_vars(Serve(r))

Spec == Init /\ [][Next]_vars /\ Fairness

-----------------------------------------------------------------------------
(* Properties *)

States == {"absent", "begin", "insertRun", "stream", "flush", "commit", "answered"}
AllRows == Runs \X Nat
Active == {"insertRun", "stream", "flush", "commit"}   \* past upsertMachine

Counters ==
    /\ inserted \in [Requests -> Nat] /\ skipped \in [Requests -> Nat]
    /\ reply \in [Requests -> {"none", "stored", "error"}]

TypeOK ==
    /\ Counters
    /\ pc \in [Requests -> States]
    /\ run \in [Requests -> Runs \cup {NoRun}]
    /\ chunk \in [Requests -> Seq(Nat)]
    /\ decoded \in [Requests -> Nat] /\ flushed \in [Requests -> Nat]
    /\ dedup \in [Requests -> BOOLEAN]
    /\ fresh \in [Requests -> SUBSET AllRows]
    /\ lock \in [Machines -> Requests \cup {Nobody}]
    /\ rows \in SUBSET AllRows /\ runs \in SUBSET Runs
    /\ \A r \in Requests : flushed[r] <= decoded[r] /\ decoded[r] <= Len(chunk[r])

\* A chunk is stored as a whole or not at all, and stored again it changes
\* nothing: the committed measurements only ever change as RunStore says.
ChunkRows(rn) ==
    {{<<rn, Chunks[rn][c][i]>> : i \in DOMAIN Chunks[rn][c]} : c \in DOMAIN Chunks[rn]}

Abstract == INSTANCE RunStore WITH ChunksOf <- ChunkRows
ImplementsRunStore == Abstract!Spec

\* A request answered 200 has every one of its rows in the table, also those it
\* skipped because another request had stored them.
AnsweredMeansStored ==
    \A r \in Requests : reply[r] = "stored" => RowsOf(r) \subseteq rows

\* IngestResult counts what happened: at the commit, inserted is the number of
\* rows the store grows by, and inserted + skipped the number of results sent,
\* whatever was repeated inside the chunk or stored by others meanwhile.
CountsAreExact ==
    [][\A r \in Requests : (pc[r] = "commit" /\ reply'[r] = "stored") =>
        /\ Cardinality(rows') = Cardinality(rows) + inserted[r]
        /\ inserted[r] + skipped[r] = Len(chunk[r])]_vars

\* "this run is new, so nothing in the table can conflict with it - unless the
\* envelope repeats a configuration itself": while a request copies without
\* checking, no committed row of its run exists, whoever else posts that run.
FastPathIsAlone ==
    \A r \in Requests :
        (pc[r] \in {"stream", "flush"} /\ ~dedup[r]) =>
            \A row \in rows : row[1] # run[r]

\* The upsert of the machine row serialises the transactions of a machine: no
\* two that are past it work on the same machine, so they never hold rows of
\* the same run, none waits for another's rows and no two can deadlock.
RowLocksDisjoint ==
    \A r, s \in Requests :
        (r # s /\ pc[r] \in Active /\ pc[s] \in Active) =>
            MachineOf[run[r]] # MachineOf[run[s]]

\* The machine's dates span exactly the runs stored for it, in whatever order
\* they are ingested.
SeenSpansRuns ==
    \A m \in Machines :
        LET Stored == {rn \in runs : MachineOf[rn] = m}
        IN  IF Stored = {} THEN seen[m] = Unseen
            ELSE /\ \E rn \in Stored : seen[m].first = Started[rn]
                 /\ \E rn \in Stored : seen[m].last = Finished[rn]
                 /\ \A rn \in Stored : /\ seen[m].first <= Started[rn]
                                       /\ seen[m].last >= Finished[rn]

\* Every request is answered: nobody waits for a machine row for ever.
EveryRequestAnswered ==
    \A r \in Requests : (pc[r] = "begin") ~> (pc[r] = "answered")

-----------------------------------------------------------------------------
(* Why it holds: an inductive invariant, proved in UploadProofs. *)

Copying == {"stream", "flush", "commit"}

\* A request that has arrived carries one of its run's chunks.
CarriesChunk(r) ==
    pc[r] # "absent" =>
        /\ run[r] \in Runs
        /\ \E c \in DOMAIN Chunks[run[r]] : chunk[r] = Chunks[run[r]][c]

\* Nothing has been decoded or inserted before the stream is opened.
StartsEmpty(r) ==
    pc[r] \in {"absent", "begin", "insertRun"} =>
        /\ decoded[r] = 0 /\ flushed[r] = 0
        /\ inserted[r] = 0 /\ skipped[r] = 0 /\ fresh[r] = {}

\* A transaction past the upsert holds the row of its machine.
HoldsLock(r) == pc[r] \in Active => lock[MachineOf[run[r]]] = r

\* The fast path is only taken for a run that nobody has committed.
UnheardOf(r) == (pc[r] \in {"stream", "flush"} /\ ~dedup[r]) => run[r] \notin runs

\* What was flushed is stored, or in this transaction: the transaction's rows
\* are new ones of its own chunk, and they are counted.
FlushedIsKept(r) ==
    pc[r] \in Copying =>
        /\ fresh[r] \subseteq RowsOf(r) /\ fresh[r] \cap rows = {}
        /\ \A i \in 1..flushed[r] : Key(r, i) \in rows \cup fresh[r]
        /\ IsFiniteSet(fresh[r]) /\ inserted[r] = Cardinality(fresh[r])
        /\ inserted[r] + skipped[r] = flushed[r]
        /\ pc[r] = "commit" => flushed[r] = Len(chunk[r])

RequestInv(r) ==
    /\ CarriesChunk(r) /\ StartsEmpty(r) /\ HoldsLock(r)
    /\ UnheardOf(r) /\ FlushedIsKept(r)
    /\ reply[r] = "stored" => pc[r] = "answered" /\ RowsOf(r) \subseteq rows

StoreInv == IsFiniteSet(rows) /\ \A row \in rows : row[1] \in runs

IInv == TypeOK /\ StoreInv /\ \A r \in Requests : RequestInv(r)

=============================================================================
