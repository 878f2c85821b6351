# Verification of the benchmark platform

TLA+ models of the benchmark platform: the engine (`engine/`, C++) that runs
micro-benchmarks and emits a run as a JSON envelope, and the API (`api/`, Go) that stores
runs in Postgres and answers queries about them through a Redis cache. TLC checks every
model on small instances; TLAPS proves every safety property of a passing run for all values of the
constants (section 4).

`tlc -config MCX.cfg MCX` runs a model, `tlapm XProofs.tla` checks the proofs of one module.
PROJECT.json ties every definition to the source lines it stands for.

## 1. Inventory

### The system

```
engine: main.cpp ─ run_benchmarks ─┬─ ConfigSession (worker pool) ── workloads ── disk test file
          │        (coordinator)   └─ clock self-test (canary)
          │ envelope (rows, summaries, machine block); bench validate, bench report
          └─ post_envelope / post_json ── HTTP ──┐
                                                 ▼
api: main ─ ListenAndServe ─ middleware (recovery, gzip) ─ mux
     handleIngestRun ─ StreamRunEnvelope ─ IngestStream ─ Postgres: machines, runs, measurements
          └─ InvalidateMachine ─ Redis ◄─ Fetch ─ aggregates, compare, trials
     handleListMeasurements (keyset pages) ─ Postgres
migrate: Up / Down ─ schema_migrations and the scripts ─ Postgres
```

| Component | State | Operations | What is hard | What makes it correct |
|---|---|---|---|---|
| Spinning barrier (`sync.hpp`) | `count_`, `generation_` | arrive, wait, completion | two atomic words, re-entry at once, wrap-around | one leader per phase, stamp before release, nobody left behind |
| Worker pool (`runner.cpp`, `ConfigSession`, `worker`) | latch, gate, two barriers, slots, histograms, trial counters | start, run_one_trial, stop; the worker loop | main reads what workers are about to overwrite; stop; failing setup | what is reported is the trial reported; a stop is seen by all or by none; sessions end |
| Run coordinator (`run_benchmarks`) | sessions, attempts, stop reason, envelope | sequential with canary re-runs, interleaved | Ctrl-C, deadline and budget at any moment; decisions on old readings | the envelope holds whole attempts; a stopped run keeps what it has |
| Disk workloads (`disk_io.cpp`) | the test file, positions | ensure_test_file, open, transfer | the file survives a killed process; pools share it | I/O inside the file, disjoint streams, data that is really there |
| Upload client (`post_envelope`, `post_json`) | chunk, address, exit code | connect, send, receive | lost and late answers, retries of what was done | exit code 0 means stored |
| Ingest (`ingest.go`, `handleIngestRun`) | one transaction per request, batch, counters | begin, add, flush, dedup, commit, fail | concurrent and repeated chunks of one run; commit of unknown outcome | whole chunks only, exact counts |
| Engine command (`main.cpp`, `metric.cpp`, `stats.cpp`, `sysinfo.cpp`, `result.cpp`, `validate.cpp`) | options, the run document, exit code | select, run, write, post, validate, report | two programs with one idea of a document each; trials without work; chunks at the limit | what it emits it accepts itself, and so does the API |
| Stream decoder (`stream.go`, `model.go`) | header, buffered results | decode, hand on, replay, validate | members in any order, the header checked last | rows in order, none lost or doubled; nothing invalid is answered 200 |
| Cache (`cache.go`, `cacheKey`) | Redis keys and key sets, breaker | Fetch, InvalidateMachine, note/ok/up | invalidation races a load; Redis fails; queries with one key | requests are answered, staleness is bounded, a query gets its own answer |
| Read handlers (`handlers.go`, `analytics.go`, `queries.go`, `aggregates.go`, `lttb.go`) | none; the client's cursor | pages, trials, downsampling | commits between pages; ids out of order; index arithmetic | no row twice, none missed, the points selected are the rows returned |
| Migrations (`migrations.go`, `cmd/migrate`) | `schema_migrations`, the schema | up, down | migrators that run at once or are killed; scripts that wait for requests | the record is what the database has |
| Server life cycle and middleware (`cmd/api`, `server.go`, `middleware.go`) | listener, pool of connections, response writers | start, serve, drain, stop; recover, compress | shutdown during requests, panics, an exhausted pool, locks of scripts | accepted requests are finished, responses are well formed, nobody waits for ever |

What is left out is listed in section 6, with reasons per component in PROJECT.json.

### Hazards

The full list, each at its line, is in PROJECT.json. The ones the models were built for:
the barrier's two atomic words; histograms read while the next trial is prepared; stop
against the start barrier and the gate; attempts, canaries and deadlines; interrupted fills
of the test file; overlapping ingests of one run and commits of unknown outcome; timeouts
racing late answers; loads racing invalidations; keyset pages racing commits; envelopes with
their members in any order; two programs' ideas of a valid document; migrators beside each
other and beside requests; shutdown, panics and an exhausted pool.

Three hazards are known and covered by no property, because no text of the repository says what
should happen: a `std::jthread` constructor that throws when other workers exist already
(runner.cpp:486), after which `stop()` waits for workers that do not; `run_batch()` throwing on an
I/O error inside a worker (disk_io.cpp:262), which ends the process; and `write_json` checking that
the file opens and not that it was written (main.cpp:60-73), so that a full disk leaves half a
document and exit code 0. `Session` and `Command` have these outcomes.

## 2. Modules

| Module | Models | Lines of argument |
|---|---|---|
| `Barrier` | what a reusable barrier promises: everyone arrives, then everyone leaves | abstract specification |
| `SpinBarrier` | `SpinBarrier` of `sync.hpp`, one action per atomic access; the counter wraps at `GenMod` | implements `Barrier` |
| `Session` | `worker()`, `Gate`, `ConfigSession`, the double-buffered histograms | uses two `Barrier`s |
| `Coordinator` | `run_benchmarks` over sessions reduced to their counters; a trial is one step | |
| `DiskFile` | the test file over any sequence of `bench` commands; unit: the 1 MiB block | |
| `RunStore` | what the store promises: it grows by whole chunks | abstract specification |
| `Ingest` | one transaction per POST against Postgres' row locks, unique index and commit | implements `RunStore` |
| `Upload` | `post_envelope`/`post_json` composed with `Ingest` | implements `RunStore` |
| `CacheAside` | `Fetch`, `InvalidateMachine`, the breaker, `cacheKey`; an answer is the versions of its machines | |
| `Reads` | keyset pages and downsampled trials while ingests commit | |
| `Metrics` | the registry of workloads and metrics of the engine and that of the API; values, working sets, cold regions | operators |
| `Statistics` | `summarize()` and the percentiles | operators |
| `Command` | `bench run` from options to exit code, `bench validate`, `bench report`; the machine block and the document | |
| `Envelope` | `StreamRunEnvelope` with validation and the answers of `handleIngestRun`, one member or row per step | |
| `Document` | `Command` composed with `Envelope`, and documents of other clients | |
| `Migrations` | any number of migrators over `schema_migrations` and the three scripts | |
| `Server` | the API process, its requests, recovery and gzip, the pool of connections | |
| `Service` | `Server` composed with `Migrations` through Postgres' table locks | |
| `MC*` | the instances TLC checks | |
| `SpinBarrierProofs`, `SessionProofs`, `CoordinatorProofs`, `DiskFileProofs`, `UploadProofs`, `ReadsProofs`, `DocumentProofs`, `ServiceProofs` | theorems about the module they are named after, in `UploadProofs` also about `Ingest`, in `ReadsProofs` also about `CacheAside` | |

Conventions. A `pc`-like variable says where a thread, a request or a handler is; an action
is the code from one point where others can interfere to the next. Definitions named
`...Off...`, `...Forgotten` and the like, marked *Mutant*, are wrong versions of the
definition that follows them; nothing refers to them, they show that a property notices.
Postgres, Redis and the kernel are modelled from how the code uses them: row locks of
upserts are held until the transaction ends, a transaction pipeline of Redis is applied as a
whole, and a failed call may or may not have taken effect.

How state corresponds to code, where the names do not say it:

- `SpinBarrier`: `count`, `generation` are the two atomics; `local` is the `gen` a thread
  loaded in `arrive()`.
- `Session`: `hist[w][b]` is the number of the trial whose samples buffer `b` of worker `w`
  holds; `slot[w].hist` is which buffer the published pointer shows. A value read by the main
  thread is right when it carries the number of the trial being reported.
- `Coordinator`: `sess[i]` is what `ConfigSession` `i` counts; `results` and `summary` are
  the envelope; `dropped` (configurations whose timed trials were thrown away at a time that left no
  room for a re-run) and `sinceAbort` (trials started after the Ctrl-C flag) are history
  variables for properties. The envelope of an interleaved run is emitted one session per step.
- `DiskFile`: a block is `random`, `zero` or a `hole`; `opened[c]` is `file_bytes_` of pool
  `c`; `filled` is a history variable: how many blocks of the present file its fill has written,
  all of them once `ensure_test_file()` has returned.
- `Ingest`: `fresh[r]` are rows in request `r`'s open transaction, `rows` the committed ones.
  The locals of a request that has ended are forgotten (`Forget`).
- `CacheAside`: a query is its endpoint and the machines of its URL in their order; what else it
  filters by belongs to the endpoint. `CacheKey` keeps of it what `cacheKey` keeps: of a list that
  was sorted, how often each value occurs. `DependsOn` is what the handler passes to
  `Fetch`: the first value (`q.Get`), for `compare` all. Lifetimes are counted down by `Tick`; the breaker's `openUntil` likewise.
- `Reads`: `id` is the sequence value of a row, `tx` says when it is visible. Rows of one time and
  trial, which `ORDER BY` leaves in any order, are in that of their ids.
- `Envelope`: `doc` is the JSON object as the sequence of its members; `taken` and `buffered`
  are the slice `streamResults` fills and the one it returned; `handed` is what the callback
  of `IngestStream` was given. Objects below the top level are records over their keys, so
  that an unknown field is a key too many.
- `Command`: `run` is the document before it is dumped; `nlohmann::json` sorts its members by
  key, which `Document` does (`SortedKeys`) when it hands a chunk to the decoder. A value that
  is infinite or not a number is `NotFinite`; the deviation is a multiple of the variance.
- `Server`: `conns` are the requests that hold a connection; `label` and `data` are what
  the header says of the body's encoding and how it was written.
- `Migrations`: `todo[m]` is what follows from the versions migrator `m` read at its
  beginning; `overlapped` is a history variable.

## 3. Runs

| Run | Checks | Result |
|---|---|---|
| `barrier` | three threads, the counter wrapping every other phase | implements `Barrier`; one leader; stamp before release; everybody is released |
| `session` | three workers and main, one warm-up and two timed trials, setup, thread creation or a batch failing, parked or not | data read is the trial's; consistent stop; failed pools run nothing and parked workers stay parked (`RunsInItsTurn`); warm-up first; the session ends once its threads exist |
| `coordinator` | two configurations (one with two metrics), one canary retry, deadline, budget and Ctrl-C at any moment, both modes | whole attempts in order, matching summaries, completeness unless stopped, prompt abort and bounded overshoot (`StopsInTime`), termination |
| `coordinator_discard` | the same with a deadline only, without Ctrl-C or a budget in the way | **violated**: `PartialRatherThanNone` |
| `upload` | two runs of one machine from two clients, the older one possibly stored last: one in two overlapping chunks to a host with two addresses, posted twice, and one of a single chunk; three requests on the server | an answered request is stored, exit 0 means that all is; the unchecked fast path is alone; first/last seen; exact counts; client and server implement `RunStore`; every request is answered and every upload ends |
| `cache` | two handlers, the aggregates of two machines asked for with both in the URL, in either order, so that the queries share a key; Redis, Postgres or a client failing anywhere | every request answered, staleness heals |
| `cache_race` | these queries and a comparison, nothing fails | **violated**: `CoherentAtRest` |
| `cache_key` | the same | **violated**: `AnswersOwnQuery` |
| `disk` | runs of one or two configurations on files of two to seven blocks, one to three threads with regions of up to three blocks and a remainder, prep, clean, kills | I/O inside the file, streams that move and wrap without meeting, no hole where the fill has been |
| `reads` | two transactions of four and three rows, pages of two, thresholds 3 and 5 | pages ascend and cover what was there (`WalkComplete`), samples are ordered and exact for one run (`SeriesExact`) |
| `document` | 17 command lines, three machines, trials with and without work or duration, stopped anywhere, chunks below, at and above the limit; some 140 foreign documents, in four orders, with at most one fault | rows reach the store in order and whole; 200 means valid; the API accepts what the engine emits, `bench validate` too; no row has another's key |
| `service` | one process, two requests of any kind for one connection, up to two migrators, SIGTERM, kill, panics and clients that leave at any moment; a new or an up-to-date database | responses well formed; a drain loses nothing; record and schema agree; SIGTERM ends the process; nobody waits for ever |

### What the violations show

- `coordinator_discard`: `room_to_retry` is computed before an attempt (runner.cpp:951) and
  used after it (973). In the trace there is room before the attempt, time passes in it, and its
  trials are complete when the closing canary is dirty. They are thrown away, the back-off
  (983) goes on to the deadline, the re-run stops at once, and the envelope has nothing for the
  configuration. The comment at line 948 says: "Never spend the caller's time budget waiting for a
  quieter host: a run under --max-seconds would rather have partial data than no data."
- `cache_race`: an answer loaded before an ingest commits is stored after that ingest has
  invalidated (cache.go:217). It is served until it expires; `StalenessHeals` of run `cache` shows
  that this is the worst.
- `cache_key`: `cacheKey` sorts the values of a repeated parameter (analytics.go:31), and the
  handlers use the first. `machine_id=A&machine_id=B` and `machine_id=B&machine_id=A` are about
  different machines and have one key, so the second is answered with what was computed
  for the first, although analytics.go:19-20 says of two requests that mean different things that
  they must not produce the same key. Once such a key has been stored for both queries it is in both
  key sets, and an ingest for A evicts the answer about B, against cache.go:12. Repeated values are
  the only cause (`SingleValuesTell`).

### Other disagreements met while modelling

They are visible in the models and not kept as runs of their own.

- A `std::jthread` constructor that throws after others succeeded leaves `stop()` at a start
  barrier made for more workers than exist (runner.cpp:486, 523): the process hangs. `Session`
  has the step (`SpawnFails`); `Terminates` is therefore stated for pools whose threads exist.
- Interleaved disk configurations with different working sets truncate the file under the
  open pools of the others (runner.cpp:914, disk_io.cpp:118); a worker then reads past the end
  and the process terminates. `WithinFile` excludes those runs (`OneSize`).
- The test file has its full size before it has its data, and the size is all that
  `ensure_test_file` looks at (disk_io.cpp:115): a fill that was killed is never repeated.
  Sequential writes put a zeroed buffer into the file. Reads may therefore find zeros where
  random data is meant to be (`DiskFile` has such blocks). disk_io.hpp:50 says of the
  file "Random, never sparse and never zeros", and methodology.md:286-287 likewise. What does hold is `HolesAreUnfilled`: only the blocks that the fill never came to are
  holes, those that `ensure_test_file()` took for filled because of the size.
- A series over two runs repeats trial numbers, and the rows of the selected points are found
  again by trial number (analytics.go:281-292): the second run's points get the first run's
  rows, and the last may be lost. `SeriesExact` is exact for one run only.
- A thread count or a working set given twice, or different before rounding and equal after,
  makes two configurations with one key (runner.cpp:822), which the API's unique index takes
  for one measurement. `NoRowShadowed` is stated for distinct settings.
- The envelope of the engine has its members sorted by key (`nlohmann::json`, result.hpp:13), so
  `results` comes before `run_id` and every result of a chunk is buffered. stream.go:23-24 says
  that the engine writes "in schema order, and then nothing is buffered", and ingest.go:37-38
  "holding at most one batch of results in memory whatever the envelope's size". In `Document`
  every chunk of the engine takes the way of `BufferResult` and `Replay`.
- `"results": {}`, a run id Postgres does not take for a UUID, or timestamps that follow
  `results` after a complete header are the client's faults and answered 500: `isDecodeError`
  does not know their texts (handlers.go:60-63 has three kinds of failure). Nor are the
  "timestamps" of stream.go:10 filled in then: only `run_id` and `machine` are waited for.
- A second `results` member replaces what the first one had buffered (stream.go:69); the
  models send each member at most once.
- The engine's `validate` accepts what the API refuses: no results, `finished_at` before
  `started_at` (the clock was set back), an empty name of the system. `EngineRunsAccepted`
  lists these.
- `-w` is ignored without a word when `-m` is given (main.cpp; `Selected`).
- gzip is used for small bodies too: nobody sets Content-Length, which the condition under the
  comment "Only compress bodies worth compressing" (middleware.go:159) looks at. The mux answers
  404 and 405 in plain text, while errors.go:8 speaks of "every non-2xx response".
- A panic inside an ingest leaves its transaction open and its connection taken: the pool is
  smaller by one for good and `st.Close()` waits for ever at shutdown. `ShutdownEnds` and
  `NobodyWaitsForever` exclude it (`Leaked`).
- Migrators take no lock on `schema_migrations`. An `up` beside a `down` may leave versions
  recorded of which the database has nothing, such as {2, 3} without the unique index the ingest
  relies on, although migrations.go:4 says "ordered". `RecordMatchesSchema` excludes rollbacks
  that overlap.
- `ok()` resets the count of failures and leaves `openUntil` (cache.go:138): a success does not
  close an open circuit, as docs/notes/M5.3.md:153 says it does. A successful `SMEMBERS` of
  an empty set is not recorded as a success (cache.go:247).
- A key registered between `SMEMBERS` and the deletion of the key set is cached and in no set
  (cache.go:250-252); it lives until its TTL.
- A row whose transaction commits late may have a smaller id than a client's cursor and is
  never seen by that walk; `SnapshotCovered` is about the rows that were visible when the walk
  began.

### Bounds

Every bound is a constant with a comment. Three workers let one be ahead of
another, with a leader, a waiter and one still to arrive; `GenMod` = 2 makes
the generation wrap in every other phase. Two timed trials after a warm-up reuse each
histogram. Two configurations distinguish "this one" from "the next one", one retry makes
first and last attempts, two ticks pass a deadline anywhere (`coordinator_discard` has the deadline
at the second, so that the first attempt begins with room). Three requests over two runs of
one machine give a conflict inside a run, between runs and a bystander; a batch of two makes
a chunk of four rows flush twice, one of them a duplicate across the batches. One ingest per machine
(`MaxVersion`) makes a stale answer and its successor. Sequential regions of three blocks (seven
blocks, two threads, one block over) and of two let streams move and wrap beside each other, on one
file also one after the other; two blocks for three threads leave a thread with nothing. Seven rows and pages of two give full and short
last pages, and thresholds 3 and 5 one and several buckets. `LTTB` products that round down
are allowed on purpose (the smallest real case has 17 points). In `document` a run makes at
most 12 rows against a limit (`MaxResults`) of 4 per request, in chunks of 3, 5 or all of them;
working sets of 3 and 6 with lines of 2 and blocks of 4 round to different and to equal sizes;
clocks may stand still or be set back; a trial has work and no duration, duration and no work, or
both. One fault per foreign document is enough because the decoder stops at the first. In
`service` one connection (`MaxConns`) makes any two requests compete; `MaxLoad` = 4 allows two
requests with one migrator, or two migrators, which is where each pair of them can meet.

### Fairness

Weak fairness of every thread (`SpinBarrier`, `Session`, `Coordinator`): the operating system
schedules runnable threads, and the barrier spins or polls. In `Ingest` serving is strongly
fair per request, because Postgres hands a released row lock to a waiter; without it one request
could be overtaken for ever. Clients (`Upload`) go on because every poll has a timeout.
`CacheAside` handlers go on because every Redis and Postgres call has one, and clocks advance.
In `Service` main, every handler and every migrator are weakly fair. A handler that waits for
a connection or a lock gives up because reads and readiness checks have a deadline; an ingest
has none and is only assumed to go on when what it waits for is there, its client being bounded
by ReadTimeout; a migrator has 60 seconds. `Document` is about safety only.
No fairness is assumed of signals, panics, failures, new requests or commits.

## 4. Proofs

| Theorem | Statement |
|---|---|
| `SpinBarrierProofs!TypeCorrect`, `LeaderIsSole`, `CountIsExact`, `StampedFirst` | four invariants, two of them in run `barrier`, for any finite set of threads and any counter width of at least two |
| `SpinBarrierProofs!RefinesBarrier` | `SpinBarrier` implements the safety part of `Barrier` |
| `SessionProofs!MergesOneTrial` | what main merges after a trial is of that trial (`TrialDataCoherent`), for any number of workers and trials |
| `SessionProofs!StopIsConsistent`, `PoolKeepsItsTurn`, `WarmUpComesFirst` | `ConsistentStop`, `RunsInItsTurn`, `WarmUpFirst` |
| `CoordinatorProofs!EnvelopeIsWhole`, `SummariesOfRows` | the envelope holds whole attempts in order with matching summaries, for any configurations, trials and retries |
| `CoordinatorProofs!CompleteOrStopped`, `StopsPromptly` | nothing is missing unless the run was stopped; a stop costs at most one more trial |
| `DiskFileProofs!TransfersWithinFile`, `StreamsNeverMeet`, `HolesWereNeverFilled` | the three properties of run `disk`, for any commands, sizes, threads and kills; the first for sequential runs and for interleaved runs of one size (`OneSize`) |
| `UploadProofs!TypeCorrect`, `AnsweredIsStored`, `FastPathAlone` | invariants of `Ingest`, for any requests, runs, chunks and batch size |
| `UploadProofs!LocksDisjoint` | two transactions past `upsertMachine` are never for the same machine, whatever their runs |
| `UploadProofs!CountsExact` | at a successful commit `inserted` is the growth of the store, `inserted + skipped` what was sent |
| `UploadProofs!DatesSpanRuns` | `first_seen` and `last_seen` span the stored runs of a machine (`SeenSpansRuns`) |
| `UploadProofs!RefinesRunStore` | `Ingest` implements `RunStore` |
| `UploadProofs!ExitZeroIsStored` | exit code 0 means that every row of the run is stored |
| `UploadProofs!UploadRefinesRunStore` | client and server together implement `RunStore` |
| `DocumentProofs!ResultsInOrder`, `AcceptsOnlyValid` | `HandedInOrder`, `OkMeansValid`, for documents of any length with their members in any order |
| `DocumentProofs!EngineIsAccepted` | `EngineRunsAccepted`, for any options, machine, trials, chunk size and limit |
| `DocumentProofs!RowsAreDistinct` | no two rows of a run have one key (`NoRowShadowed`), for any options and trials with distinct settings |
| `DocumentProofs!RunsValidate` | the engine accepts its own runs, before it writes them and from the file (`SelfValidation`), for any options, machine, trials and measured values |
| `DocumentProofs!SummariesAreSound` | the statistics of any list of values: sorting rearranges, the extremes bound every value and the mean, percentiles come in order, deviations are not negative |
| `ReadsProofs!WalksAreComplete` | pages repeat no row and leave out none that was there (`WalkComplete`), for any transactions and page size |
| `ReadsProofs!SeriesAreExact` | downsampling selects N points in order and finds their rows again (`SeriesExact`), for any number of points, any N and any rounding |
| `ReadsProofs!SingleValuesTell` | a query gets an answer about its own machines (`AnswersOwnQuery`) where no `machine_id` is repeated, for any handlers, queries, machines and failures |
| `ReadsProofs!StaleOnlyByRace` | without failures the cache is coherent at rest (`CoherentAtRest`) unless a fill overlapped an invalidation it matters to (`FillsApart`) |
| `ServiceProofs!AnswersAreWellFormed`, `StopsWithoutLoss`, `SchemaFollowsRecord` | the three safety properties of run `service`, for any requests, migrators and size of the pool |

Assumptions are the named `ASSUME`s of the component modules (finite threads, at least two
generations, chunks as sequences of keys, a positive batch size, at least one chunk and one
address, at least one configuration with at least one metric, natural numbers for sizes,
durations, samples and clocks, options of the types and sets CLI11 parses them into, documents that are JSON objects); TLC
evaluates them on every instance. Each invariant below is the last part of its component's module
and was checked by TLC before it was proved.

**Barrier.** `CountIsMissing` alone is not inductive. The invariant also says which generation
a blocked thread loaded: the current one while its phase is open, the previous one after the
bump and before it has left; and that between the last decrement and the bump exactly one
thread is the leader and all others are blocked. That two generations are enough follows from
this: nobody can be two phases behind. The refinement maps the set of arrived threads to those
whose decrement the current phase counts.

**Ingest.** The invariant says, per request, what is in its transaction in terms of how much
of its chunk it has decoded and flushed; that the transaction's rows are disjoint from the
committed ones; and that a request past the upsert holds the lock of its machine, which makes
the "new run" reading stay true until the end. From this follow exact counts and that a
commit adds precisely one whole chunk.

**Upload.** On top of it: while the exit code is 0, every chunk before the one in hand is
stored, and a waiting client waits for the request that carries its chunk. That the store only
grows (`RowsGrow`) is what keeps the first part true while late and repeated requests commit.

**Dates.** `SeenSpansRuns` needs more than itself while an upsert is under way: an open
transaction holds its machine's row, so the dates it read are still those of the committed runs
when it commits its own.

**Session.** No property of run `session` is inductive by itself, because each depends on where
all threads are between the two barriers. The invariant counts laps: it says for every place of a
worker whether its lap, the stamps of the two barriers and the place of main agree or are one
apart (`WorkerPhase`, `MainPhase`), which lap its slot and its two histograms hold
(`WorkerData`), how often it has passed the gate (`WorkerGate`), that a stop is asked of nobody
before `stop()` and of everybody from then on (`StopAsked`), and that a failed setup is known before
the first trial (`SetupKnown`). A histogram is filled for lap n only while the published one is
of lap n - 1, which is what makes main's reading safe.

**Coordinator.** The rows of a configuration that has been emitted are one block, a function of
four numbers (where it begins, how many trials, which attempt, how many metrics), and so are
its summaries (`RowBlock`, `SummaryBlock`). Emitting appends such a block, everything else leaves
the envelope alone. For completeness the invariant says that nobody goes past a session that
wants more trials without a reason to stop; for promptness, that a trial under way was
begun below the budget and before the flag.

**Disk.** While a fill is under way the file has its size, random data up to `off`, and `filled` is
`off`; a truncation starts over, and no write makes a hole below `filled`, because what extends the
file does so at its end. A pool that
is open saw the size of its own configuration, and each thread's position is inside its region. That
regions lie in the file and apart is arithmetic about quotients and remainders.

**Documents.** At the level of the decoder (`DecoderInv`): the members before the one it is at
are good and their values in `env`; of the array, what was kept or what was handed on is the
first so many of the document's rows; after the array, one of them is all rows and the other empty,
because `headerDone` cannot change inside the array. From that follow `HandedInOrder` and
`OkMeansValid` for every well-formed document, whoever sent it. For the engine's documents the
proof goes on through the code that makes them (`EngineInv` in `DocumentProofs`): the registry
lists only metrics the API knows; expanding, filtering and rounding keep that; hence every
configuration, every row, every summary and the machine block have the fields, units and ranges the
API wants (`IsSpec`, `IsRow`, `IsMachine`, `IsDocument`), `dump()` and cutting into chunks
keep it, no chunk of a run with results is empty, and the decoder's step that answers 400
or 413 is enabled only for the reasons named in `EngineRunsAccepted`. Proving it showed two
definitions to be wrong, `ValueOf` and `Part`, which had `CASE`s with overlapping guards; they are
`IF`s in the order of the code now.

That rows have keys of their own (`RowsAreDistinct`) goes through the loops that make them: the
metrics of one configuration are apart and a rider belongs to one metric only, trials are numbered
within a configuration, and configurations differ in first metric, threads or working set. Hence two
rows differ in one of these, and their number is that of their keys.

Many of these operators are built with `FlattenSeq`, a recursive function. What it returns is
proved by taking the least index at which the claim fails (`LeastOfNats`, from the well-foundedness
of < on the naturals); `SelectSeq`, `@@`, `SortSeq` and `FoldLeft` are out of reach, so `Without`,
`Joined`, `Sorted` (each value at its rank) and `Total` (a recursive function) are written without
them.

That the engine accepts its own runs (`RunsValidate`) is first of all a matter of statistics, over
the integers (`SummariesAreSound`). The variance is n times the sum of squares minus the square of the
sum; that it is not negative (Cauchy and Schwarz) goes by induction over the partial sums, whose
existence (`TotalUnfolds`) is what a recursive function promises. Sorting by rank lists
every value once and in order. A percentile is a point on the line through two neighbours of a sorted
list; two percentiles lie on one segment or have a value between them, so they ascend
(`PercentilesAscend`). From there a summary, a row and the machine block pass every check of the
schema (`SummaryChecked`, `RowChecked`, `MachineChecked`). The invariant (`ValidInv`) says that a run,
once made, passes the validation, that dumping it changes no answer, and that every verdict given
so far was that.

**Reads.** For the table: ids are distinct and a committed transaction has all of its rows.
`ORDER BY` is the list that has at place k the row with k - 1 rows below it; that this lists
every row once and in order (`Ranked`) is a count of a finite set mapped one to one. For
the walk: everything seen is at or below the cursor, and everything owed that is at or below it has
been seen. A row that becomes visible behind the cursor was not owed. For the sample: the last
point selected is at or in front of the bound of the next bucket, the bounds ascend strictly and stay
below the last point (`Bounds`). The argument is about quotients: with more points than buckets a
bound grows by at least one, and by two where the exact product is whole, which is the only place
where it may be rounded down. So no bucket is empty, and what `Downsample` does about an empty
one never happens. For the rows found again: they are in front of `j`, and the points themselves
where trial numbers ascend.

**Cache.** What is cached under a key is about the machines of some query with that key, because a
handler stores under the key of its own query what it loaded for it (`OriginInv`). Where no query
repeats a value, a key tells its machines (`KeyTells`): what occurs once and alone is the
first. Evictions, expiry and failures only remove answers.

`CoherentAtRest` is violated (section 3), so the theorem about it names the cause. `FillsApart` says
that no answer waits to be stored while an ingest of a machine it depends on is between its commit and
the end of its invalidation. In a run without failures in which it holds throughout, every cached
answer is in the key set of each of its machines, the set lives longer than the answer, and what is out
of date has an invalidation still to come (`CoherentInv`). All three are needed: an
invalidation deletes what the set lists, so an answer in no set, or in one that expired, would
survive it. This is where `IndexTTL > TTL` counts. Storing during an invalidation breaks the
invariant in two ways, by storing what is out of date already, and by registering with a set that is
deleted a moment later. Ingests may overlap each other, and reads may overlap reads. `CoherentInv` was
checked by TLC with two and three handlers before it was proved.

**Service.** For answers: label and data agree from `WriteHeader()` on. For the drain: no request
before the socket is open, none after it is closed, and it is closed before the drain is waited
for. For the schema: while no rollback has overlapped, the recorded versions are 1..k with the schema
of k, a migrator that goes up has everything unrecorded before it, and one that goes down is alone.

The type invariants of `SpinBarrier`, `Session` and `Ingest`, `CountIsMissing` and
`ImplementsRunStore` are theorems for all constants and in no run of their own.

Only model-checked is what is about liveness, which is out of the prover's reach:
`EveryoneReleased` and the fair part of `ImplementsBarrier`, the two `Terminates`, the two
`EveryRequestAnswered`, `UploadEnds`, `StalenessHeals`, `ShutdownEnds` and `NobodyWaitsForever`. `PartialRatherThanNone`,
which the code violates, is a counterexample and no theorem; `CoherentAtRest` and `AnswersOwnQuery` are
theorems under the condition that excludes the cause of their violation.

## 5. Plan

The modelling is complete as far as section 6 says, and every safety property of a passing run is a
theorem. What could be added: the same for stale answers when Redis fails (how long they
stay is a matter of their lifetime, `StalenessHeals`), and the workloads of section 6 if
they come to share state.

## 6. Not modelled, and abstractions to keep in mind

Not modelled: the kernels of the CPU and memory workloads and the flushing of caches (their
speed is all that matters; what is reported about them is in `Metrics`); the clock self-test's
measurement (its verdict is a choice in `Coordinator`); SHA-256 and the parsing of `/proc`,
`/sys` and URLs (text); the numbers SQL aggregates compute (floating point); single-object
getters (one query, no state); the seeder (random numbers through `IngestRun`, which is `Ingest`
with one request); configuration (read once); request ids, access logs, printing; load tests and
deployment.

Memory is sequentially consistent in `SpinBarrier` and `Session`; the code's acquire and release
orders on `generation_` and `count_` are taken to give this for data-race-free uses. Measured
values, JSON, URLs and log lines do not occur. Time is a choice (`Durations`, `Tick`), never a
number of milliseconds. A trial of `Coordinator` and a query of the API are one step each.
Floating-point values are natural numbers and quotients are cut off. The times of a run are a function
of the run: chunks of one run whose headers disagree about them do not occur. `Ingest` has no panic; what
one leaves behind is in `Server` (`Leaked`). A JSON document is a
sequence of members, each with a value of the right type or not.
