------------------------------ MODULE Envelope ------------------------------
(***************************************************************************)
(* How the API decodes one POSTed run envelope: StreamRunEnvelope          *)
(* (api/internal/model/stream.go) with the callback of IngestStream        *)
(* (api/internal/store/ingest.go) and the answers of handleIngestRun.      *)
(*                                                                         *)
(* A document is the sequence of the members of the JSON object, as        *)
(* records [key, ok, val] in the order they are sent; ok says whether the  *)
(* value has the JSON type its field wants.  A JSON object below the top   *)
(* level (the machine, a result, a summary) is a record over its keys.  In *)
(* such an object a mistyped value and an unknown key are refused alike,   *)
(* and an unknown key stands for both.  A timestamp is a number, 0 one     *)
(* that does not parse.  A run id is a UUID of the schema ("uuid"), one    *)
(* only Postgres takes for a UUID ("loose"), another text, or empty.       *)
(***************************************************************************)
EXTENDS Metrics

CONSTANT MaxResults       \* s.maxRes

ASSUME MaxResultsAssumption == MaxResults \in Nat \ {0}

VARIABLES
    doc,       \* the request's body
    phase,     \* where the decoder is
    at,        \* the member it reads next
    i,         \* results taken from the array, or replayed
    env,       \* the header decoded so far
    taken,     \* results that streamResults has buffered
    buffered,  \* what streamResults returned for the replay
    count,     \* how many results it returned
    handed,    \* results the callback has been given
    reply      \* the status answered, 0 before there is one

decoder == <<doc, phase, at, i, env, taken, buffered, count, handed, reply>>

IsList(s) == s \in Seq(ToSet(s))

\* A document as above: each key at most once, and under ok the values the
\* field wants where they are looked into.
WellFormed(d) ==
    /\ IsList(d)
    /\ \A k, l \in DOMAIN d : d[k].key = d[l].key => k = l
    /\ \A k \in DOMAIN d : d[k].ok =>
          /\ d[k].key = "results" => IsList(d[k].val)
          /\ d[k].key \in {"started_at", "finished_at"} => d[k].val \in Nat

-----------------------------------------------------------------------------
(* The types of model.go, and json.Decoder. *)

MachineTexts == {"id", "hostname", "cpu_model", "os", "kernel", "compiler",
                 "compiler_flags", "engine_version", "engine_git_sha", "virtualized"}
MachineNumbers == {"physical_cores", "logical_cpus", "l1d_kb", "l2_kb", "l3_kb", "memory_bytes"}
ResultTexts == {"workload", "metric", "unit", "params"}
ResultNumbers == {"thread_count", "working_set_bytes", "value", "trial", "timestamp", "duration_ns"}

\* Mutant: Summary without the run-quality fields.
StatisticsFields == {"workload", "metric", "thread_count", "working_set_bytes", "n", "mean",
                     "median", "stddev", "cov", "min", "p5", "p95", "max", "mad"}

SummaryFields == StatisticsFields \cup {"late_trials", "canary_attempts", "clock_call_ns_start",
                                        "clock_call_ns_end"}

\* Decode(): a field that is not sent keeps its zero value.
Decoded(obj, texts, numbers) ==
    [f \in texts \cup numbers |->
        IF f \in DOMAIN obj THEN obj[f] ELSE IF f \in texts THEN "" ELSE 0]

DecodesMachine(obj) == DOMAIN obj \subseteq MachineTexts \cup MachineNumbers
DecodesResult(obj) == DOMAIN obj \subseteq ResultTexts \cup ResultNumbers
DecodesSummary(list) == \A k \in DOMAIN list : DOMAIN list[k] \subseteq SummaryFields

ParsesTimestamp(t) == t # 0

ValidMachine(m) ==
    /\ m.id = "hex32"
    /\ \A f \in {"hostname", "cpu_model", "os", "kernel", "compiler",
                 "engine_version", "engine_git_sha"} : m[f] # ""
    /\ m.physical_cores >= 1 /\ m.logical_cpus >= 1
    /\ m.l1d_kb >= 0 /\ m.l2_kb >= 0 /\ m.l3_kb >= 0 /\ m.memory_bytes >= 0

ValidResult(r) ==
    /\ r.workload \in ApiWorkloads
    /\ r.metric \in ApiMetrics
    /\ r.workload = ApiWorkloadOf[r.metric] /\ r.unit = ApiUnitOf[r.metric]
    /\ r.thread_count >= 1 /\ r.working_set_bytes >= 0 /\ r.trial >= 0
    /\ r.duration_ns >= 1
    /\ ParsesTimestamp(r.timestamp)

\* Mutant: the clock is taken to run forward.
HeaderValidAnyOrder(e, n) ==
    /\ e.schema_version = 1 /\ e.run_id = "uuid"
    /\ ParsesTimestamp(e.started_at) /\ ParsesTimestamp(e.finished_at)
    /\ ValidMachine(e.machine) /\ n # 0

\* validateHeader().
HeaderValid(e, n) ==
    /\ e.schema_version = 1 /\ e.run_id = "uuid"
    /\ ParsesTimestamp(e.started_at) /\ ParsesTimestamp(e.finished_at)
    /\ e.finished_at >= e.started_at
    /\ ValidMachine(e.machine)
    /\ n # 0

NoHeader ==
    [schema_version |-> 0, run_id |-> "", started_at |-> 0, finished_at |-> 0,
     machine |-> Decoded(<<>>, MachineTexts, MachineNumbers), argv |-> "", summary |-> <<>>]

HeaderDone == env.run_id # "" /\ env.machine.id # ""

-----------------------------------------------------------------------------

DecoderInit ==
    /\ doc = <<>> /\ phase = "idle" /\ at = 1 /\ i = 0
    /\ env = NoHeader /\ taken = <<>> /\ buffered = <<>> /\ count = 0
    /\ handed = <<>> /\ reply = 0

\* A request with body d reaches handleIngestRun.
Receive(d) ==
    /\ doc' = d /\ phase' = "members" /\ at' = 1 /\ i' = 0
    /\ env' = NoHeader /\ taken' = <<>> /\ buffered' = <<>> /\ count' = 0
    /\ handed' = <<>> /\ reply' = 0

\* writeIngestError(): the transaction is rolled back and the client told.
Answer(status) ==
    /\ reply' = status /\ phase' = "answered"
    /\ UNCHANGED <<doc, at, i, env, taken, buffered, count, handed>>

InMembers == phase = "members" /\ at <= Len(doc)
Member == doc[at]

\* A header field of the right shape.
DecodesField(m) ==
    /\ m.ok
    /\ \/ m.key \in {"schema_version", "run_id", "started_at", "finished_at", "argv"}
       \/ m.key = "machine" /\ DecodesMachine(m.val)
       \/ m.key = "summary" /\ DecodesSummary(m.val)

FieldValue(m) ==
    IF m.key = "machine" THEN Decoded(m.val, MachineTexts, MachineNumbers) ELSE m.val

Field ==
    /\ InMembers /\ Member.key # "results" /\ DecodesField(Member)
    /\ env' = [env EXCEPT ![Member.key] = FieldValue(Member)]
    /\ at' = at + 1
    /\ UNCHANGED <<doc, phase, i, taken, buffered, count, handed, reply>>

\* isDecodeError() knows the errors of encoding/json and of the top level.
BadField ==
    /\ InMembers /\ Member.key # "results" /\ ~DecodesField(Member)
    /\ Answer(400)

\* "results: want an array": none of the texts isDecodeError() looks for.
ResultsNoArray ==
    /\ InMembers /\ Member.key = "results" /\ ~Member.ok
    /\ Answer(500)

OpenResults ==
    /\ InMembers /\ Member.key = "results" /\ Member.ok
    /\ phase' = "results" /\ i' = 0 /\ taken' = <<>>
    /\ UNCHANGED <<doc, at, env, buffered, count, handed, reply>>

InResults == phase = "results" /\ i < Len(Member.val)
Element == Decoded(Member.val[i + 1], ResultTexts, ResultNumbers)

TooManyResults ==
    /\ InResults /\ i >= MaxResults
    /\ Answer(413)

BadResult ==
    /\ InResults /\ i < MaxResults
    /\ ~DecodesResult(Member.val[i + 1]) \/ ~ValidResult(Element)
    /\ Answer(400)

GoodResult ==
    InResults /\ i < MaxResults /\ DecodesResult(Member.val[i + 1]) /\ ValidResult(Element)

\* The callback: the first result begins the ingest, which needs timestamps
\* that parse and an id that Postgres takes for a uuid.
CanBegin ==
    \/ handed # <<>>
    \/ ParsesTimestamp(env.started_at) /\ ParsesTimestamp(env.finished_at)
       /\ env.run_id \in {"uuid", "loose"}

\* Mutant: the buffer is reused for every result.
BufferResultReused ==
    /\ GoodResult /\ ~HeaderDone
    /\ taken' = <<Element>> /\ i' = i + 1
    /\ UNCHANGED <<doc, phase, at, env, buffered, count, handed, reply>>

BufferResult ==
    /\ GoodResult /\ ~HeaderDone
    /\ taken' = Append(taken, Element) /\ i' = i + 1
    /\ UNCHANGED <<doc, phase, at, env, buffered, count, handed, reply>>

HandResult ==
    /\ GoodResult /\ HeaderDone /\ CanBegin
    /\ handed' = Append(handed, Element) /\ i' = i + 1
    /\ UNCHANGED <<doc, phase, at, env, taken, buffered, count, reply>>

CloseResults ==
    /\ phase = "results" /\ i = Len(Member.val)
    /\ count' = i /\ buffered' = taken
    /\ phase' = "members" /\ at' = at + 1 /\ i' = 0
    /\ UNCHANGED <<doc, env, taken, handed, reply>>

\* The closing brace.
EndObject ==
    /\ phase = "members" /\ at > Len(doc)
    /\ phase' = "replay" /\ i' = 0
    /\ UNCHANGED <<doc, at, env, taken, buffered, count, handed, reply>>

Replaying == phase = "replay" /\ i < Len(buffered)

Replay ==
    /\ Replaying /\ CanBegin
    /\ handed' = Append(handed, buffered[i + 1]) /\ i' = i + 1
    /\ UNCHANGED <<doc, phase, at, env, taken, buffered, count, reply>>

\* beginIngest() refuses the header or the database fails: neither is an error
\* isDecodeError() knows.
HandFails ==
    /\ (GoodResult /\ HeaderDone) \/ Replaying
    /\ Answer(500)

Replayed == phase = "replay" /\ i = Len(buffered)

BadHeader ==
    /\ Replayed /\ ~HeaderValid(env, count)
    /\ Answer(400)

\* commit(), which may fail, of an ingestion that was begun.
Commit(status) ==
    /\ Replayed /\ HeaderValid(env, count)
    /\ status = 200 => handed # <<>>
    /\ Answer(status)

\* The body ends early, or stops arriving before the read timeout.
BodyBreaks ==
    /\ phase \in {"members", "results"}
    /\ \E status \in {400, 500} : reply' = status
    /\ phase' = "broken"
    /\ UNCHANGED <<doc, at, i, env, taken, buffered, count, handed>>

Decode ==
    \/ Field \/ BadField \/ ResultsNoArray \/ OpenResults
    \/ TooManyResults \/ BadResult \/ BufferResult \/ HandResult \/ CloseResults
    \/ EndObject \/ Replay \/ HandFails \/ BadHeader
    \/ (\E status \in {200, 500} : Commit(status))
    \/ BodyBreaks

=============================================================================
