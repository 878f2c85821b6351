------------------------------ MODULE Command -------------------------------
(***************************************************************************)
(* The engine's command line (engine/src/main.cpp): `bench run` from its   *)
(* options to its exit code, and `bench validate` and `bench report` of    *)
(* the file it wrote.  How the trials are run is the subject of            *)
(* Coordinator and Session; here a run is what it leaves behind, the rows  *)
(* and summaries of the trials that were made before it ended or was       *)
(* stopped.                                                                *)
(*                                                                         *)
(* The run document is a record over the keys of the JSON object, its      *)
(* parts as in Envelope.  The system clock may be set back during a run.   *)
(***************************************************************************)
EXTENDS Metrics, Statistics, FiniteSets

CONSTANTS OptionSets,     \* the command lines that may be given
          Probes,         \* what the system may answer about the machine
          Samples,        \* what a trial may measure
          StartTime,      \* started_at
          Clocks          \* times finished_at may read

\* What CLI11 parses the options into.
ASSUME OptionsAssumption ==
    \A o \in OptionSets :
        /\ o.metrics \in Seq(STRING) /\ o.workloads \in Seq(STRING)
        /\ o.threads \in Seq(Int) /\ o.sizes \in Seq(Nat)
        /\ o.trials \in Int /\ o.chunk \in Nat /\ o.cold \in {"clflush", "evict", "none"}

ASSUME ProbesAssumption ==
    \A p \in Probes : p.blocks \in Seq(ToSet(p.blocks)) /\ p.hardware \in Nat /\ p.memory \in Nat
        /\ IsFiniteSet(p.caches) /\ \A c \in p.caches : c.kb \in Nat

ASSUME SamplesAssumption ==
    \A s \in Samples : s.units \in Nat /\ s.ns \in Nat /\ s.p99 \in Nat

ASSUME ClockAssumption == StartTime \in Nat \ {0} /\ Clocks \subseteq Nat \ {0}

VARIABLES
    cmd,        \* where `bench run` is
    opts,       \* its options
    specs,      \* the configurations it covers
    run,        \* the document it made
    file,       \* --out: "none", "whole" or "short" (the disk was full)
    sent,       \* chunks POSTed and answered
    rc,         \* rc of the callback
    exit,       \* its exit code, -1 while it runs
    checked     \* exit codes of `bench validate` and `bench report` of the file

engine == <<cmd, opts, specs, run, file, sent, rc, exit, checked>>

-----------------------------------------------------------------------------
(* What is selected: the callback of `bench run`. *)

AskedWorkloads(o) == (IF o.all THEN AllWorkloads ELSE <<>>) \o o.workloads
Expanded(ws) == FlattenSeq([k \in DOMAIN ws |-> MetricsOf(ws[k])])
ExplicitSelection(o) == o.metrics # <<>> \/ o.workloads # <<>>
AsksForWrites(o) == (ToSet(o.metrics) \cup ToSet(Expanded(AskedWorkloads(o)))) \cap DiskWrites # {}

\* CLI::ValidationError: nothing is run.
Refused(o) ==
    \/ ~(ToSet(o.workloads) \subseteq ToSet(AllWorkloads))
    \/ \E m \in ToSet(o.metrics) : m \notin AllMetrics \ Riders
    \/ AskedWorkloads(o) = <<>> /\ o.metrics = <<>>
    \/ ~o.allow /\ ExplicitSelection(o) /\ AsksForWrites(o)
    \/ o.cpus /\ ~o.pin

\* The metrics of a run: a list of them wins over the workloads, and --all
\* without --allow-writes keeps what does not write.
Selected(o) ==
    IF o.metrics # <<>> THEN o.metrics
    ELSE IF o.allow \/ ExplicitSelection(o) THEN Expanded(AskedWorkloads(o))
    ELSE Without(Expanded(AskedWorkloads(o)), DiskWrites)

\* std::invalid_argument out of run_benchmarks().
OutOfRange(o) == o.trials < 1 \/ \E t \in ToSet(o.threads) : t < 1

\* ConfigSpec: every metric, with its riders, thread count and working set.
Specs(o) ==
    LET ms == Selected(o)
        Of(m, t, w) == [kind |-> WorkloadOf(m), metrics |-> <<m>> \o RidersOf(m), threads |-> t,
                        ws |-> EffectiveWorkingSet(WorkloadOf(m), w)]
    IN  FlattenSeq([a \in DOMAIN ms |->
            FlattenSeq([b \in DOMAIN o.threads |->
                [c \in DOMAIN o.sizes |-> Of(ms[a], o.threads[b], o.sizes[c])]])])

-----------------------------------------------------------------------------
(* The machine block: sysinfo.cpp. *)

\* parse_cpuinfo(): a block per processor; a core is told by its package and
\* number, and counted by its processors if none is numbered.
PhysicalCores(blocks) ==
    LET cores == {<<b.package, b.core>> : b \in {c \in ToSet(blocks) : c.core >= 0}}
    IN  IF cores = {} THEN Len(blocks) ELSE Cardinality(cores)

KnownOr(value, fallback) == IF value = "" THEN fallback ELSE value

\* The largest of some caches, 0 if the system lists none.
CacheSize(caches) ==
    LET sizes == {c.kb : c \in caches} \cup {0}
    IN  CHOOSE kb \in sizes : \A other \in sizes : other <= kb

\* collect_machine_info().  The id is 32 digits of a SHA-256; os-release may
\* name the system by an empty string.
MachineInfo(p) ==
    LET cpus == IF p.blocks = <<>> THEN p.hardware ELSE Len(p.blocks)
    IN  [id |-> "hex32", hostname |-> KnownOr(p.host, "unknown"),
         cpu_model |-> KnownOr(p.model, "unknown"),
         physical_cores |-> IF p.blocks = <<>> THEN cpus ELSE PhysicalCores(p.blocks),
         logical_cpus |-> cpus,
         l1d_kb |-> CacheSize({c \in p.caches : c.level = 1 /\ c.type = "data"}),
         l2_kb |-> CacheSize({c \in p.caches : c.level = 2}),
         l3_kb |-> CacheSize({c \in p.caches : c.level = 3}),
         memory_bytes |-> p.memory,
         os |-> IF p.os = "no PRETTY_NAME" THEN "unknown" ELSE p.os,
         kernel |-> KnownOr(p.kernel, "unknown"), compiler |-> "g++", compiler_flags |-> "",
         engine_version |-> "0.1.0", engine_git_sha |-> "unknown",
         virtualized |-> IF p.microsoft THEN "wsl2" ELSE "none"]

-----------------------------------------------------------------------------
(* The document: run_one_trial(), emit() and to_json(). *)

\* The row of metric m in timed trial t.
Row(o, machine, sp, m, t, s) ==
    [workload |-> sp.kind, thread_count |-> sp.threads, working_set_bytes |-> sp.ws,
     metric |-> m, value |-> ValueOf(m, s.units, s.ns, sp.threads, s.p99), unit |-> UnitOf(m),
     trial |-> t, timestamp |-> StartTime, duration_ns |-> IF s.ns = 0 THEN 1 ELSE s.ns,
     params |-> ColdEffect(o.cold, machine.l3_kb, ColdRegion(sp.metrics[1], sp.ws))]

\* The rows of a configuration of which n trials were timed, in their order.
RowsOf(o, machine, sp, n, sample) ==
    FlattenSeq([t \in 1..n |->
        [k \in DOMAIN sp.metrics |-> Row(o, machine, sp, sp.metrics[k], t - 1, sample[t])]])

\* The members of one object and of another.
Joined(a, b) == [f \in DOMAIN a \cup DOMAIN b |-> IF f \in DOMAIN a THEN a[f] ELSE b[f]]

\* One summary per metric; what describes the conditions is the same for all.
SummariesOf(sp, n, sample) ==
    LET Values(m) == [t \in 1..n |-> ValueOf(m, sample[t].units, sample[t].ns, sp.threads, sample[t].p99)]
        Quality == [late_trials |-> Cardinality({t \in 1..n : sample[t].late}), canary_attempts |-> 1,
                    clock_call_ns_start |-> 14, clock_call_ns_end |-> 14]
        Of(m) == Joined([workload |-> sp.kind, metric |-> m, thread_count |-> sp.threads,
                         working_set_bytes |-> sp.ws], Joined(Summarize(Values(m)), Quality))
    IN  IF n = 0 THEN <<>> ELSE [k \in DOMAIN sp.metrics |-> Of(sp.metrics[k])]

\* How many trials of each configuration may have been timed when the run ended
\* or was stopped: one configuration after the other, or in any proportion.
TrialCounts(o, sps) ==
    IF o.interleave THEN [DOMAIN sps -> 0..o.trials]
    ELSE {[k \in DOMAIN sps |-> IF k <= done THEN o.trials ELSE IF k = done + 1 THEN part ELSE 0] :
             done \in 0..Len(sps), part \in 0..(o.trials - 1)}

ToJson(o, machine, sps, counts, sample, finished) ==
    [schema_version |-> 1, run_id |-> "uuid", started_at |-> StartTime, finished_at |-> finished,
     machine |-> machine, argv |-> "argv",
     results |-> FlattenSeq([k \in DOMAIN sps |-> RowsOf(o, machine, sps[k], counts[k], sample)]),
     summary |-> FlattenSeq([k \in DOMAIN sps |-> SummariesOf(sps[k], counts[k], sample)])]

\* dump() writes a number that is not finite as null, which no reader takes for
\* a number.
Dumped(j) ==
    [j EXCEPT !.results = [k \in DOMAIN @ |->
        IF @[k].value = NotFinite THEN [f \in DOMAIN @[k] \ {"value"} |-> @[k][f]] ELSE @[k]]]

-----------------------------------------------------------------------------
(* validate_run(), and what the strict parsers of result.cpp accept. *)

CheckMachine(m) ==
    /\ {"id", "hostname", "cpu_model", "os", "kernel", "compiler", "compiler_flags",
        "engine_version", "engine_git_sha", "physical_cores", "logical_cpus", "l1d_kb", "l2_kb",
        "l3_kb", "memory_bytes"} \subseteq DOMAIN m
    /\ m.id = "hex32"

RequiredOfResult == {"workload", "metric", "unit", "timestamp", "value", "thread_count",
                     "working_set_bytes", "trial", "duration_ns"}

CheckResult(r) ==
    /\ DOMAIN r \cap {"schema_version", "run_id", "machine"} = {}
    /\ RequiredOfResult \subseteq DOMAIN r
    /\ r.metric \in AllMetrics /\ r.workload = WorkloadOf(r.metric) /\ r.unit = UnitOf(r.metric)
    /\ r.timestamp # 0 /\ r.thread_count >= 1 /\ r.trial >= 0 /\ r.value # NotFinite
    /\ "params" \in DOMAIN r => r.params \in {"clflush", "evict", "none", "n/a"}

RequiredOfSummary == {"workload", "metric", "thread_count", "working_set_bytes", "n", "mean",
                      "median", "stddev", "cov", "min", "p5", "p95", "max"}

CheckSummary(s) ==
    /\ RequiredOfSummary \subseteq DOMAIN s
    /\ s.metric \in AllMetrics /\ s.workload = WorkloadOf(s.metric)
    /\ s.n >= 1
    /\ \A f \in {"stddev", "cov", "mad", "clock_call_ns_start", "clock_call_ns_end", "late_trials"}
           \cap DOMAIN s : s[f] >= 0
    /\ "late_trials" \in DOMAIN s => s.late_trials <= s.n
    /\ "canary_attempts" \in DOMAIN s => s.canary_attempts >= 1
    /\ s.min <= s.max /\ s.min <= s.median /\ s.median <= s.max /\ s.p5 <= s.p95

ValidateRun(j) ==
    /\ {"schema_version", "run_id", "started_at", "finished_at", "argv", "results", "machine"}
           \subseteq DOMAIN j
    /\ j.schema_version = 1 /\ j.run_id = "uuid" /\ j.started_at # 0 /\ j.finished_at # 0
    /\ CheckMachine(j.machine)
    /\ \A k \in DOMAIN j.results : CheckResult(j.results[k])
    /\ "summary" \in DOMAIN j => \A k \in DOMAIN j.summary : CheckSummary(j.summary[k])

-----------------------------------------------------------------------------

CommandInit ==
    /\ cmd = "start" /\ opts \in OptionSets
    /\ specs = <<>> /\ run = <<>> /\ file = "none" /\ sent = 0
    /\ rc = 0 /\ exit = -1 /\ checked = [validate |-> -1, report |-> -1]

Exits(code) == cmd' = "exited" /\ exit' = code

UsageError ==
    /\ cmd = "start" /\ Refused(opts)
    /\ Exits(105)
    /\ UNCHANGED <<opts, specs, run, file, sent, rc, checked>>

\* run_benchmarks() makes a document ...
RunBenchmarks ==
    /\ cmd = "start" /\ ~Refused(opts) /\ ~OutOfRange(opts)
    /\ specs' = Specs(opts)
    /\ \E probe \in Probes, sample \in [1..opts.trials -> Samples], finished \in Clocks,
          counts \in TrialCounts(opts, Specs(opts)) :
          run' = ToJson(opts, MachineInfo(probe), Specs(opts), counts, sample, finished)
    /\ cmd' = "write"
    /\ UNCHANGED <<opts, file, sent, rc, exit, checked>>

\* ... or throws what nobody catches: a configuration out of range, a session
\* whose workers cannot be set up.
RunThrows ==
    /\ cmd = "start" /\ ~Refused(opts)
    /\ Exits(134)
    /\ UNCHANGED <<opts, specs, run, file, sent, rc, checked>>

\* The exit code is 2 for a document with problems, and rc otherwise.
Leave(code) == Exits(IF ValidateRun(run) THEN code ELSE 2)

Posts == opts.post # "no"

\* write_json(): only the opening of the file is checked.
Write ==
    /\ cmd = "write" /\ (opts.out \/ ~Posts)
    /\ \E outcome \in {"whole", "short"} : file' = outcome
    /\ IF Posts THEN cmd' = "post" /\ UNCHANGED exit ELSE Leave(0)
    /\ UNCHANGED <<opts, specs, run, sent, rc, checked>>

CannotWrite ==
    /\ cmd = "write" /\ opts.out
    /\ rc' = 1 /\ Leave(1)
    /\ UNCHANGED <<opts, specs, run, file, sent, checked>>

SkipWrite ==
    /\ cmd = "write" /\ ~opts.out /\ Posts
    /\ cmd' = "post"
    /\ UNCHANGED <<opts, specs, run, file, sent, rc, exit, checked>>

BadUrl ==
    /\ cmd = "post" /\ opts.post = "bad url"
    /\ rc' = 1 /\ Leave(1)
    /\ UNCHANGED <<opts, specs, run, file, sent, checked>>

\* post_envelope(): the chunks of a run.
ChunkSize == IF opts.chunk = 0 THEN Len(run.results) ELSE opts.chunk
ChunkCount ==
    IF run.results = <<>> THEN 1 ELSE (Len(run.results) + ChunkSize - 1) \div ChunkSize

LeastOf(a, b) == IF a < b THEN a ELSE b

\* Chunk c, from 0: the whole document if there is only one, else its share of
\* the results, with the summary in the first.
Part(c) ==
    LET j == Dumped(run)
        share == SubSeq(j.results, c * ChunkSize + 1,
                        LeastOf((c + 1) * ChunkSize, Len(j.results)))
    IN  IF ChunkCount = 1 THEN j
        ELSE IF c = 0 THEN [j EXCEPT !.results = share]
        ELSE [f \in DOMAIN j \ {"summary"} |-> IF f = "results" THEN share ELSE j[f]]

Send ==
    /\ cmd = "post" /\ opts.post = "url"
    /\ cmd' = "waiting"
    /\ UNCHANGED <<opts, specs, run, file, sent, rc, exit, checked>>

\* post_json() fails: the rest of the run is not sent.
TransportFails ==
    /\ cmd = "waiting"
    /\ rc' = 1 /\ Leave(1)
    /\ UNCHANGED <<opts, specs, run, file, sent, checked>>

\* A status that is not 2xx is remembered, and the next chunk sent.
Answered(status) ==
    /\ cmd = "waiting"
    /\ rc' = IF status \in 200..299 THEN rc ELSE 1
    /\ sent' = sent + 1
    /\ IF sent' = ChunkCount THEN Leave(rc') ELSE cmd' = "post" /\ UNCHANGED exit
    /\ UNCHANGED <<opts, specs, run, file, checked>>

\* `bench validate` and `bench report` read the file back.
Validate ==
    /\ cmd = "exited" /\ file # "none" /\ checked.validate = -1
    /\ checked' = [checked EXCEPT !.validate =
                      IF file = "short" \/ ~ValidateRun(Dumped(run)) THEN 1 ELSE 0]
    /\ UNCHANGED <<cmd, opts, specs, run, file, sent, rc, exit>>

Report ==
    /\ cmd = "exited" /\ file # "none" /\ checked.report = -1
    /\ checked' = [checked EXCEPT !.report =
                      IF file = "short" \/ run.summary = <<>> THEN 1
                      ELSE IF ValidateRun(Dumped(run)) THEN 0 ELSE 2]
    /\ UNCHANGED <<cmd, opts, specs, run, file, sent, rc, exit>>

=============================================================================
