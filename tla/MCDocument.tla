----------------------------- MODULE MCDocument -----------------------------
(***************************************************************************)
(* Document for TLC: command lines that reach every way of selecting       *)
(* metrics, chunks below, at and above the API's limit, systems that       *)
(* answer everything or nothing, trials without work or duration; and      *)
(* foreign documents in several orders, each with at most one fault.       *)
(***************************************************************************)
EXTENDS Document

Base == [all |-> FALSE, workloads |-> <<>>, metrics |-> <<>>, allow |-> FALSE, threads |-> <<1>>,
         sizes |-> <<0>>, trials |-> 2, cold |-> "clflush", interleave |-> FALSE, cpus |-> FALSE,
         pin |-> FALSE, out |-> TRUE, post |-> "url", chunk |-> 3]

MCOptionSets ==
    { Base,
      [Base EXCEPT !.metrics = <<"cpu_int_ops">>, !.threads = <<1, 2>>],
      [Base EXCEPT !.metrics = <<"cpu_fp_ops">>, !.threads = <<0>>],
      [Base EXCEPT !.metrics = <<"cpu_fp_ops">>, !.trials = 0],
      [Base EXCEPT !.metrics = <<"disk_rand_read_p99_us">>],
      [Base EXCEPT !.metrics = <<"no_such_metric">>],
      [Base EXCEPT !.metrics = <<"disk_seq_write_bw">>, !.all = TRUE],
      [Base EXCEPT !.workloads = <<"no_such_workload">>],
      [Base EXCEPT !.workloads = <<"disk_rand">>],
      [Base EXCEPT !.workloads = <<"disk_rand">>, !.allow = TRUE, !.out = FALSE],
      [Base EXCEPT !.workloads = <<"cpu_hash">>, !.cpus = TRUE],
      [Base EXCEPT !.workloads = <<"cpu_hash">>, !.cpus = TRUE, !.pin = TRUE, !.post = "bad url"],
      [Base EXCEPT !.workloads = <<"mem_bw">>, !.chunk = 0, !.trials = 1, !.cold = "evict"],
      [Base EXCEPT !.workloads = <<"mem_latency">>, !.trials = 3, !.post = "no", !.out = FALSE,
                   !.cold = "none"],
      [Base EXCEPT !.metrics = <<"mem_copy_bw", "mem_latency">>, !.sizes = <<3, 6>>,
                   !.trials = 1, !.interleave = TRUE],
      [Base EXCEPT !.all = TRUE, !.trials = 1],
      [Base EXCEPT !.all = TRUE, !.trials = 1, !.allow = TRUE, !.chunk = 5] }

Block(package, core) == [package |-> package, core |-> core]

\* A usual machine; one of which nothing can be found out; one whose system has
\* an empty name and whose cores are not numbered.
MCProbes ==
    { [blocks |-> <<Block(0, 0), Block(0, 0), Block(0, 1)>>, hardware |-> 3, model |-> "cpu",
       caches |-> {[level |-> 1, type |-> "data", kb |-> 1], [level |-> 1, type |-> "instruction", kb |-> 4],
                   [level |-> 3, type |-> "unified", kb |-> 4]},
       memory |-> 1, os |-> "linux", kernel |-> "6", host |-> "h", microsoft |-> TRUE],
      [blocks |-> <<>>, hardware |-> 1, model |-> "", caches |-> {}, memory |-> 0,
       os |-> "no PRETTY_NAME", kernel |-> "", host |-> "", microsoft |-> FALSE],
      [blocks |-> <<Block(0, -1)>>, hardware |-> 0, model |-> "cpu", caches |-> {}, memory |-> 1,
       os |-> "", kernel |-> "6", host |-> "h", microsoft |-> FALSE] }

MCSamples ==
    { [units |-> 0, ns |-> 2, late |-> TRUE, p99 |-> 0],
      [units |-> 6, ns |-> 0, late |-> FALSE, p99 |-> 1],
      [units |-> 8, ns |-> 2, late |-> FALSE, p99 |-> 3] }

-----------------------------------------------------------------------------

ForeignRow == [workload |-> "cpu_int", thread_count |-> 1, working_set_bytes |-> 0,
               metric |-> "cpu_int_ops", value |-> 1, unit |-> "ops/s", trial |-> 0,
               timestamp |-> 1, duration_ns |-> 1]
Second == [ForeignRow EXCEPT !.trial = 1]

Well == [schema_version |-> 1, run_id |-> "uuid", started_at |-> 1, finished_at |-> 2,
         machine |-> MachineInfo(CHOOSE p \in MCProbes : p.os = "linux"), argv |-> "argv",
         results |-> <<ForeignRow, Second>>, summary |-> <<>>]

BadRows == { [ForeignRow EXCEPT !.unit = "ns"], [ForeignRow EXCEPT !.workload = "cpu_fp"],
             [ForeignRow EXCEPT !.duration_ns = 0], [ForeignRow EXCEPT !.timestamp = 0],
             [ForeignRow EXCEPT !.metric = "no_such_metric"],
             ForeignRow @@ [run_id |-> "uuid"] }

\* One thing wrong, or nothing.
Objects ==
    {Well}
    \cup {[f \in DOMAIN Well \ {key} |-> Well[f]] : key \in DOMAIN Well}
    \cup {[Well EXCEPT !.schema_version = 2], [Well EXCEPT !.run_id = "loose"],
          [Well EXCEPT !.run_id = "text"], [Well EXCEPT !.started_at = 0],
          [Well EXCEPT !.started_at = 3], [Well EXCEPT !.finished_at = 0],
          [Well EXCEPT !.machine.id = "text"], [Well EXCEPT !.machine.physical_cores = 0],
          [Well EXCEPT !.machine = @ @@ [extra |-> 1]], Well @@ [extra |-> 1],
          [Well EXCEPT !.results = <<>>], [Well EXCEPT !.results = <<Second>> \o @ \o @],
          [Well EXCEPT !.summary = <<[extra |-> 1]>>]}
    \cup {[Well EXCEPT !.results = <<Second, r>>] : r \in BadRows}

Orders == { SortedKeys \o <<"extra">>,
            <<"schema_version", "run_id", "started_at", "finished_at", "machine", "argv", "extra",
              "results", "summary">>,
            <<"results", "extra", "summary", "argv", "machine", "finished_at", "started_at", "run_id",
              "schema_version">>,
            <<"machine", "run_id", "results", "started_at", "finished_at", "argv", "summary",
              "schema_version", "extra">> }

InOrder(j, order) == SelectSeq(order, LAMBDA key : key \in DOMAIN j)

\* A member of the wrong type.
Mistyped(d) == {[d EXCEPT ![k].ok = FALSE] : k \in DOMAIN d}

MCForeignDocuments ==
    {Members(j, InOrder(j, order)) : j \in Objects, order \in Orders}
    \cup UNION {Mistyped(Members(Well, InOrder(Well, order))) : order \in Orders}

=============================================================================
