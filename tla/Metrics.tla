------------------------------ MODULE Metrics -------------------------------
(***************************************************************************)
(* The workloads and metrics of the system, which the engine               *)
(* (engine/src/metric.cpp, engine/src/runner.cpp) and the API              *)
(* (api/internal/model/enums.go) each write down for themselves, and what  *)
(* the engine derives from them: which metrics a workload stands for, the  *)
(* working set it really uses, the value of a trial and what was done to   *)
(* the caches before it.                                                   *)
(***************************************************************************)
EXTENDS Integers, Sequences, SequencesExt

CONSTANTS CacheLine,      \* kCacheLine
          MinLines,       \* kMinLines of the pointer chase
          DiskBlock,      \* kDiskSeqBlock
          DefaultSet      \* the default working set of mem_* and disk_*

ASSUME SizesAssumption ==
    CacheLine \in Nat \ {0} /\ MinLines \in Nat \ {0}
    /\ DiskBlock \in Nat \ {0} /\ DefaultSet \in Nat \ {0}

-----------------------------------------------------------------------------
(* The engine. *)

\* workload_registry(): every entry is marked implemented.
Registry ==
    << [kind |-> "cpu_int",     metrics |-> <<"cpu_int_ops">>],
       [kind |-> "cpu_fp",      metrics |-> <<"cpu_fp_ops">>],
       [kind |-> "cpu_hash",    metrics |-> <<"cpu_hash_ops">>],
       [kind |-> "mem_bw",      metrics |-> <<"mem_read_bw", "mem_write_bw", "mem_copy_bw">>],
       [kind |-> "mem_latency", metrics |-> <<"mem_latency">>],
       [kind |-> "disk_seq",    metrics |-> <<"disk_seq_read_bw", "disk_seq_write_bw">>],
       [kind |-> "disk_rand",
        metrics |-> <<"disk_rand_read_iops", "disk_rand_write_iops", "disk_rand_read_p99_us">>] >>

AllWorkloads == [i \in DOMAIN Registry |-> Registry[i].kind]
AllMetrics == UNION {ToSet(Registry[i].metrics) : i \in DOMAIN Registry}

CpuMetrics == {"cpu_int_ops", "cpu_fp_ops", "cpu_hash_ops"}
MemBwMetrics == {"mem_read_bw", "mem_write_bw", "mem_copy_bw"}
DiskSeqMetrics == {"disk_seq_read_bw", "disk_seq_write_bw"}
IopsMetrics == {"disk_rand_read_iops", "disk_rand_write_iops"}

UnitOf(m) ==
    CASE m \in CpuMetrics -> "ops/s"
      [] m \in MemBwMetrics -> "GB/s"
      [] m = "mem_latency" -> "ns"
      [] m \in DiskSeqMetrics -> "MB/s"
      [] m \in IopsMetrics -> "IOPS"
      [] m = "disk_rand_read_p99_us" -> "us"

WorkloadOf(m) ==
    CASE m = "cpu_int_ops" -> "cpu_int"
      [] m = "cpu_fp_ops" -> "cpu_fp"
      [] m = "cpu_hash_ops" -> "cpu_hash"
      [] m \in MemBwMetrics -> "mem_bw"
      [] m = "mem_latency" -> "mem_latency"
      [] m \in DiskSeqMetrics -> "disk_seq"
      [] m \in IopsMetrics \cup {"disk_rand_read_p99_us"} -> "disk_rand"

\* A rider is a second reading of the trials of another metric.
Riders == {"disk_rand_read_p99_us"}

RidersOf(m) == IF m = "disk_rand_read_iops" THEN <<"disk_rand_read_p99_us">> ELSE <<>>

\* The members of s that are not in S, in their order.
Without(s, S) == FlattenSeq([k \in DOMAIN s |-> IF s[k] \in S THEN <<>> ELSE <<s[k]>>])

\* Mutant: the riders are listed as metrics of their own.
MetricsWithRiders(w) ==
    FlattenSeq([i \in DOMAIN Registry |->
        IF Registry[i].kind = w THEN Registry[i].metrics ELSE <<>>])

\* What --workload w stands for: the riders come with their host metric.
MetricsOf(w) ==
    FlattenSeq([i \in DOMAIN Registry |->
        IF Registry[i].kind = w
        THEN Without(Registry[i].metrics, Riders) ELSE <<>>])

DiskWrites == {"disk_seq_write_bw", "disk_rand_write_iops"}

AtLeast(low, n) == IF n < low THEN low ELSE n

\* effective_working_set(): whole cache lines for memory, whole blocks for the
\* disk, at least one of them; what was asked for otherwise.
EffectiveWorkingSet(w, requested) ==
    LET want == IF requested = 0 THEN DefaultSet ELSE requested
    IN  CASE w = "mem_bw" -> AtLeast(1, want \div CacheLine) * CacheLine
          [] w = "mem_latency" -> AtLeast(MinLines, want \div CacheLine) * CacheLine
          [] w \in {"disk_seq", "disk_rand"} -> AtLeast(1, want \div DiskBlock) * DiskBlock
          [] OTHER -> requested

\* Stands for infinity and NaN; every other value is a natural number.
NotFinite == -1

Quotient(a, b) == IF b = 0 THEN NotFinite ELSE a \div b

\* value_from_units(), or the 99th percentile for the metric that is one: a
\* rate, or for latencies the time per unit and thread.  Powers of ten are
\* left out and quotients cut off.
ValueOf(m, units, ns, threads, p99) ==
    IF m = "disk_rand_read_p99_us" THEN p99
    ELSE IF units = 0 \/ ns = 0 \/ threads < 1 THEN 0
    ELSE IF m = "mem_latency" THEN Quotient(ns * threads, units)
    ELSE Quotient(units, ns)

\* cold_region(): the bytes whose cache state a worker controls.  A copy has a
\* source and a destination; a disk workload controls nothing.
ColdRegion(m, ws) ==
    CASE m = "mem_copy_bw" -> 2 * ws
      [] m \in {"mem_read_bw", "mem_write_bw", "mem_latency"} -> ws
      [] m \in CpuMetrics -> CacheLine
      [] OTHER -> 0

\* ColdPrep::setup(): flushing what never fitted into the cache is not done,
\* and said not to be.  A size of 0 is one that is not known.  Sizes of caches and
\* of regions are in one unit (kilobytes and bytes in the code).
ColdEffect(requested, l3, region) ==
    IF requested = "clflush" /\ (region = 0 \/ (l3 > 0 /\ region > l3)) THEN "n/a" ELSE requested

-----------------------------------------------------------------------------
(* The API. *)

ApiWorkloads ==
    {"cpu_int", "cpu_fp", "cpu_hash", "mem_bw", "mem_latency", "disk_seq", "disk_rand"}

ApiMetrics ==
    CpuMetrics \cup MemBwMetrics \cup {"mem_latency"} \cup DiskSeqMetrics \cup IopsMetrics
    \cup {"disk_rand_read_p99_us"}

\* UnitOf and WorkloadOf of enums.go.
ApiUnitOf ==
    [m \in ApiMetrics |->
        CASE m \in CpuMetrics -> "ops/s" [] m \in MemBwMetrics -> "GB/s" [] m = "mem_latency" -> "ns"
          [] m \in DiskSeqMetrics -> "MB/s" [] m \in IopsMetrics -> "IOPS" [] OTHER -> "us"]

ApiWorkloadOf ==
    [m \in ApiMetrics |->
        CASE m = "cpu_int_ops" -> "cpu_int" [] m = "cpu_fp_ops" -> "cpu_fp"
          [] m = "cpu_hash_ops" -> "cpu_hash" [] m \in MemBwMetrics -> "mem_bw"
          [] m = "mem_latency" -> "mem_latency" [] m \in DiskSeqMetrics -> "disk_seq"
          [] OTHER -> "disk_rand"]

=============================================================================
