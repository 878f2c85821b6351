------------------------------ MODULE DiskFile ------------------------------
(***************************************************************************)
(* The disk workloads' test file: ensure_test_file(), the pools that open  *)
(* it and their I/O (engine/src/workloads/disk_io.cpp), over a sequence of *)
(* `bench` commands of which any may be killed.  The file is all that      *)
(* survives a command.                                                     *)
(*                                                                         *)
(* The unit is the 1 MiB sequential block.  A block is "random" (filled),  *)
(* "zero" (written by a sequential write, whose buffer is never filled) or *)
(* a "hole" (allocated and not written).  A missing file is an empty one.  *)
(* Bytes of a batch are one step; several workers' I/O interleaves.        *)
(***************************************************************************)
EXTENDS Integers, Sequences, FiniteSets

CONSTANTS Configs,      \* the configurations a run may be made of
          MaxConfigs,   \* bound: configurations per run
          PrepSizes,    \* sizes for `bench disk prep`, in blocks
          Unit,         \* working-set units per block
          DefaultSize   \* kDiskDefaultSize, in units

Kinds == {"seq_read", "seq_write", "rand_read", "rand_write"}

ASSUME ConfigsAssumption ==
    /\ Configs \subseteq [kind : Kinds, threads : Nat \ {0}, ws : Nat]
    /\ MaxConfigs \in Nat \ {0}
ASSUME SizesAssumption ==
    /\ PrepSizes \subseteq Nat \ {0}
    /\ Unit \in Nat \ {0} /\ DefaultSize \in Nat \ {0}

VARIABLES
    file,       \* the blocks of the test file
    pc,         \* where the command is; "idle" between commands
    specs,      \* the configurations of the run; none for `disk prep`
    interleave, \* cfg.interleave
    want,       \* the `bytes` of ensure_test_file(), in blocks
    off,        \* blocks filled so far
    ci,         \* the configuration being prepared or run
    opened,     \* per configuration, file_bytes_ as its pool saw it; 0: closed
    pos,        \* per configuration and thread, pos_
    filled      \* ghost: how many blocks of the present file its fill has written

run  == <<specs, interleave>>
pool == <<opened, pos>>
vars == <<file, pc, run, want, off, ci, pool, filled>>

AtLeastOne(n) == IF n < 1 THEN 1 ELSE n
Smaller(a, b) == IF a < b THEN a ELSE b

\* effective_working_set(): whole blocks, at least one.
EffectiveWorkingSet(ws) ==
    AtLeastOne((IF ws = 0 THEN DefaultSize ELSE ws) \div Unit)

Size(c) == EffectiveWorkingSet(specs[c].ws)
ThreadsOf(c) == 0..(specs[c].threads - 1)
Writing(c) == specs[c].kind \in {"seq_write", "rand_write"}
Sequential(c) == specs[c].kind \in {"seq_read", "seq_write"}

Init ==
    /\ file = <<>> /\ filled = 0
    /\ pc = "idle" /\ specs = <<>> /\ interleave = FALSE
    /\ want = 0 /\ off = 0 /\ ci = 0
    /\ opened = <<>> /\ pos = <<>>

\* The process ends, in whatever way: nothing but the file remains.
ProcessEnds ==
    /\ pc' = "idle" /\ specs' = <<>> /\ interleave' = FALSE
    /\ want' = 0 /\ off' = 0 /\ ci' = 0
    /\ opened' = <<>> /\ pos' = <<>>

-----------------------------------------------------------------------------
(* Commands *)

\* bench run: the first configuration is prepared.
StartRun(s, inter) ==
    /\ pc = "idle"
    /\ specs' = s /\ interleave' = inter
    /\ ci' = 1 /\ want' = EffectiveWorkingSet(s[1].ws) /\ off' = 0
    /\ opened' = [c \in DOMAIN s |-> 0]
    /\ pos' = [c \in DOMAIN s |-> [i \in 0..(s[c].threads - 1) |-> 0]]
    /\ pc' = "ensure"
    /\ UNCHANGED <<file, filled>>

\* bench disk prep
DiskPrep(n) ==
    /\ pc = "idle"
    /\ want' = n /\ pc' = "ensure"
    /\ UNCHANGED <<file, run, off, ci, pool, filled>>

\* bench disk clean: remove_test_file()
DiskClean ==
    /\ pc = "idle" /\ file # <<>>
    /\ file' = <<>> /\ filled' = 0
    /\ UNCHANGED <<pc, run, want, off, ci, pool>>

\* Killed, at any point of a command.
Killed ==
    /\ pc # "idle"
    /\ ProcessEnds
    /\ UNCHANGED <<file, filled>>

-----------------------------------------------------------------------------
(* ensure_test_file() *)

\* What follows it: the pool is opened, or `disk prep` is done.
Ensured == IF specs = <<>> THEN ProcessEnds
           ELSE pc' = "open" /\ UNCHANGED <<run, want, off, ci, pool>>

\* Mutant: a file that is longer than needed is reused too.
ReuseLonger ==
    /\ pc = "ensure" /\ Len(file) >= want
    /\ Ensured
    /\ UNCHANGED <<file, filled>>

\* A file of the right size is taken as it is.
Reuse ==
    /\ pc = "ensure" /\ Len(file) = want
    /\ Ensured
    /\ UNCHANGED <<file, filled>>

\* open(O_CREAT | O_TRUNC): the blocks are gone, also for those who have the
\* file open.
Truncate ==
    /\ pc = "ensure" /\ Len(file) # want
    /\ file' = <<>> /\ filled' = 0
    /\ pc' = "allocate"
    /\ UNCHANGED <<run, want, off, ci, pool>>

\* fallocate() or ftruncate(): the file has its size before it has its data.
Allocate ==
    /\ pc = "allocate"
    /\ file' = [b \in 1..want |-> "hole"]
    /\ off' = 0 /\ pc' = "fill"
    /\ UNCHANGED <<run, want, ci, pool, filled>>

\* Mutant: the last block is left out.
FillTooShort ==
    /\ pc = "fill"
    /\ IF off < want - 1
       THEN /\ file' = [file EXCEPT ![off + 1] = "random"]
            /\ off' = off + 1 /\ filled' = off + 1
            /\ UNCHANGED <<pc, run, want, ci, pool>>
       ELSE Ensured /\ filled' = want /\ UNCHANGED file

\* One block of fresh random data; after the last one fdatasync().
Fill ==
    /\ pc = "fill"
    /\ IF off < want
       THEN /\ file' = [file EXCEPT ![off + 1] = "random"]
            /\ off' = off + 1 /\ filled' = off + 1
            /\ UNCHANGED <<pc, run, want, ci, pool>>
       ELSE Ensured /\ filled' = want /\ UNCHANGED file

\* A system call fails (no space, no O_DIRECT): the exception ends the command
\* and the file stays as it is.
EnsureFails ==
    /\ pc \in {"ensure", "allocate", "fill"}
    /\ ProcessEnds
    /\ UNCHANGED <<file, filled>>

-----------------------------------------------------------------------------
(* The pools *)

\* setup() of all workers of configuration ci: open_for() takes the size of the
\* file as it is now.  An interleaved run prepares the next configuration while
\* this pool stays open.
Open ==
    /\ pc = "open"
    /\ opened' = [opened EXCEPT ![ci] = Len(file)]
    /\ pos' = [pos EXCEPT ![ci] = [i \in ThreadsOf(ci) |-> 0]]
    /\ IF interleave /\ ci < Len(specs)
       THEN ci' = ci + 1 /\ want' = Size(ci + 1) /\ pc' = "ensure"
       ELSE ci' = (IF interleave THEN 1 ELSE ci) /\ want' = want /\ pc' = "trials"
    /\ off' = 0
    /\ UNCHANGED <<file, run, filled>>

\* A worker cannot open the file: start() throws.
OpenFails ==
    /\ pc = "open"
    /\ ProcessEnds
    /\ UNCHANGED <<file, filled>>

\* Mutant: the regions are as long as the average rounded up.
RegionRoundedUp(c, i) ==
    LET n   == specs[c].threads
        per == (opened[c] + n - 1) \div n
    IN  [off |-> Smaller(i * (opened[c] \div n), opened[c] - 1), len |-> per]

\* DiskSeqWorkload::setup(): the region of thread i, in blocks.
Region(c, i) ==
    LET blocks == opened[c]
        per    == AtLeastOne(blocks \div specs[c].threads)
        start  == Smaller(i * per, blocks - 1)
    IN  [off |-> start, len |-> Smaller(per, blocks - start)]

\* The blocks that thread i of configuration c may touch next.
NextBlocks(c, i) ==
    IF Sequential(c) THEN {Region(c, i).off + pos[c][i]} ELSE 0..(opened[c] - 1)

\* Mutant: it wraps when the block after the region has been done.
AdvancePast(c, i) ==
    IF pos[c][i] + 1 > Region(c, i).len THEN 0 ELSE pos[c][i] + 1

\* pos_ after one block: it wraps within the region.
Advance(c, i) ==
    IF pos[c][i] + 2 > Region(c, i).len THEN 0 ELSE pos[c][i] + 1

\* One I/O of thread i at a block of the file, in the trial of configuration
\* ci.  Sequential writes carry the zeroes the buffer was allocated with; a
\* random write changes 4 KiB of its block.
Transfer(i) ==
    /\ pc = "trials"
    /\ \E b \in NextBlocks(ci, i) :
         /\ b < Len(file)
         /\ file' = IF specs[ci].kind = "seq_write"
                    THEN [file EXCEPT ![b + 1] = "zero"] ELSE file
    /\ pos' = IF Sequential(ci) THEN [pos EXCEPT ![ci][i] = Advance(ci, i)] ELSE pos
    /\ UNCHANGED <<pc, run, want, off, ci, opened, filled>>

\* full_pread() at the end of the file throws inside the worker, where nothing
\* catches it: std::terminate.
ReadPastEnd(i) ==
    /\ pc = "trials" /\ ~Writing(ci)
    /\ \E b \in NextBlocks(ci, i) : b >= Len(file)
    /\ ProcessEnds
    /\ UNCHANGED <<file, filled>>

\* A write past the end makes the file longer.
WritePastEnd(i) ==
    /\ pc = "trials" /\ Writing(ci)
    /\ \E b \in NextBlocks(ci, i) :
         /\ b >= Len(file)
         /\ file' = [k \in 1..(b + 1) |->
              IF k <= Len(file) THEN file[k]
              ELSE IF k = b + 1 /\ Sequential(ci) THEN "zero" ELSE "hole"]
    /\ pos' = IF Sequential(ci) THEN [pos EXCEPT ![ci][i] = Advance(ci, i)] ELSE pos
    /\ UNCHANGED <<pc, run, want, off, ci, opened, filled>>

\* The coordinator turns to the next session, in an interleaved run.
NextTurn ==
    /\ pc = "trials" /\ interleave
    /\ ci' = IF ci = Len(specs) THEN 1 ELSE ci + 1
    /\ UNCHANGED <<file, pc, run, want, off, pool, filled>>

\* Sequentially the pool is closed before the next configuration (or the same
\* one again, after a dirty canary) is prepared.
NextConfig ==
    /\ pc = "trials" /\ ~interleave
    /\ \E c \in {ci, ci + 1} \cap DOMAIN specs :
         /\ ci' = c /\ want' = Size(c)
         /\ opened' = [opened EXCEPT ![ci] = 0]
    /\ pc' = "ensure"
    /\ UNCHANGED <<file, run, off, pos, filled>>

\* All trials done, or the run stopped: the pools are closed.
EndRun ==
    /\ pc = "trials"
    /\ ProcessEnds
    /\ UNCHANGED <<file, filled>>

-----------------------------------------------------------------------------

Runs == UNION {[1..n -> Configs] : n \in 1..MaxConfigs}

Next ==
    \/ \E s \in Runs, inter \in BOOLEAN : StartRun(s, inter)
    \/ \E n \in PrepSizes : DiskPrep(n)
    \/ DiskClean \/ Killed
    \/ Reuse \/ Truncate \/ Allocate \/ Fill \/ EnsureFails
    \/ Open \/ OpenFails
    \/ \E c \in DOMAIN specs : c = ci /\
         \E i \in ThreadsOf(c) : Transfer(i) \/ ReadPastEnd(i) \/ WritePastEnd(i)
    \/ NextTurn \/ NextConfig \/ EndRun

Spec == Init /\ [][Next]_vars

-----------------------------------------------------------------------------
(* Properties *)

\* The pools of the run do not have the file truncated under them.
OneSize ==
    ~interleave \/ \A c, d \in DOMAIN specs : Size(c) = Size(d)

InTrial == pc = "trials"

\* "so that both workloads can share one file without either reading past its
\* end": whatever commands came before, and however they ended, the next I/O of
\* every worker lies in the file, and the file has the size of the
\* configuration being measured.
WithinFile ==
    (InTrial /\ OneSize) =>
        /\ Len(file) = Size(ci) /\ opened[ci] = Size(ci)
        /\ \A i \in ThreadsOf(ci) : \A b \in NextBlocks(ci, i) : b \in 0..(Len(file) - 1)

\* "N threads are N sequential streams": two workers of a sequential
\* configuration are never at the same block, and each stays in its region,
\* unless there are more threads than blocks.
StreamsDisjoint ==
    (InTrial /\ Sequential(ci) /\ specs[ci].threads <= opened[ci]) =>
        \A i, j \in ThreadsOf(ci) : i # j =>
            NextBlocks(ci, i) \cap NextBlocks(ci, j) = {}

\* "Random, never sparse and never zeros": where a trial meets a block that was
\* only allocated, the fill of this very file never came to it, because a kill or
\* an error cut the fill short or because a write went past the end of the file.
\* What ensure_test_file() has filled stays filled, and a fill that it reports as
\* done has left out nothing.
HolesAreUnfilled ==
    InTrial => \A b \in DOMAIN file : file[b] = "hole" => b > filled

-----------------------------------------------------------------------------
(* The inductive invariant behind them.                                     *)

Blocks == {"random", "zero", "hole"}

\* A run is described while it lasts; `disk prep` and an idle machine have none.
TypeOK ==
    /\ file \in Seq(Blocks) /\ filled \in 0..Len(file)
    /\ pc \in {"idle", "ensure", "allocate", "fill", "open", "trials"}
    /\ specs \in Runs \cup {<<>>} /\ interleave \in BOOLEAN
    /\ want \in Nat /\ off \in Nat
    /\ pc \in {"open", "trials"} => specs # <<>>
    /\ specs # <<>> =>
         /\ pc # "idle" /\ ci \in DOMAIN specs
         /\ opened \in [DOMAIN specs -> Nat]
         /\ DOMAIN pos = DOMAIN specs
         /\ \A c \in DOMAIN specs : pos[c] \in [ThreadsOf(c) -> Nat]

\* ensure_test_file() leaves a file of the size it was asked for, and has filled
\* it as far as it says.
EnsureInv ==
    /\ specs # <<>> /\ pc \in {"ensure", "allocate", "fill", "open"} => want = Size(ci)
    /\ pc = "allocate" => file = <<>>
    /\ pc \in {"fill", "open"} => Len(file) = want
    /\ pc = "fill" => off <= want /\ \A b \in 1..off : file[b] = "random"

\* What has been filled has no hole.
FilledInv == \A b \in 1..filled : file[b] # "hole"

\* Which pools are open: those already prepared, in an interleaved run all at
\* trial time, otherwise the one being measured.
Opened(c) ==
    IF interleave THEN pc = "trials" \/ c < ci ELSE pc = "trials" /\ c = ci

\* An open pool saw the size of its configuration, and each of its threads is in
\* its region.
PoolInv(c) ==
    /\ opened[c] \in {0, Size(c)}
    /\ Opened(c) => opened[c] = Size(c)
    /\ opened[c] > 0 => \A i \in ThreadsOf(c) : pos[c][i] < Region(c, i).len

IInv ==
    /\ TypeOK /\ EnsureInv /\ FilledInv
    /\ specs # <<>> => \A c \in DOMAIN specs : PoolInv(c)
    /\ InTrial /\ OneSize => Len(file) = Size(ci)

=============================================================================
