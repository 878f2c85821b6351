--------------------------- MODULE DiskFileProofs ---------------------------
(***************************************************************************)
(* The test file of the disk workloads, for any sequence of commands, any  *)
(* configurations and sizes: unless it is interleaved with one of another  *)
(* size, the I/O of a configuration's trials stays within the file; the    *)
(* streams of a sequential workload do not meet, and a hole that a trial   *)
(* meets is one that the fill of the file never came to.                   *)
(***************************************************************************)
EXTENDS DiskFile, TLAPS

-----------------------------------------------------------------------------
(* Sizes and regions. *)

\* The configurations of a run are numbered from 1 and well formed.
LEMMA RunFacts ==
    ASSUME NEW s \in Runs
    PROVE  /\ s # <<>> /\ 1 \in DOMAIN s
           /\ Len(s) \in Nat /\ DOMAIN s = 1..Len(s)
           /\ \A c \in DOMAIN s : /\ s[c].threads \in Nat /\ s[c].threads > 0
                                  /\ s[c].ws \in Nat
<1>1. PICK n \in 1..MaxConfigs : s \in [1..n -> Configs]
  BY DEF Runs
<1>2. n \in Nat /\ n > 0 /\ DOMAIN s = 1..n
  BY <1>1, ConfigsAssumption
<1>3. s \in Seq(Configs) /\ Len(s) = n
  BY <1>1, <1>2
<1>4. \A c \in DOMAIN s : s[c] \in [kind : Kinds, threads : Nat \ {0}, ws : Nat]
  BY <1>1, <1>2, ConfigsAssumption
<1> QED BY <1>2, <1>3, <1>4

\* effective_working_set() is at least a block.
LEMMA WorkingSet ==
    ASSUME NEW ws \in Nat
    PROVE  EffectiveWorkingSet(ws) \in Nat /\ EffectiveWorkingSet(ws) > 0
<1> DEFINE units == IF ws = 0 THEN DefaultSize ELSE ws
<1>1. units \in Nat
  BY SizesAssumption
<1>2. units \div Unit \in Nat
  <2> HIDE DEF units
  <2> QED BY <1>1, SizesAssumption
<1> QED BY <1>2 DEF EffectiveWorkingSet, AtLeastOne

\* The i-th of n regions of a file: not empty and within it ...
LEMMA RegionArithmetic ==
    ASSUME NEW blocks \in Nat, blocks > 0, NEW n \in Nat, n > 0, NEW i \in Nat
    PROVE  LET per   == AtLeastOne(blocks \div n)
               start == Smaller(i * per, blocks - 1)
               len   == Smaller(per, blocks - start)
           IN  start \in Nat /\ len \in Nat /\ len > 0 /\ start + len <= blocks
<1> DEFINE per   == AtLeastOne(blocks \div n)
           start == Smaller(i * per, blocks - 1)
<1>1. blocks \div n \in Nat
  OBVIOUS
<1>2. per \in Nat /\ per > 0
  BY <1>1 DEF AtLeastOne
<1>3. i * per \in Nat
  <2> HIDE DEF per
  <2> QED BY <1>2
<1>4. start \in Nat /\ start <= blocks - 1
  <2> HIDE DEF per
  <2> QED BY <1>3 DEF Smaller
<1> HIDE DEF per, start
<1>5. LET len == Smaller(per, blocks - start)
      IN  len \in Nat /\ len > 0 /\ start + len <= blocks
  BY <1>2, <1>4 DEF Smaller
<1> QED BY <1>4, <1>5 DEF per, start

\* ... as the region of a thread is.
LEMMA RegionWithin ==
    ASSUME NEW c, NEW i \in Nat,
           opened[c] \in Nat, opened[c] > 0, specs[c].threads \in Nat, specs[c].threads > 0
    PROVE  /\ Region(c, i).off \in Nat /\ Region(c, i).len \in Nat
           /\ Region(c, i).len > 0
           /\ Region(c, i).off + Region(c, i).len <= opened[c]
BY RegionArithmetic DEF Region

\* Multiples of a length are at least that length apart.
LEMMA Multiples ==
    ASSUME NEW i \in Nat, NEW j \in Nat, NEW per \in Nat, i < j
    PROVE  i * per + per <= j * per
<1>1. PICK d \in Nat : j = i + 1 + d
  <2>1. j - i - 1 \in Nat /\ j = i + 1 + (j - i - 1)
    OBVIOUS
  <2> QED BY <2>1
<1>2. j * per = i * per + per + d * per
  BY <1>1
<1>3. d * per \in Nat /\ i * per \in Nat
  OBVIOUS
<1> QED BY <1>2, <1>3

\* With at least a block per thread, the region of a thread ends before the next
\* one's begins.
LEMMA RegionsApart ==
    ASSUME NEW c, NEW i \in Nat, NEW j \in Nat, i < j, j < specs[c].threads,
           opened[c] \in Nat, specs[c].threads \in Nat, specs[c].threads > 0,
           specs[c].threads <= opened[c]
    PROVE  Region(c, i).off + Region(c, i).len <= Region(c, j).off
<1> DEFINE blocks == opened[c]
           n      == specs[c].threads
           per    == blocks \div n
<1>1. per \in Nat /\ per > 0 /\ n * per <= blocks
  OBVIOUS
<1>2. AtLeastOne(per) = per
  BY <1>1 DEF AtLeastOne
<1> HIDE DEF per
<1>3. /\ i * per + per <= j * per /\ j * per + per <= n * per
      /\ i * per \in Nat /\ j * per \in Nat
  <2>1. i * per + per <= j * per
    BY <1>1, Multiples
  <2>2. j * per + per <= n * per
    BY <1>1, Multiples
  <2>3. i * per \in Nat /\ j * per \in Nat
    BY <1>1
  <2> QED BY <2>1, <2>2, <2>3
<1>4. n * per \in Nat
  BY <1>1
<1>5. Smaller(i * per, blocks - 1) = i * per /\ Smaller(j * per, blocks - 1) = j * per
  BY <1>1, <1>3, <1>4 DEF Smaller
<1>6. /\ Region(c, i).off = i * per /\ Region(c, j).off = j * per
      /\ Region(c, i).len = Smaller(per, blocks - i * per)
  BY <1>2, <1>5 DEF Region, per
<1>7. Region(c, i).len = per
  BY <1>1, <1>3, <1>4, <1>6 DEF Smaller
<1> QED BY <1>3, <1>6, <1>7

-----------------------------------------------------------------------------
(* What the invariant says during a run. *)

\* The run in progress.
LEMMA InRun ==
    ASSUME TypeOK, specs # <<>>
    PROVE  /\ specs \in Runs /\ ci \in DOMAIN specs /\ ci \in Nat /\ ci > 0 /\ ci <= Len(specs)
           /\ Len(specs) \in Nat /\ DOMAIN specs = 1..Len(specs) /\ 1 \in DOMAIN specs
           /\ \A c \in DOMAIN specs :
                /\ specs[c].threads \in Nat /\ specs[c].threads > 0
                /\ ThreadsOf(c) = 0..(specs[c].threads - 1) /\ ThreadsOf(c) \subseteq Nat
                /\ Size(c) \in Nat /\ Size(c) > 0
                /\ opened[c] \in Nat /\ pos[c] \in [ThreadsOf(c) -> Nat]
<1>1. specs \in Runs
  BY DEF TypeOK
<1>2. /\ Len(specs) \in Nat /\ DOMAIN specs = 1..Len(specs) /\ 1 \in DOMAIN specs
      /\ \A c \in DOMAIN specs : /\ specs[c].threads \in Nat /\ specs[c].threads > 0
                                 /\ specs[c].ws \in Nat
  BY <1>1, RunFacts
<1>3. ASSUME NEW c \in DOMAIN specs
      PROVE  /\ ThreadsOf(c) = 0..(specs[c].threads - 1) /\ ThreadsOf(c) \subseteq Nat
             /\ Size(c) \in Nat /\ Size(c) > 0
             /\ opened[c] \in Nat /\ pos[c] \in [ThreadsOf(c) -> Nat]
  <2>1. ThreadsOf(c) = 0..(specs[c].threads - 1) /\ ThreadsOf(c) \subseteq Nat
    BY <1>2 DEF ThreadsOf
  <2>2. Size(c) \in Nat /\ Size(c) > 0
    BY <1>2, WorkingSet DEF Size
  <2>3. opened[c] \in Nat /\ pos[c] \in [ThreadsOf(c) -> Nat]
    BY DEF TypeOK
  <2> QED BY <2>1, <2>2, <2>3
<1> QED BY <1>1, <1>2, <1>3 DEF TypeOK

\* In a trial the next block of a thread lies in the file as its pool opened it.
LEMMA NextWithinOpened ==
    ASSUME IInv, pc = "trials", NEW i \in ThreadsOf(ci), NEW b \in NextBlocks(ci, i)
    PROVE  b \in Nat /\ b < opened[ci] /\ opened[ci] = Size(ci) /\ opened[ci] \in Nat
<1>1. specs # <<>> /\ TypeOK
  BY DEF IInv, TypeOK
<1>2. PoolInv(ci) /\ ci \in DOMAIN specs
  BY <1>1 DEF IInv, TypeOK
<1>3. opened[ci] = Size(ci) /\ Size(ci) \in Nat /\ Size(ci) > 0 /\ i \in Nat
      /\ specs[ci].threads \in Nat /\ specs[ci].threads > 0 /\ pos[ci][i] \in Nat
  BY <1>1, <1>2, InRun DEF PoolInv, Opened
<1>4. pos[ci][i] < Region(ci, i).len
  BY <1>2, <1>3 DEF PoolInv
<1>5. /\ Region(ci, i).off \in Nat /\ Region(ci, i).len \in Nat
      /\ Region(ci, i).off + Region(ci, i).len <= opened[ci]
  BY <1>3, RegionWithin
<1>6. b \in Nat /\ b < opened[ci]
  <2>1. CASE Sequential(ci)
    BY <1>3, <1>4, <1>5, <2>1 DEF NextBlocks
  <2>2. CASE ~Sequential(ci)
    BY <1>3, <2>2 DEF NextBlocks
  <2> QED BY <2>1, <2>2
<1> QED BY <1>3, <1>6

\* A pool nobody touches stays as it is.
LEMMA PoolFrame ==
    ASSUME NEW c, PoolInv(c), opened'[c] = opened[c], pos'[c] = pos[c],
           UNCHANGED specs, Opened(c)' => Opened(c)
    PROVE  PoolInv(c)'
<1>1. Size(c)' = Size(c) /\ ThreadsOf(c)' = ThreadsOf(c)
  BY DEF Size, ThreadsOf
<1>2. \A i : Region(c, i)' = Region(c, i)
  BY DEF Region
<1> QED BY <1>1, <1>2 DEF PoolInv

-----------------------------------------------------------------------------
(* The steps. *)

\* A file that is missing is an empty one.
LEMMA EmptyFile == <<>> \in Seq(Blocks) /\ 0 \in 0..Len(<<>>)
<1>1. <<>> \in Seq(Blocks)
  OBVIOUS
<1>2. 0 \in 0..Len(<<>>)
  OBVIOUS
<1> QED BY <1>1, <1>2

\* What holds of the filled blocks depends on the file and on their number only.
LEMMA FilledFrame ==
    ASSUME IInv, UNCHANGED <<file, filled>> PROVE FilledInv'
BY DEF IInv, FilledInv

\* The end of a process leaves the file and nothing else.
LEMMA EndsStep ==
    ASSUME IInv, ProcessEnds, UNCHANGED <<file, filled>>
    PROVE  IInv'
BY DEF ProcessEnds, IInv, TypeOK, EnsureInv, FilledInv, InTrial

\* A run starts with its first configuration.
LEMMA StartRunStep ==
    ASSUME IInv, NEW s \in Runs, NEW inter \in BOOLEAN, StartRun(s, inter)
    PROVE  IInv'
<1> USE DEF StartRun
<1>1. /\ s # <<>> /\ 1 \in DOMAIN s /\ DOMAIN s = 1..Len(s) /\ Len(s) \in Nat
      /\ \A c \in DOMAIN s : s[c].ws \in Nat
  BY RunFacts
<1>2. TypeOK'
  <2>1. want' \in Nat
    BY <1>1, WorkingSet
  <2>2. \A c \in DOMAIN s : pos'[c] \in [(0..(s[c].threads - 1)) -> Nat]
    OBVIOUS
  <2>3. \A c \in DOMAIN s : ThreadsOf(c)' = 0..(s[c].threads - 1)
    BY DEF ThreadsOf
  <2> QED BY <1>1, <2>1, <2>2, <2>3 DEF IInv, TypeOK
<1>3. EnsureInv' /\ FilledInv'
  BY DEF EnsureInv, FilledInv, Size, IInv
<1>4. \A c \in DOMAIN s : PoolInv(c)'
  BY <1>1 DEF PoolInv, Opened
<1> QED BY <1>2, <1>3, <1>4 DEF IInv, InTrial

\* The commands `disk prep` and `disk clean`.
LEMMA PrepCleanStep ==
    ASSUME IInv, DiskClean \/ \E n \in PrepSizes : DiskPrep(n)
    PROVE  IInv'
<1>1. CASE DiskClean
  <2>1. pc = "idle" /\ specs = <<>> /\ file' = <<>> /\ file' \in Seq(Blocks)
    BY <1>1, EmptyFile DEF DiskClean, IInv, TypeOK
  <2>2. UNCHANGED <<pc, specs, interleave, want, off, ci, opened, pos>> /\ filled' = 0
    BY <1>1 DEF DiskClean, run, pool
  <2>3. TypeOK'
    BY <2>1, <2>2, EmptyFile DEF IInv, TypeOK
  <2>4. EnsureInv' /\ FilledInv' /\ ~InTrial' /\ specs' = <<>>
    BY <2>1, <2>2 DEF EnsureInv, FilledInv, InTrial
  <2> QED BY <2>3, <2>4 DEF IInv
<1>2. ASSUME NEW n \in PrepSizes, DiskPrep(n) PROVE IInv'
  <2>1. n \in Nat
    BY SizesAssumption
  <2> QED BY <1>2, <2>1 DEF DiskPrep, IInv, TypeOK, EnsureInv, FilledInv, InTrial, run, pool
<1> QED BY <1>1, <1>2

\* The pools are left alone while the file is made ready.
LEMMA PoolsWait ==
    ASSUME IInv, specs # <<>>, UNCHANGED <<run, ci, pool>>, pc' # "trials"
    PROVE  \A c \in DOMAIN specs' : PoolInv(c)'
<1> SUFFICES ASSUME NEW c \in DOMAIN specs PROVE PoolInv(c)'
  BY DEF run
<1>1. Opened(c)' => Opened(c)
  BY DEF Opened, run
<1> QED BY <1>1, PoolFrame DEF IInv, run, pool

\* A file of the right size is taken, whatever made it.
LEMMA ReuseStep ==
    ASSUME IInv, Reuse
    PROVE  IInv'
<1> USE DEF Reuse
<1>1. CASE specs = <<>>
  BY <1>1, EndsStep DEF Ensured
<1>2. CASE specs # <<>>
  <2>1. pc' = "open" /\ UNCHANGED <<run, want, off, ci, pool>>
    BY <1>2 DEF Ensured
  <2>2. TypeOK'
    BY <1>2, <2>1 DEF IInv, TypeOK, ThreadsOf, run, pool
  <2>3. EnsureInv'
    BY <1>2, <2>1 DEF IInv, EnsureInv, Size, run
  <2> QED BY <1>2, <2>1, <2>2, <2>3, PoolsWait, FilledFrame DEF IInv, InTrial
<1> QED BY <1>1, <1>2

\* The old file goes; the open pools keep the size they saw.
LEMMA TruncateStep ==
    ASSUME IInv, Truncate
    PROVE  IInv'
<1> USE DEF Truncate
<1>1. TypeOK'
  <2>1. file' \in Seq(Blocks) /\ filled' \in 0..Len(file') /\ pc' = "allocate"
    BY EmptyFile
  <2>2. UNCHANGED <<specs, interleave, want, off, ci, opened, pos>>
    BY DEF run, pool
  <2> HIDE DEF Truncate
  <2> QED BY <2>1, <2>2 DEF IInv, TypeOK, ThreadsOf
<1>2. EnsureInv' /\ FilledInv'
  BY DEF IInv, EnsureInv, FilledInv, Size, run
<1> QED BY <1>1, <1>2, PoolsWait DEF IInv, InTrial, run

\* The new one gets its size before its data.
LEMMA AllocateStep ==
    ASSUME IInv, Allocate
    PROVE  IInv'
<1> USE DEF Allocate
<1>1. file' \in Seq(Blocks) /\ Len(file') = want /\ filled = 0
  BY EmptyFile DEF IInv, TypeOK, EnsureInv, Blocks
<1>2. TypeOK' /\ FilledInv'
  BY <1>1 DEF IInv, TypeOK, FilledInv, ThreadsOf, run, pool
<1>3. EnsureInv'
  BY <1>1 DEF IInv, TypeOK, EnsureInv, Size, run
<1> QED BY <1>2, <1>3, PoolsWait DEF IInv, InTrial, run

\* A block is filled, or all have been.
LEMMA FillStep ==
    ASSUME IInv, Fill
    PROVE  IInv'
<1> USE DEF Fill
<1>0. /\ file \in Seq(Blocks) /\ Len(file) = want /\ off \in Nat /\ want \in Nat /\ off <= want
      /\ \A b \in 1..off : file[b] = "random"
  BY DEF IInv, TypeOK, EnsureInv
<1>1. CASE off < want
  <2>1. /\ file' = [file EXCEPT ![off + 1] = "random"] /\ off' = off + 1
        /\ filled' = off + 1 /\ UNCHANGED <<pc, run, want, ci, pool>>
    BY <1>1
  <2>2. /\ file' \in Seq(Blocks) /\ Len(file') = want /\ DOMAIN file' = DOMAIN file
        /\ \A b \in DOMAIN file : file'[b] = IF b = off + 1 THEN "random" ELSE file[b]
    BY <1>0, <1>1, <2>1 DEF Blocks
  <2>3. TypeOK'
    BY <1>0, <1>1, <2>1, <2>2 DEF IInv, TypeOK, ThreadsOf, run, pool
  <2>4. EnsureInv'
    BY <1>0, <1>1, <2>1, <2>2 DEF IInv, EnsureInv, Size, run
  <2>5. FilledInv'
    BY <1>0, <1>1, <2>1, <2>2 DEF FilledInv
  <2> QED BY <2>1, <2>3, <2>4, <2>5, PoolsWait DEF IInv, InTrial, run
<1>2. CASE ~(off < want)
  <2>1. Ensured /\ filled' = want /\ file' = file
    BY <1>2
  <2>2. FilledInv' /\ filled' \in 0..Len(file')
    BY <1>0, <1>2, <2>1 DEF FilledInv
  <2>3. CASE specs = <<>>
    <3>1. ProcessEnds
      BY <2>1, <2>3 DEF Ensured
    <3>2. TypeOK' /\ EnsureInv' /\ ~InTrial' /\ specs' = <<>>
      BY <1>0, <2>1, <2>2, <3>1 DEF ProcessEnds, TypeOK, EnsureInv, InTrial
    <3> QED BY <2>1, <2>2, <3>2 DEF IInv
  <2>4. CASE specs # <<>>
    <3>1. pc' = "open" /\ UNCHANGED <<run, want, off, ci, pool>>
      BY <2>1, <2>4 DEF Ensured
    <3>2. TypeOK'
      BY <2>1, <2>2, <2>4, <3>1 DEF IInv, TypeOK, ThreadsOf, run, pool
    <3>3. EnsureInv'
      BY <1>0, <2>1, <2>4, <3>1 DEF IInv, EnsureInv, Size, run
    <3> QED BY <2>1, <2>2, <2>4, <3>1, <3>2, <3>3, PoolsWait DEF IInv, InTrial
  <2> QED BY <2>3, <2>4
<1> QED BY <1>1, <1>2

\* A pool opens a file of its configuration's size.
LEMMA OpenStep ==
    ASSUME IInv, Open
    PROVE  IInv'
<1> USE DEF Open
<1>0. PICK k : k = ci
  OBVIOUS
<1>1. specs # <<>> /\ TypeOK
  BY DEF IInv, TypeOK
<1>2. /\ ci \in DOMAIN specs /\ ci \in Nat /\ ci > 0 /\ ci <= Len(specs)
      /\ Len(specs) \in Nat /\ DOMAIN specs = 1..Len(specs) /\ 1 \in DOMAIN specs
      /\ Size(ci) \in Nat /\ Size(ci) > 0
      /\ specs[ci].threads \in Nat /\ specs[ci].threads > 0 /\ ThreadsOf(ci) \subseteq Nat
  BY <1>1, InRun
<1>3. Len(file) = Size(ci) /\ want = Size(ci)
  BY <1>1 DEF IInv, EnsureInv
<1>4. /\ opened' = [opened EXCEPT ![ci] = Size(ci)] /\ opened \in [DOMAIN specs -> Nat]
      /\ pos'[ci] = [i \in ThreadsOf(ci) |-> 0] /\ DOMAIN pos' = DOMAIN specs
      /\ \A c \in DOMAIN specs \ {ci} : pos'[c] = pos[c]
      /\ UNCHANGED <<specs, interleave>>
  BY <1>1, <1>2, <1>3 DEF TypeOK, run
<1>5. PoolInv(k)'
  <2>1. opened'[k] = Size(k) /\ Size(k)' = Size(k) /\ ThreadsOf(k)' = ThreadsOf(k)
    BY <1>0, <1>2, <1>4 DEF Size, ThreadsOf
  <2>2. \A i \in ThreadsOf(k) : pos'[k][i] = 0
    BY <1>0, <1>4
  <2>3. ASSUME NEW i \in Nat PROVE Region(k, i)'.len > 0
    <3>1. opened'[k] \in Nat /\ opened'[k] > 0 /\ specs'[k].threads \in Nat /\ specs'[k].threads > 0
      BY <1>0, <1>2, <1>4, <2>1
    <3> QED BY <3>1, RegionArithmetic DEF Region
  <2> QED BY <1>0, <1>2, <2>1, <2>2, <2>3 DEF PoolInv
<1>6. CASE interleave /\ ci < Len(specs)
  <2>1. ci' = ci + 1 /\ want' = Size(ci + 1) /\ pc' = "ensure"
    BY <1>6
  <2>2. ci' \in DOMAIN specs /\ want' \in Nat
    BY <1>1, <1>2, <1>6, <2>1, InRun
  <2>3. TypeOK'
    BY <1>1, <1>2, <1>4, <2>1, <2>2 DEF TypeOK, ThreadsOf
  <2>4. EnsureInv'
    BY <1>4, <2>1 DEF EnsureInv, Size
  <2>5. \A c \in DOMAIN specs \ {k} : Opened(c)' => Opened(c)
    BY <1>0, <1>2, <1>4, <1>6, <2>1 DEF Opened
  <2>6. \A c \in DOMAIN specs \ {k} : PoolInv(c)'
    BY <1>0, <1>1, <1>4, <2>5, PoolFrame DEF IInv
  <2>7. PoolInv(k)'
    BY <1>5
  <2> QED BY <1>4, <2>1, <2>3, <2>4, <2>6, <2>7, FilledFrame DEF IInv, InTrial
<1>7. CASE ~(interleave /\ ci < Len(specs))
  <2>1. ci' = (IF interleave THEN 1 ELSE ci) /\ want' = want /\ pc' = "trials"
    BY <1>7
  <2>2. TypeOK'
    BY <1>1, <1>2, <1>4, <2>1 DEF TypeOK, ThreadsOf
  <2>3. EnsureInv'
    BY <2>1 DEF EnsureInv
  <2>4. \A c \in DOMAIN specs \ {k} : Opened(c)' => Opened(c)
    BY <1>0, <1>2, <1>4, <1>7, <2>1 DEF Opened
  <2>5. \A c \in DOMAIN specs \ {k} : PoolInv(c)'
    BY <1>0, <1>1, <1>4, <2>4, PoolFrame DEF IInv
  <2>6. PoolInv(k)'
    BY <1>5
  <2>7. OneSize' => Len(file') = Size(ci)'
    <3>1. OneSize' => OneSize
      BY <1>4 DEF OneSize, Size
    <3>2. OneSize => Size(IF interleave THEN 1 ELSE ci) = Size(ci)
      BY <1>2 DEF OneSize
    <3> QED BY <1>3, <1>4, <2>1, <3>1, <3>2 DEF Size
  <2> QED BY <1>4, <2>1, <2>2, <2>3, <2>5, <2>6, <2>7, FilledFrame DEF IInv
<1> QED BY <1>6, <1>7

\* A thread that has done a block is still in its region.
LEMMA PoolAdvances ==
    ASSUME IInv, pc = "trials", NEW i \in ThreadsOf(ci),
           UNCHANGED <<pc, specs, interleave, ci, opened>>,
           pos' = IF Sequential(ci) THEN [pos EXCEPT ![ci][i] = Advance(ci, i)] ELSE pos
    PROVE  /\ \A c \in DOMAIN specs : PoolInv(c)' /\ pos'[c] \in [ThreadsOf(c) -> Nat]
           /\ DOMAIN pos' = DOMAIN specs
<1>1. specs # <<>> /\ TypeOK /\ ci \in DOMAIN specs
  BY DEF IInv, TypeOK
<1>2. \A c \in DOMAIN specs : PoolInv(c) /\ pos[c] \in [ThreadsOf(c) -> Nat]
  BY <1>1 DEF IInv, TypeOK
<1>3. DOMAIN pos' = DOMAIN specs
  BY <1>1 DEF TypeOK
<1>4. CASE ~Sequential(ci)
  <2>1. ASSUME NEW c \in DOMAIN specs PROVE PoolInv(c)'
    BY <1>2, <1>4, PoolFrame DEF Opened
  <2> QED BY <1>2, <1>3, <1>4, <2>1
<1>5. CASE Sequential(ci)
  <2>0. PICK k : k = ci
    OBVIOUS
  <2>1. /\ opened[k] = Size(k) /\ opened[k] > 0 /\ opened[k] \in Nat /\ i \in Nat
        /\ specs[k].threads \in Nat /\ specs[k].threads > 0
        /\ pos[k] \in [ThreadsOf(k) -> Nat]
    BY <1>1, <1>2, <2>0, InRun DEF PoolInv, Opened
  <2>2. Region(k, i).len \in Nat /\ Region(k, i).len > 0
    BY <2>1, RegionWithin
  <2>3. Advance(k, i) \in Nat /\ Advance(k, i) < Region(k, i).len
    BY <2>0, <2>1, <2>2 DEF Advance
  <2>4. /\ pos'[k] = [pos[k] EXCEPT ![i] = Advance(k, i)]
        /\ \A c \in DOMAIN specs \ {k} : pos'[c] = pos[c]
    BY <1>1, <1>5, <2>0 DEF TypeOK
  <2>5. \A c \in DOMAIN specs \ {k} : PoolInv(c)'
    BY <1>2, <2>4, PoolFrame DEF Opened
  <2>6. PoolInv(k)'
    <3>1. Size(k)' = Size(k) /\ ThreadsOf(k)' = ThreadsOf(k) /\ \A j : Region(k, j)' = Region(k, j)
      BY DEF Size, ThreadsOf, Region
    <3>2. \A j \in ThreadsOf(k) : pos'[k][j] < Region(k, j).len
      BY <1>1, <1>2, <2>0, <2>1, <2>3, <2>4 DEF PoolInv
    <3> QED BY <2>1, <3>1, <3>2 DEF PoolInv
  <2>7. pos'[k] \in [ThreadsOf(k) -> Nat]
    BY <2>1, <2>3, <2>4
  <2> QED BY <1>2, <1>3, <2>4, <2>5, <2>6, <2>7
<1> QED BY <1>4, <1>5

\* A transfer keeps the length of the file and leaves no hole.
LEMMA TransferStep ==
    ASSUME IInv, NEW i \in ThreadsOf(ci), Transfer(i)
    PROVE  IInv'
<1>1. pc = "trials" /\ UNCHANGED <<pc, specs, interleave, want, off, ci, opened, filled>>
  BY DEF Transfer, run
<1>2. pos' = IF Sequential(ci) THEN [pos EXCEPT ![ci][i] = Advance(ci, i)] ELSE pos
  BY DEF Transfer
<1>3. /\ \A c \in DOMAIN specs : PoolInv(c)' /\ pos'[c] \in [ThreadsOf(c) -> Nat]
      /\ DOMAIN pos' = DOMAIN specs
  BY <1>1, <1>2, PoolAdvances
<1>4. /\ file' \in Seq(Blocks) /\ Len(file') = Len(file) /\ DOMAIN file' = DOMAIN file
      /\ \A b \in DOMAIN file : file'[b] = file[b] \/ file'[b] = "zero"
  <2>1. PICK b \in NextBlocks(ci, i) :
          b < Len(file) /\ file' = IF specs[ci].kind = "seq_write"
                                   THEN [file EXCEPT ![b + 1] = "zero"] ELSE file
    BY DEF Transfer
  <2>2. b \in Nat /\ file \in Seq(Blocks)
    BY <1>1, NextWithinOpened DEF IInv, TypeOK
  <2>3. file' = [file EXCEPT ![b + 1] = "zero"] \/ file' = file
    BY <2>1
  <2> QED BY <2>2, <2>3 DEF Blocks
<1>5. TypeOK'
  BY <1>1, <1>3, <1>4 DEF IInv, TypeOK, ThreadsOf
<1>6. EnsureInv'
  BY <1>1 DEF EnsureInv
<1>7. (InTrial /\ OneSize => Len(file) = Size(ci))'
  BY <1>1, <1>4 DEF IInv, InTrial, OneSize, Size
<1>8. FilledInv'
  BY <1>1, <1>4 DEF IInv, TypeOK, FilledInv
<1> QED BY <1>1, <1>3, <1>5, <1>6, <1>7, <1>8 DEF IInv

\* Writing past the end of the file happens only in a run of several sizes.
LEMMA WritePastEndStep ==
    ASSUME IInv, NEW i \in ThreadsOf(ci), WritePastEnd(i)
    PROVE  IInv'
<1>1. pc = "trials" /\ UNCHANGED <<pc, specs, interleave, want, off, ci, opened, filled>>
  BY DEF WritePastEnd, run
<1>2. pos' = IF Sequential(ci) THEN [pos EXCEPT ![ci][i] = Advance(ci, i)] ELSE pos
  BY DEF WritePastEnd
<1>3. /\ \A c \in DOMAIN specs : PoolInv(c)' /\ pos'[c] \in [ThreadsOf(c) -> Nat]
      /\ DOMAIN pos' = DOMAIN specs
  BY <1>1, <1>2, PoolAdvances
<1>4. PICK b \in NextBlocks(ci, i) :
        /\ b >= Len(file)
        /\ file' = [k \in 1..(b + 1) |->
             IF k <= Len(file) THEN file[k]
             ELSE IF k = b + 1 /\ Sequential(ci) THEN "zero" ELSE "hole"]
  BY DEF WritePastEnd
<1>5. b \in Nat /\ b < opened[ci] /\ opened[ci] = Size(ci)
  BY <1>1, NextWithinOpened
<1>6. ~OneSize
  BY <1>1, <1>4, <1>5 DEF IInv, TypeOK, InTrial
<1>7. file' \in Seq(Blocks) /\ filled' \in 0..Len(file') /\ FilledInv'
  <2>1. file \in Seq(Blocks)
    BY DEF IInv, TypeOK
  <2>2. \A k \in 1..(b + 1) : file'[k] \in Blocks
    BY <1>4, <1>5, <2>1 DEF Blocks
  <2>3. file' \in [1..(b + 1) -> Blocks]
    BY <1>4, <2>2
  <2>4. file' \in Seq(Blocks) /\ Len(file') = b + 1
    BY <1>5, <2>3
  <2>5. filled \in 0..Len(file) /\ Len(file) \in Nat /\ \A k \in 1..filled : file[k] # "hole"
    BY <2>1 DEF IInv, TypeOK, FilledInv
  <2>6. filled' \in 0..Len(file')
    BY <1>1, <1>4, <1>5, <2>4, <2>5
  <2>7. ASSUME NEW k \in 1..filled PROVE file'[k] # "hole"
    BY <1>4, <1>5, <2>5
  <2> QED BY <1>1, <2>4, <2>6, <2>7 DEF FilledInv
<1>8. TypeOK'
  BY <1>1, <1>3, <1>7 DEF IInv, TypeOK, ThreadsOf
<1>9. EnsureInv'
  BY <1>1 DEF EnsureInv
<1>10. ~OneSize'
  BY <1>1, <1>6 DEF OneSize, Size
<1> QED BY <1>1, <1>3, <1>7, <1>8, <1>9, <1>10 DEF IInv

\* Another configuration's turn: all pools are open.
LEMMA NextTurnStep ==
    ASSUME IInv, NextTurn
    PROVE  IInv'
<1>1. /\ pc = "trials" /\ interleave /\ ci' = (IF ci = Len(specs) THEN 1 ELSE ci + 1)
      /\ UNCHANGED <<file, pc, specs, interleave, want, off, opened, pos, filled>>
  BY DEF NextTurn, run, pool
<1>2. specs # <<>> /\ TypeOK /\ ci \in DOMAIN specs
  BY <1>1 DEF IInv, TypeOK
<1>3. ci' \in DOMAIN specs
  BY <1>1, <1>2, InRun
<1>4. TypeOK'
  BY <1>1, <1>2, <1>3 DEF TypeOK, ThreadsOf
<1>5. EnsureInv'
  BY <1>1 DEF EnsureInv
<1>6. \A c \in DOMAIN specs : PoolInv(c)'
  BY <1>1, <1>2, PoolFrame DEF IInv, Opened
<1>7. (InTrial /\ OneSize => Len(file) = Size(ci))'
  <2>1. OneSize' => OneSize /\ Size(ci') = Size(ci)
    BY <1>1, <1>2, <1>3 DEF OneSize, Size
  <2> QED BY <1>1, <2>1 DEF IInv, InTrial, Size
<1> QED BY <1>1, <1>4, <1>5, <1>6, <1>7, FilledFrame DEF IInv

\* The next configuration is prepared when this one's pool is closed.
LEMMA NextConfigStep ==
    ASSUME IInv, NextConfig
    PROVE  IInv'
<1>1. /\ pc = "trials" /\ ~interleave /\ pc' = "ensure"
      /\ UNCHANGED <<file, specs, interleave, off, pos, filled>>
      /\ ci' \in DOMAIN specs /\ want' = Size(ci')
      /\ opened' = [opened EXCEPT ![ci] = 0]
  BY DEF NextConfig, run
<1>2. specs # <<>> /\ TypeOK /\ ci \in DOMAIN specs
  BY <1>1 DEF IInv, TypeOK
<1>3. TypeOK'
  <2>1. want' \in Nat
    BY <1>1, <1>2, InRun
  <2> QED BY <1>1, <1>2, <2>1 DEF TypeOK, ThreadsOf
<1>4. EnsureInv'
  BY <1>1 DEF EnsureInv, Size
<1>5. ASSUME NEW c \in DOMAIN specs PROVE PoolInv(c)'
  <2>1. PoolInv(c) /\ ~Opened(c)'
    BY <1>1, <1>2 DEF IInv, Opened
  <2>2. CASE c = ci
    <3>1. opened'[c] = 0
      BY <1>1, <1>2, <2>2 DEF TypeOK
    <3> QED BY <2>1, <3>1 DEF PoolInv
  <2>3. CASE c # ci
    <3>1. opened'[c] = opened[c] /\ pos'[c] = pos[c]
      BY <1>1, <1>2, <2>3 DEF TypeOK
    <3> QED BY <1>1, <2>1, <3>1, PoolFrame
  <2> QED BY <2>2, <2>3
<1> QED BY <1>1, <1>3, <1>4, <1>5, FilledFrame DEF IInv, InTrial

-----------------------------------------------------------------------------
(* The invariant holds and is kept. *)

\* No file, no command.
LEMMA InitIInv == Init => IInv
<1> SUFFICES ASSUME Init PROVE IInv
  OBVIOUS
<1>1. TypeOK
  BY EmptyFile DEF Init, TypeOK
<1>2. EnsureInv /\ FilledInv /\ ~InTrial /\ specs = <<>>
  BY DEF Init, EnsureInv, FilledInv, InTrial
<1> QED BY <1>1, <1>2 DEF IInv

\* A step that changes nothing keeps what is known.
LEMMA StutterStep ==
    ASSUME IInv, UNCHANGED vars
    PROVE  IInv'
<1>1. UNCHANGED <<file, pc, specs, interleave, want, off, ci, opened, pos, filled>>
  BY DEF vars, run, pool
<1>2. TypeOK' /\ EnsureInv'
  BY <1>1 DEF IInv, TypeOK, EnsureInv, ThreadsOf, Size
<1>3. specs # <<>> => \A c \in DOMAIN specs : PoolInv(c)'
  BY <1>1, PoolFrame DEF IInv, Opened
<1>4. (InTrial /\ OneSize => Len(file) = Size(ci))'
  BY <1>1 DEF IInv, InTrial, OneSize, Size
<1> QED BY <1>1, <1>2, <1>3, <1>4, FilledFrame DEF IInv

\* Every step of every command keeps the invariant, being killed included.
LEMMA NextIInv ==
    ASSUME IInv, [Next]_vars
    PROVE  IInv'
<1>1. ASSUME NEW i \in ThreadsOf(ci), Transfer(i) \/ ReadPastEnd(i) \/ WritePastEnd(i)
      PROVE  IInv'
  BY <1>1, TransferStep, WritePastEndStep, EndsStep DEF ReadPastEnd
<1>2. CASE Killed \/ EnsureFails \/ OpenFails \/ EndRun
  BY <1>2, EndsStep DEF Killed, EnsureFails, OpenFails, EndRun
<1>3. CASE UNCHANGED vars
  BY <1>3, StutterStep
<1> QED BY <1>1, <1>2, <1>3, StartRunStep, PrepCleanStep, ReuseStep, TruncateStep, AllocateStep,
           FillStep, OpenStep, NextTurnStep, NextConfigStep
        DEF Next

\* The commands keep the invariant of the file.
THEOREM Invariance == Spec => []IInv
<1> QED BY InitIInv, NextIInv, PTL DEF Spec

\* Whatever commands came before and however they ended, the file has the size of
\* the configuration being measured and every worker's next I/O lies in it, in a
\* sequential run and in an interleaved one whose configurations have one size:
\* with several sizes, file_bytes_ of a pool may be stale (ensure_test_file(),
\* open_for(), DiskSeqWorkload::setup()).
THEOREM TransfersWithinFile == Spec => []WithinFile
<1>1. IInv => WithinFile
  <2> SUFFICES ASSUME IInv, InTrial, OneSize PROVE WithinFile
    BY DEF WithinFile
  <2>1. pc = "trials" /\ Len(file) = Size(ci) /\ specs # <<>> /\ TypeOK
    BY DEF IInv, TypeOK, InTrial
  <2>2. opened[ci] = Size(ci)
    BY <2>1 DEF IInv, TypeOK, PoolInv, Opened
  <2>3. \A i \in ThreadsOf(ci) : \A b \in NextBlocks(ci, i) : b \in 0..(Len(file) - 1)
    BY <2>1, NextWithinOpened
  <2> QED BY <2>1, <2>2, <2>3 DEF WithinFile
<1> QED BY <1>1, Invariance, PTL

\* The streams of a sequential workload never meet, unless there are more threads
\* than blocks (DiskSeqWorkload::setup() and its pos_).
THEOREM StreamsNeverMeet == Spec => []StreamsDisjoint
<1>1. ASSUME IInv, InTrial, Sequential(ci), specs[ci].threads <= opened[ci],
             NEW i \in ThreadsOf(ci), NEW j \in ThreadsOf(ci), i < j
      PROVE  NextBlocks(ci, i) \cap NextBlocks(ci, j) = {}
  <2>1. pc = "trials" /\ specs # <<>> /\ TypeOK /\ ci \in DOMAIN specs
    BY <1>1 DEF IInv, TypeOK, InTrial
  <2>2. /\ specs[ci].threads \in Nat /\ specs[ci].threads > 0
        /\ i \in Nat /\ j \in Nat /\ j < specs[ci].threads
        /\ opened[ci] \in Nat /\ opened[ci] > 0
        /\ pos[ci][i] \in Nat /\ pos[ci][j] \in Nat
    BY <1>1, <2>1, InRun
  <2>3. pos[ci][i] < Region(ci, i).len
    <3>1. PoolInv(ci)
      BY <1>1, <2>1 DEF IInv
    <3> QED BY <1>1, <2>2, <3>1 DEF PoolInv
  <2>4. /\ Region(ci, i).off \in Nat /\ Region(ci, i).len \in Nat /\ Region(ci, j).off \in Nat
    BY <2>2, RegionWithin
  <2>5. Region(ci, i).off + Region(ci, i).len <= Region(ci, j).off
    BY <1>1, <2>2, RegionsApart
  <2>6. Region(ci, i).off + pos[ci][i] # Region(ci, j).off + pos[ci][j]
    BY <2>2, <2>3, <2>4, <2>5
  <2> QED BY <1>1, <2>6 DEF NextBlocks
<1>2. IInv => StreamsDisjoint
  <2> SUFFICES ASSUME IInv, InTrial, Sequential(ci), specs[ci].threads <= opened[ci],
                      NEW i \in ThreadsOf(ci), NEW j \in ThreadsOf(ci), i # j
               PROVE  NextBlocks(ci, i) \cap NextBlocks(ci, j) = {}
    BY DEF StreamsDisjoint
  <2>1. i \in Nat /\ j \in Nat
    BY InRun DEF IInv, TypeOK, InTrial
  <2>2. CASE i < j
    BY <1>1, <2>2
  <2>3. CASE j < i
    BY <1>1, <2>3
  <2> QED BY <2>1, <2>2, <2>3
<1> QED BY <1>2, Invariance, PTL

\* A trial meets no hole in what the fill of the file has written, and none at all
\* in a file that was filled to its end (ensure_test_file(), "never sparse");
\* whatever was killed or failed, and also in interleaved runs of several sizes.
THEOREM HolesWereNeverFilled == Spec => []HolesAreUnfilled
<1>1. IInv => HolesAreUnfilled
  BY DEF IInv, TypeOK, FilledInv, HolesAreUnfilled
<1> QED BY <1>1, Invariance, PTL

=============================================================================
