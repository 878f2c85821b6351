--------------------------- MODULE SessionProofs ---------------------------
(***************************************************************************)
(* The worker pool of a configuration, for any number of workers and       *)
(* trials: what main reports is the trial it reports, a stop is seen by    *)
(* all workers or by none, a pool that could not be set up runs nothing,   *)
(* parked workers wait for their turn, and warm-up comes first.            *)
(***************************************************************************)
EXTENDS Session, FiniteSetTheorems, TLAPS

\* What the invariant says about one worker.
WorkerInv(w) == WorkerPhase(w) /\ WorkerData(w) /\ (park => WorkerGate(w))

\* A step that leaves a worker where it is.
Stays(v) ==
    /\ wpc'[v] = wpc[v] /\ ok'[v] = ok[v] /\ gateSeen'[v] = gateSeen[v] /\ lap'[v] = lap[v]
    /\ cur'[v] = cur[v] /\ hist'[v] = hist[v] /\ slot'[v] = slot[v]
    /\ (v \in startIn' <=> v \in startIn) /\ (v \in endIn' <=> v \in endIn)

\* A step that leaves the main thread where it is.
MainStays ==
    /\ UNCHANGED <<park, mpc, warmup, warmups, timed, active, got, results>>
    /\ UNCHANGED <<stopReq, gate, tRelease, tDone>>
    /\ (Main \in startIn' <=> Main \in startIn) /\ (Main \in endIn' <=> Main \in endIn)

\* The values the prover has to know nothing else about.
LEMMA Constants ==
    /\ IsFiniteSet(Workers) /\ Lead \in Workers /\ Main \notin Workers
    /\ WarmupTrials \in Nat /\ WarmupFloor \in Nat /\ Trials \in Nat /\ Trials > 0
    /\ \A d \in Durations : d \in Nat
    /\ Cardinality(Workers) \in Nat
BY ThreadsAssumption, CountsAssumption, FS_CardinalityType

\* The latch is a natural number that is 0 when every worker is ready.
LEMMA UnreadyCount ==
    ASSUME NEW S \in SUBSET Workers
    PROVE  /\ IsFiniteSet(S) /\ Cardinality(S) \in 0..Cardinality(Workers)
           /\ Cardinality(S) = 0 <=> S = {}
<1>1. IsFiniteSet(S) /\ Cardinality(S) <= Cardinality(Workers)
  BY Constants, FS_Subset
<1>2. Cardinality(S) \in Nat /\ (Cardinality(S) = 0 <=> S = {})
  BY <1>1, FS_CardinalityType, FS_EmptySet
<1> QED BY <1>1, <1>2, Constants

\* The other histogram is a histogram.
LEMMA Flips ==
    ASSUME NEW c \in [Workers -> 0..1], NEW w \in Workers
    PROVE  1 - c[w] \in 0..1 /\ [c EXCEPT ![w] = 1 - c[w]] \in [Workers -> 0..1]
<1>1. c[w] \in 0..1
  OBVIOUS
<1>2. 1 - c[w] \in 0..1
  BY <1>1
<1> QED BY <1>2

\* A slot that gets its second half is a slot.
LEMMA Fills ==
    ASSUME NEW s \in [Workers -> Records], NEW w \in Workers, NEW a \in Nat, NEW b \in 0..1
    PROVE  [s EXCEPT ![w].ops = a, ![w].hist = b] \in [Workers -> Records]
<1> DEFINE t == [s EXCEPT ![w].ops = a]
<1>1. t \in [Workers -> Records]
  BY DEF Records
<1>2. [t EXCEPT ![w].hist = b] \in [Workers -> Records]
  <2> HIDE DEF t
  <2> QED BY <1>1 DEF Records
<1>3. [s EXCEPT ![w].ops = a, ![w].hist = b] = [t EXCEPT ![w].hist = b]
  BY Zenon
<1> QED BY <1>2, <1>3

\* A worker nobody touches keeps its invariant.
LEMMA WorkerFrame ==
    ASSUME NEW w \in Workers, Stays(w), WorkerInv(w),
           UNCHANGED <<park, mpc, warmups, timed, tRelease, tDone>>
    PROVE  WorkerInv(w)'
BY DEF Stays, WorkerInv, WorkerPhase, WorkerData, WorkerGate, Unready, Between, Heading,
       Released, Inside, Leaving, Trial

\* When one worker moves, what is left to show is about that worker, the types
\* and what is known of the setup.
LEMMA OneMoves ==
    ASSUME IInv, mpc # "terminated", NEW w \in Workers, MainStays,
           \A v \in Workers \ {w} : Stays(v),
           wpc[w] # "unborn", wpc'[w] # "unborn",
           TypeOK', SetupKnown', WorkerInv(w)'
    PROVE  IInv'
<1>1. TrialKinds'
  BY DEF IInv, TrialKinds, MainStays, InWarmup, Trial
<1>2. MainPhase' /\ ReadSoFar' /\ (park => MainGate)'
  BY DEF IInv, Alive, MainPhase, MainBefore, MainInside, MainBehind, MainLeaving, ReadSoFar,
         MainGate, MainStays, Trial
<1>3. StopAsked'
  <2>1. Spawned' = Spawned
    BY DEF Spawned, Stays
  <2> QED BY <2>1 DEF IInv, Alive, StopAsked, MainStays
<1>4. \A v \in Workers : WorkerInv(v)'
  <2> SUFFICES ASSUME NEW v \in Workers, v # w PROVE WorkerInv(v)'
    OBVIOUS
  <2> QED BY WorkerFrame DEF IInv, Alive, WorkerInv, MainStays
<1>5. mpc' # "terminated"
  BY DEF MainStays
<1> QED BY <1>1, <1>2, <1>3, <1>4, <1>5 DEF IInv, Alive, WorkerInv

\* A worker that has been set up or past it changes nothing about the setup.
LEMMA SetupFrame ==
    ASSUME IInv, mpc # "terminated", NEW w \in Workers, MainStays,
           \A v \in Workers \ {w} : Stays(v),
           UNCHANGED <<ready, failed, reported, ok>>,
           Unready(w)' <=> Unready(w),
           wpc[w] \notin {"unborn", "setup"}
    PROVE  SetupKnown'
<1>1. {v \in Workers : Unready(v)}' = {v \in Workers : Unready(v)}
  BY DEF Unready, Stays
<1>2. wpc'[Lead] \notin {"unborn", "setup"} => wpc[Lead] \notin {"unborn", "setup"}
  BY Constants DEF Stays
<1> QED BY <1>1, <1>2 DEF IInv, Alive, SetupKnown, MainStays, Trial

\* Setting up: a worker that fails says so before it goes on.
LEMMA SetupSteps ==
    ASSUME IInv, mpc # "terminated", NEW w \in Workers, Setup(w) \/ SetupFails(w)
    PROVE  IInv'
<1> USE DEF Setup, SetupFails, WorkerTo, main, trials, sync
<1>1. wpc[w] = "setup" /\ wpc'[w] = "countdown" /\ MainStays
  BY DEF IInv, TypeOK, MainStays
<1>2. \A v \in Workers \ {w} : Stays(v)
  BY DEF IInv, TypeOK, Stays
<1>3. TypeOK'
  BY DEF IInv, TypeOK, WorkerPCs
<1>4. WorkerInv(w)
  BY DEF IInv, Alive, WorkerInv
<1>5. WorkerInv(w)'
  BY <1>1, <1>4 DEF IInv, TypeOK, WorkerInv, WorkerPhase, WorkerData, WorkerGate, Unready,
                    Between, Heading, Released, Inside, Leaving, Trial
<1>6. SetupKnown'
  <2>1. {v \in Workers : Unready(v)}' = {v \in Workers : Unready(v)}
    BY <1>1, <1>2 DEF Unready, Stays
  <2>2. Trial' = 0 /\ mpc' \in {"spawn", "request", "openGate", "arriveStop", "waitStop"}
    BY <1>1, <1>4 DEF WorkerInv, WorkerPhase, Unready, Trial
  <2>3. \A v \in Workers : ~ok'[v] => failed'
    BY DEF IInv, Alive, SetupKnown, TypeOK
  <2>4. wpc'[Lead] \notin {"unborn", "setup"} => reported' \/ failed'
    <3>1. CASE w = Lead
      BY <3>1
    <3>2. CASE w # Lead
      <4>1. wpc'[Lead] = wpc[Lead]
        BY <3>2, <1>2, Constants DEF Stays
      <4>2. (reported => reported') /\ (failed => failed')
        BY DEF IInv, TypeOK
      <4>3. wpc[Lead] \notin {"unborn", "setup"} => reported \/ failed
        BY DEF IInv, Alive, SetupKnown
      <4> QED BY <4>1, <4>2, <4>3
    <3> QED BY <3>1, <3>2
  <2> QED BY <2>1, <2>2, <2>3, <2>4 DEF IInv, Alive, SetupKnown
<1> QED BY <1>1, <1>2, <1>3, <1>5, <1>6, OneMoves

\* The latch counts this worker down and goes on counting the others.
LEMMA CountDownStep ==
    ASSUME IInv, mpc # "terminated", NEW w \in Workers, CountDown(w)
    PROVE  IInv'
<1> USE DEF CountDown, WorkerTo, main, trials, sync
<1>1. wpc[w] = "countdown" /\ wpc'[w] = "gate" /\ MainStays
  BY DEF IInv, TypeOK, MainStays
<1>2. \A v \in Workers \ {w} : Stays(v)
  BY DEF IInv, TypeOK, Stays
<1> DEFINE U == {v \in Workers : Unready(v)}
<1>3. U' = U \ {w} /\ w \in U
  BY <1>1, <1>2 DEF Unready, Stays
<1>4. ready' = Cardinality(U') /\ ready' \in 0..Cardinality(Workers)
  <2>1. ready = Cardinality(U)
    BY DEF IInv, Alive, SetupKnown
  <2>2. IsFiniteSet(U)
    BY UnreadyCount
  <2>3. Cardinality(U \ {w}) = Cardinality(U) - 1
    BY <2>2, <1>3, FS_RemoveElement
  <2>4. Cardinality(U \ {w}) \in 0..Cardinality(Workers)
    BY UnreadyCount
  <2> QED BY <2>1, <2>3, <2>4, <1>3
<1>5. TypeOK'
  BY <1>4 DEF IInv, TypeOK, WorkerPCs
<1>6. WorkerInv(w)'
  <2>1. WorkerInv(w)
    BY DEF IInv, Alive, WorkerInv
  <2> QED BY <1>1, <2>1 DEF IInv, TypeOK, WorkerInv, WorkerPhase, WorkerData, WorkerGate, Unready,
                    Between, Heading, Released, Inside, Leaving, Trial
<1>7. SetupKnown'
  <2>1. wpc'[Lead] \notin {"unborn", "setup"} => wpc[Lead] \notin {"unborn", "setup"}
    BY <1>1, <1>2, Constants DEF Stays
  <2> QED BY <2>1, <1>1, <1>4 DEF IInv, Alive, SetupKnown, MainStays, Trial
<1> QED BY <1>1, <1>2, <1>5, <1>6, <1>7, OneMoves

\* Passing the gate: when workers are parked, only because it has been opened for
\* this lap.
LEMMA PassGateStep ==
    ASSUME IInv, mpc # "terminated", NEW w \in Workers, PassGate(w)
    PROVE  IInv'
<1> USE DEF PassGate, WorkerTo, main, trials, sync, shared
<1>1. wpc[w] = "gate" /\ wpc'[w] = "prep" /\ MainStays
  BY DEF IInv, TypeOK, MainStays
<1>2. \A v \in Workers \ {w} : Stays(v)
  BY DEF IInv, TypeOK, Stays
<1>3. TypeOK'
  <2>1. gateSeen \in [Workers -> Nat]
    BY DEF IInv, TypeOK
  <2>2. gateSeen' \in [Workers -> Nat]
    BY <2>1
  <2> QED BY <2>2 DEF IInv, TypeOK, WorkerPCs
<1>4. WorkerInv(w)
  BY DEF IInv, Alive, WorkerInv
<1>5. WorkerPhase(w)' /\ WorkerData(w)'
  BY <1>1, <1>4 DEF IInv, TypeOK, WorkerInv, WorkerPhase, WorkerData, Unready,
                    Between, Heading, Released, Inside, Leaving, Trial
<1>6. (park => WorkerGate(w))'
  <2> SUFFICES ASSUME park PROVE WorkerGate(w)'
    BY <1>1 DEF MainStays
  <2>1. gateSeen[w] = lap[w] /\ lap[w] = tRelease /\ tRelease = tDone /\ gate # gateSeen[w]
    BY <1>1, <1>4 DEF WorkerInv, WorkerPhase, WorkerGate, Between
  <2>2. gateSeen'[w] = lap'[w] + 1
    BY <2>1 DEF IInv, TypeOK
  <2>3. mpc \in {"arriveStart", "waitStart", "arriveStop", "waitStop"}
    <3>1. MainPhase /\ MainGate
      BY DEF IInv, Alive
    <3>2. mpc # "thrown"
      BY <1>1, <1>4 DEF WorkerInv, WorkerPhase
    <3> QED BY <2>1, <3>1, <3>2 DEF MainPhase, MainGate, MainBefore, MainInside, MainBehind,
              MainLeaving, IInv, TypeOK, MainPCs
  <2> QED BY <2>2, <2>3, <1>1 DEF WorkerGate, MainStays
<1>7. SetupKnown'
  BY <1>1, <1>2, SetupFrame DEF Unready
<1> QED BY <1>1, <1>2, <1>3, <1>5, <1>6, <1>7, OneMoves DEF WorkerInv

\* The histogram that is cleared is not the one the slot shows.
LEMMA PrepareStep ==
    ASSUME IInv, mpc # "terminated", NEW w \in Workers, Prepare(w)
    PROVE  IInv'
<1> USE DEF Prepare, WorkerTo, main, trials, shared, sync, BeforeTrial
<1>1. wpc[w] = "prep" /\ wpc'[w] = "arriveStart" /\ MainStays
  BY Constants DEF IInv, TypeOK, MainStays
<1>2. \A v \in Workers \ {w} : Stays(v)
  BY DEF IInv, TypeOK, Stays
<1>3. TypeOK'
  <2>1. cur \in [Workers -> 0..1] /\ hist \in [Workers -> [0..1 -> Nat]]
    BY DEF IInv, TypeOK
  <2>2. cur' \in [Workers -> 0..1] /\ hist' \in [Workers -> [0..1 -> Nat]]
    <3>1. CASE ok[w]
      <4>1. 1 - cur[w] \in 0..1 /\ [cur EXCEPT ![w] = 1 - cur[w]] \in [Workers -> 0..1]
        BY <2>1, Flips
      <4>2. cur' = [cur EXCEPT ![w] = 1 - cur[w]] /\ hist' = [hist EXCEPT ![w][1 - cur[w]] = 0]
        BY <3>1
      <4> QED BY <4>1, <4>2, <2>1
    <3>2. CASE ~ok[w]
      BY <3>2, <2>1
    <3> QED BY <3>1, <3>2
  <2>3. lap' \in [Workers -> Nat]
    BY DEF IInv, TypeOK
  <2> QED BY <2>2, <2>3 DEF IInv, TypeOK, WorkerPCs
<1>4. WorkerInv(w)
  BY DEF IInv, Alive, WorkerInv
<1>5. WorkerInv(w)'
  BY <1>1, <1>4 DEF IInv, TypeOK, WorkerInv, WorkerPhase, WorkerData, WorkerGate, Unready,
                    Between, Heading, Released, Inside, Leaving, Trial
<1>6. SetupKnown'
  BY <1>1, <1>2, SetupFrame DEF Unready
<1> QED BY <1>1, <1>2, <1>3, <1>5, <1>6, OneMoves

\* Arriving at the start barrier.
LEMMA ArriveStartStep ==
    ASSUME IInv, mpc # "terminated", NEW w \in Workers, ArriveStart(w)
    PROVE  IInv'
<1> USE DEF ArriveStart, WorkerTo, main, trials, shared, StartB!Arrive
<1>1. wpc[w] = "arriveStart" /\ wpc'[w] = "waitStart" /\ MainStays
  BY Constants DEF IInv, TypeOK, MainStays
<1>2. \A v \in Workers \ {w} : Stays(v)
  BY DEF IInv, TypeOK, Stays
<1>3. TypeOK'
  BY DEF IInv, TypeOK, WorkerPCs, Threads
<1>4. WorkerInv(w)
  BY DEF IInv, Alive, WorkerInv
<1>5. WorkerInv(w)'
  BY <1>1, <1>4 DEF IInv, TypeOK, WorkerInv, WorkerPhase, WorkerData, WorkerGate, Unready,
                    Between, Heading, Released, Inside, Leaving, Trial
<1>6. SetupKnown'
  BY <1>1, <1>2, SetupFrame DEF Unready
<1> QED BY <1>1, <1>2, <1>3, <1>5, <1>6, OneMoves

\* Behind the start barrier: a stop has been asked of this worker exactly if main
\* is behind the start barrier of stop().
LEMMA LeaveStartStep ==
    ASSUME IInv, mpc # "terminated", NEW w \in Workers, LeaveStart(w)
    PROVE  IInv'
<1> USE DEF LeaveStart, WorkerTo, main, trials, shared, sync
<1>1. wpc[w] = "waitStart" /\ wpc'[w] \in {"teardown", "timed"} /\ MainStays
  BY Constants DEF IInv, TypeOK, MainStays
<1>2. \A v \in Workers \ {w} : Stays(v)
  BY DEF IInv, TypeOK, Stays
<1>3. TypeOK'
  BY DEF IInv, TypeOK, WorkerPCs
<1>4. WorkerInv(w)
  BY DEF IInv, Alive, WorkerInv
<1>5. WorkerInv(w)'
  <2>1. wpc'[w] = IF mpc = "waitStop" THEN "teardown" ELSE "timed"
    <3>1. mpc \in {"waitStart", "waitEnd", "waitStop"}
      BY <1>1, <1>4 DEF WorkerInv, WorkerPhase, Released
    <3>2. w \in stopReq <=> mpc = "waitStop"
      BY <1>1, <3>1 DEF IInv, Alive, StopAsked, Spawned
    <3> QED BY <3>2 DEF IInv, TypeOK
  <2> QED BY <1>1, <1>4, <2>1 DEF IInv, TypeOK, WorkerInv, WorkerPhase, WorkerData, WorkerGate,
                    Unready, Between, Heading, Released, Inside, Leaving, Trial
<1>6. SetupKnown'
  BY <1>1, <1>2, SetupFrame DEF Unready
<1> QED BY <1>1, <1>2, <1>3, <1>5, <1>6, OneMoves

\* The timed region.
LEMMA RunBatchesStep ==
    ASSUME IInv, mpc # "terminated", NEW w \in Workers, RunBatches(w)
    PROVE  IInv'
<1> USE DEF RunBatches, WorkerTo, main, trials, shared, sync, Recorded
<1>1. wpc[w] = "timed" /\ wpc'[w] = "publish" /\ MainStays
  BY Constants DEF IInv, TypeOK, MainStays
<1>2. \A v \in Workers \ {w} : Stays(v)
  BY DEF IInv, TypeOK, Stays
<1>3. TypeOK'
  BY DEF IInv, TypeOK, WorkerPCs, Records
<1>4. WorkerInv(w)
  BY DEF IInv, Alive, WorkerInv
<1>5. WorkerInv(w)'
  BY <1>1, <1>4 DEF IInv, TypeOK, WorkerInv, WorkerPhase, WorkerData, WorkerGate, Unready,
                    Between, Heading, Released, Inside, Leaving, Trial
<1>6. SetupKnown'
  BY <1>1, <1>2, SetupFrame DEF Unready
<1> QED BY <1>1, <1>2, <1>3, <1>5, <1>6, OneMoves

\* The slot gets its second half.
LEMMA PublishSlotStep ==
    ASSUME IInv, mpc # "terminated", NEW w \in Workers, PublishSlot(w)
    PROVE  IInv'
<1> USE DEF PublishSlot, WorkerTo, main, trials, shared, sync
<1>1. wpc[w] = "publish" /\ wpc'[w] = "arriveEnd" /\ MainStays
  BY Constants DEF IInv, TypeOK, MainStays
<1>2. \A v \in Workers \ {w} : Stays(v)
  BY DEF IInv, TypeOK, Stays
<1>3. TypeOK'
  <2>1. lap[w] \in Nat /\ cur[w] \in 0..1
    BY DEF IInv, TypeOK
  <2>2. slot \in [Workers -> Records]
    BY DEF IInv, TypeOK
  <2>3. slot' \in [Workers -> Records]
    BY <2>1, <2>2, Fills
  <2> QED BY <2>3 DEF IInv, TypeOK, WorkerPCs
<1>4. WorkerInv(w)
  BY DEF IInv, Alive, WorkerInv
<1>5. WorkerInv(w)'
  BY <1>1, <1>4 DEF IInv, TypeOK, WorkerInv, WorkerPhase, WorkerData, WorkerGate, Unready,
                    Between, Heading, Released, Inside, Leaving, Trial
<1>6. SetupKnown'
  BY <1>1, <1>2, SetupFrame DEF Unready
<1> QED BY <1>1, <1>2, <1>3, <1>5, <1>6, OneMoves

\* Arriving at the end barrier.
LEMMA ArriveEndStep ==
    ASSUME IInv, mpc # "terminated", NEW w \in Workers, ArriveEnd(w)
    PROVE  IInv'
<1> USE DEF ArriveEnd, WorkerTo, main, trials, shared, EndB!Arrive
<1>1. wpc[w] = "arriveEnd" /\ wpc'[w] = "waitEnd" /\ MainStays
  BY Constants DEF IInv, TypeOK, MainStays
<1>2. \A v \in Workers \ {w} : Stays(v)
  BY DEF IInv, TypeOK, Stays
<1>3. TypeOK'
  BY DEF IInv, TypeOK, WorkerPCs, Threads
<1>4. WorkerInv(w)
  BY DEF IInv, Alive, WorkerInv
<1>5. WorkerInv(w)'
  BY <1>1, <1>4 DEF IInv, TypeOK, WorkerInv, WorkerPhase, WorkerData, WorkerGate, Unready,
                    Between, Heading, Released, Inside, Leaving, Trial
<1>6. SetupKnown'
  BY <1>1, <1>2, SetupFrame DEF Unready
<1> QED BY <1>1, <1>2, <1>3, <1>5, <1>6, OneMoves

\* Behind the end barrier.
LEMMA LeaveEndStep ==
    ASSUME IInv, mpc # "terminated", NEW w \in Workers, LeaveEnd(w)
    PROVE  IInv'
<1> USE DEF LeaveEnd, WorkerTo, main, trials, shared, sync
<1>1. wpc[w] = "waitEnd" /\ wpc'[w] = "gate" /\ MainStays
  BY Constants DEF IInv, TypeOK, MainStays
<1>2. \A v \in Workers \ {w} : Stays(v)
  BY DEF IInv, TypeOK, Stays
<1>3. TypeOK'
  BY DEF IInv, TypeOK, WorkerPCs
<1>4. WorkerInv(w)
  BY DEF IInv, Alive, WorkerInv
<1>5. WorkerInv(w)'
  BY <1>1, <1>4 DEF IInv, TypeOK, WorkerInv, WorkerPhase, WorkerData, WorkerGate, Unready,
                    Between, Heading, Released, Inside, Leaving, Trial
<1>6. SetupKnown'
  BY <1>1, <1>2, SetupFrame DEF Unready
<1> QED BY <1>1, <1>2, <1>3, <1>5, <1>6, OneMoves

\* The histograms go away when nobody will read them any more.
LEMMA ExitStep ==
    ASSUME IInv, mpc # "terminated", NEW w \in Workers, Exit(w)
    PROVE  IInv'
<1> USE DEF Exit, WorkerTo, main, trials, shared, sync
<1>1. wpc[w] = "teardown" /\ wpc'[w] = "exited" /\ MainStays
  BY Constants DEF IInv, TypeOK, MainStays
<1>2. \A v \in Workers \ {w} : Stays(v)
  BY DEF IInv, TypeOK, Stays
<1>3. TypeOK'
  BY DEF IInv, TypeOK, WorkerPCs
<1>4. WorkerInv(w)
  BY DEF IInv, Alive, WorkerInv
<1>5. WorkerInv(w)'
  BY <1>1, <1>4 DEF IInv, TypeOK, WorkerInv, WorkerPhase, WorkerData, WorkerGate, Unready,
                    Between, Heading, Released, Inside, Leaving, Trial
<1>6. SetupKnown'
  BY <1>1, <1>2, SetupFrame DEF Unready
<1> QED BY <1>1, <1>2, <1>3, <1>5, <1>6, OneMoves

\* std::terminate: a pool in which a batch runs has not failed before.
LEMMA BatchThrowsStep ==
    ASSUME IInv, mpc # "terminated", NEW w \in Workers, BatchThrows(w)
    PROVE  IInv'
<1> USE DEF BatchThrows, MainTo, trials, shared, sync
<1>1. TypeOK'
  BY DEF IInv, TypeOK, WorkerPCs, MainPCs
<1>2. mpc \in {"waitStart", "waitEnd"}
  BY DEF IInv, Alive, WorkerPhase, Inside
<1>3. ~failed'
  BY <1>2 DEF IInv, Alive, SetupKnown
<1>4. TrialKinds'
  BY <1>2 DEF IInv, TrialKinds
<1>5. \A v \in Workers : wpc'[v] = "exited"
  OBVIOUS
<1> QED BY <1>1, <1>3, <1>4, <1>5 DEF IInv

-----------------------------------------------------------------------------
(* The barriers let everybody go at once. *)

\* The start barrier: everyone is heading for the same lap, so everyone is in it.
LEMMA ReleaseStartStep ==
    ASSUME IInv, mpc # "terminated", ReleaseStart
    PROVE  IInv'
<1> USE DEF ReleaseStart, StartB!Release, Threads, main, trials, pool, shared
<1>1. mpc \in {"waitStart", "waitStop"} /\ \A w \in Workers : wpc[w] = "waitStart" /\ w \in startIn
  BY DEF IInv, Alive, MainPhase, WorkerPhase
<1>2. TypeOK'
  BY DEF IInv, TypeOK
<1>3. TrialKinds'
  BY DEF IInv, TrialKinds, InWarmup, Trial
<1>4. MainPhase' /\ ReadSoFar' /\ StopAsked' /\ (park => MainGate)'
  BY <1>1 DEF IInv, TypeOK, Alive, MainPhase, MainBefore, MainInside, MainBehind, MainLeaving,
              ReadSoFar, StopAsked, Spawned, MainGate, Trial
<1>5. SetupKnown'
  BY DEF IInv, Alive, SetupKnown, Unready, Trial
<1>6. ASSUME NEW w \in Workers PROVE WorkerInv(w)'
  <2>1. WorkerInv(w)
    BY DEF IInv, Alive, WorkerInv
  <2> QED BY <1>1, <2>1 DEF IInv, TypeOK, WorkerInv, WorkerPhase, WorkerData, WorkerGate, Unready,
                    Between, Heading, Released, Inside, Leaving, Trial
<1> QED BY <1>2, <1>3, <1>4, <1>5, <1>6 DEF IInv, Alive, WorkerInv

\* The end barrier: everyone has run the same trial.
LEMMA ReleaseEndStep ==
    ASSUME IInv, mpc # "terminated", ReleaseEnd
    PROVE  IInv'
<1> USE DEF ReleaseEnd, EndB!Release, Threads, main, trials, pool, shared
<1>1. mpc = "waitEnd" /\ Main \in endIn /\ \A w \in Workers : wpc[w] = "waitEnd" /\ w \in endIn
  BY DEF IInv, Alive, MainPhase, WorkerPhase
<1>2. TypeOK'
  BY DEF IInv, TypeOK
<1>3. TrialKinds'
  BY DEF IInv, TrialKinds, InWarmup, Trial
<1>4. MainPhase' /\ ReadSoFar' /\ StopAsked' /\ (park => MainGate)'
  BY <1>1 DEF IInv, TypeOK, Alive, MainPhase, MainBefore, MainInside, MainBehind, MainLeaving,
              ReadSoFar, StopAsked, Spawned, MainGate, Trial
<1>5. SetupKnown'
  BY DEF IInv, Alive, SetupKnown, Unready, Trial
<1>6. ASSUME NEW w \in Workers PROVE WorkerInv(w)'
  <2>1. WorkerInv(w)
    BY DEF IInv, Alive, WorkerInv
  <2> QED BY <1>1, <2>1 DEF IInv, TypeOK, WorkerInv, WorkerPhase, WorkerData, WorkerGate, Unready,
                    Between, Heading, Released, Inside, Leaving, Trial
<1> QED BY <1>2, <1>3, <1>4, <1>5, <1>6 DEF IInv, Alive, WorkerInv

-----------------------------------------------------------------------------
(* The main thread. *)

\* A trial begins: its kind is decided, and the gate opened for it.
LEMMA BeginTrialStep ==
    ASSUME IInv, mpc # "terminated", BeginTrial
    PROVE  IInv'
<1> USE DEF BeginTrial, MainTo, main, trials, pool, shared, sync
<1>1. TypeOK'
  <2>1. warmup' \in BOOLEAN
    BY DEF InWarmup
  <2> QED BY <2>1 DEF IInv, TypeOK, MainPCs
<1>2. TrialKinds'
  <2>1. TrialKinds /\ timed \in Nat /\ warmups \in Nat /\ active \in Nat
    BY DEF IInv, TypeOK
  <2>2. IF warmup' THEN timed' = 0 ELSE ~InWarmup' /\ timed' < Trials
    <3>1. CASE InWarmup
      <4>1. warmup' /\ timed' = timed
        BY <3>1
      <4> QED BY <3>1, <4>1, <2>1, Constants DEF TrialKinds, InWarmup
    <3>2. CASE ~InWarmup
      <4>1. ~warmup' /\ timed < Trials
        BY <3>2 DEF WantsMoreTrials
      <4> QED BY <3>2, <4>1 DEF InWarmup
    <3> QED BY <3>1, <3>2
  <2> QED BY <2>1, <2>2 DEF TrialKinds
<1>3. MainPhase' /\ ReadSoFar' /\ (park => MainGate)'
  BY Constants DEF IInv, TypeOK, Alive, MainPhase, MainBefore, MainInside, MainBehind, MainLeaving,
         ReadSoFar, MainGate, Trial, NoTrial
<1>4. StopAsked'
  BY DEF IInv, Alive, StopAsked, Spawned
<1>5. SetupKnown'
  BY Constants DEF IInv, TypeOK, Alive, SetupKnown, Unready, Trial
<1>6. ASSUME NEW v \in Workers PROVE WorkerInv(v)'
  <2>1. WorkerInv(v)
    BY DEF IInv, Alive, WorkerInv
  <2>2. MainPhase /\ MainPhase'
    BY <1>3 DEF IInv, Alive
  <2> QED BY <2>1, <2>2, Constants DEF IInv, TypeOK, WorkerInv, WorkerPhase, WorkerData, WorkerGate,
              Unready, Between, Heading, Released, Inside, Leaving, Trial, MainPhase, MainBefore,
              MainInside, MainBehind, MainLeaving, WorkerPCs
<1>7. mpc' # "terminated"
  OBVIOUS
<1> QED BY <1>1, <1>2, <1>3, <1>4, <1>5, <1>6, <1>7 DEF IInv, Alive, WorkerInv

\* Main arrives at the start barrier, for a trial or to stop.
LEMMA MainArriveStartStep ==
    ASSUME IInv, mpc # "terminated", NEW from, NEW to,
           \/ from = "arriveStart" /\ to = "waitStart"
           \/ from = "arriveStop" /\ to = "waitStop",
           MainArriveStart(from, to)
    PROVE  IInv'
<1> USE DEF MainArriveStart, StartB!Arrive, MainTo, main, trials, pool, shared, sync
<1>1. TypeOK'
  BY DEF IInv, TypeOK, MainPCs, Threads
<1>2. TrialKinds'
  BY Constants DEF IInv, TypeOK, TrialKinds, InWarmup, WantsMoreTrials, Trial
<1>3. MainPhase' /\ ReadSoFar' /\ (park => MainGate)'
  BY Constants DEF IInv, TypeOK, Alive, MainPhase, MainBefore, MainInside, MainBehind, MainLeaving,
         ReadSoFar, MainGate, Trial, NoTrial
<1>4. StopAsked'
  BY DEF IInv, Alive, StopAsked, Spawned
<1>5. SetupKnown'
  BY Constants DEF IInv, TypeOK, Alive, SetupKnown, Unready, Trial
<1>6. ASSUME NEW v \in Workers PROVE WorkerInv(v)'
  <2>1. WorkerInv(v)
    BY DEF IInv, Alive, WorkerInv
  <2>2. MainPhase /\ MainPhase'
    BY <1>3 DEF IInv, Alive
  <2> QED BY <2>1, <2>2, Constants DEF IInv, TypeOK, WorkerInv, WorkerPhase, WorkerData, WorkerGate,
              Unready, Between, Heading, Released, Inside, Leaving, Trial, MainPhase, MainBefore,
              MainInside, MainBehind, MainLeaving, WorkerPCs
<1>7. mpc' # "terminated"
  OBVIOUS
<1> QED BY <1>1, <1>2, <1>3, <1>4, <1>5, <1>6, <1>7 DEF IInv, Alive, WorkerInv

\* Main goes on to the end barrier.
LEMMA MainArriveEndStep ==
    ASSUME IInv, mpc # "terminated", MainArriveEnd
    PROVE  IInv'
<1> USE DEF MainArriveEnd, EndB!Arrive, MainTo, main, trials, pool, shared, sync
<1>1. TypeOK'
  BY DEF IInv, TypeOK, MainPCs, Threads
<1>2. TrialKinds'
  BY Constants DEF IInv, TypeOK, TrialKinds, InWarmup, WantsMoreTrials, Trial
<1>3. MainPhase' /\ ReadSoFar' /\ (park => MainGate)'
  BY Constants DEF IInv, TypeOK, Alive, MainPhase, MainBefore, MainInside, MainBehind, MainLeaving,
         ReadSoFar, MainGate, Trial, NoTrial
<1>4. StopAsked'
  BY DEF IInv, Alive, StopAsked, Spawned
<1>5. SetupKnown'
  BY Constants DEF IInv, TypeOK, Alive, SetupKnown, Unready, Trial
<1>6. ASSUME NEW v \in Workers PROVE WorkerInv(v)'
  <2>1. WorkerInv(v)
    BY DEF IInv, Alive, WorkerInv
  <2>2. MainPhase /\ MainPhase'
    BY <1>3 DEF IInv, Alive
  <2> QED BY <2>1, <2>2, Constants DEF IInv, TypeOK, WorkerInv, WorkerPhase, WorkerData, WorkerGate,
              Unready, Between, Heading, Released, Inside, Leaving, Trial, MainPhase, MainBefore,
              MainInside, MainBehind, MainLeaving, WorkerPCs
<1>7. mpc' # "terminated"
  OBVIOUS
<1> QED BY <1>1, <1>2, <1>3, <1>4, <1>5, <1>6, <1>7 DEF IInv, Alive, WorkerInv

\* The trial is counted; its kind is still the one it began with.
LEMMA CountTrialStep ==
    ASSUME IInv, mpc # "terminated", CountTrial
    PROVE  IInv'
<1> USE DEF CountTrial, MainTo, main, trials, pool, shared, sync
<1>1. TypeOK'
  <2>1. NoTrial \in Records
    BY DEF NoTrial, Records
  <2>2. warmups' \in Nat /\ timed' \in 0..Trials
    BY Constants DEF IInv, TypeOK, TrialKinds
  <2> QED BY <2>1, <2>2 DEF IInv, TypeOK, MainPCs
<1>2. TrialKinds'
  BY Constants DEF IInv, TypeOK, TrialKinds, InWarmup, WantsMoreTrials, Trial
<1>3. ReadSoFar'
  BY DEF ReadSoFar
<1>4. MainPhase' /\ (park => MainGate)'
  <2>1. Trial' = Trial + 1 /\ Trial \in Nat
    BY DEF IInv, TypeOK, Trial
  <2>2. MainPhase /\ (park => MainGate)
    BY DEF IInv, Alive
  <2> QED BY <2>1, <2>2 DEF MainPhase, MainBefore, MainInside, MainBehind, MainLeaving, MainGate
<1>5. StopAsked'
  BY DEF IInv, Alive, StopAsked, Spawned
<1>6. SetupKnown'
  BY Constants DEF IInv, TypeOK, Alive, SetupKnown, Unready, Trial
<1>7. ASSUME NEW v \in Workers PROVE WorkerInv(v)'
  <2>1. WorkerInv(v)
    BY DEF IInv, Alive, WorkerInv
  <2>2. MainPhase /\ MainPhase'
    BY <1>4 DEF IInv, Alive
  <2> QED BY <2>1, <2>2, Constants DEF IInv, TypeOK, WorkerInv, WorkerPhase, WorkerData, WorkerGate,
              Unready, Between, Heading, Released, Inside, Leaving, Trial, MainPhase, MainBefore,
              MainInside, MainBehind, MainLeaving, WorkerPCs
<1>8. mpc' # "terminated"
  OBVIOUS
<1> QED BY <1>1, <1>2, <1>3, <1>4, <1>5, <1>6, <1>7, <1>8 DEF IInv, Alive, WorkerInv

\* stop() is called between two trials.
LEMMA StopSessionStep ==
    ASSUME IInv, mpc # "terminated", StopSession
    PROVE  IInv'
<1> USE DEF StopSession, MainTo, main, trials, pool, shared, sync
<1>1. TypeOK'
  BY DEF IInv, TypeOK, MainPCs
<1>2. TrialKinds'
  BY Constants DEF IInv, TypeOK, TrialKinds, InWarmup, WantsMoreTrials, Trial
<1>3. MainPhase' /\ ReadSoFar' /\ (park => MainGate)'
  BY Constants DEF IInv, TypeOK, Alive, MainPhase, MainBefore, MainInside, MainBehind, MainLeaving,
         ReadSoFar, MainGate, Trial, NoTrial
<1>4. StopAsked'
  BY DEF IInv, Alive, StopAsked, Spawned
<1>5. SetupKnown'
  BY Constants DEF IInv, TypeOK, Alive, SetupKnown, Unready, Trial
<1>6. ASSUME NEW v \in Workers PROVE WorkerInv(v)'
  <2>1. WorkerInv(v)
    BY DEF IInv, Alive, WorkerInv
  <2>2. MainPhase /\ MainPhase'
    BY <1>3 DEF IInv, Alive
  <2> QED BY <2>1, <2>2, Constants DEF IInv, TypeOK, WorkerInv, WorkerPhase, WorkerData, WorkerGate,
              Unready, Between, Heading, Released, Inside, Leaving, Trial, MainPhase, MainBefore,
              MainInside, MainBehind, MainLeaving, WorkerPCs
<1>7. mpc' # "terminated"
  OBVIOUS
<1> QED BY <1>1, <1>2, <1>3, <1>4, <1>5, <1>6, <1>7 DEF IInv, Alive, WorkerInv

\* The gate is opened a last time.
LEMMA OpenGateToStopStep ==
    ASSUME IInv, mpc # "terminated", OpenGateToStop
    PROVE  IInv'
<1> USE DEF OpenGateToStop, MainTo, main, trials, pool, shared, sync
<1>1. TypeOK'
  BY DEF IInv, TypeOK, MainPCs
<1>2. TrialKinds'
  BY Constants DEF IInv, TypeOK, TrialKinds, InWarmup, WantsMoreTrials, Trial
<1>3. MainPhase' /\ ReadSoFar' /\ (park => MainGate)'
  BY Constants DEF IInv, TypeOK, Alive, MainPhase, MainBefore, MainInside, MainBehind, MainLeaving,
         ReadSoFar, MainGate, Trial, NoTrial
<1>4. StopAsked'
  BY DEF IInv, Alive, StopAsked, Spawned
<1>5. SetupKnown'
  BY Constants DEF IInv, TypeOK, Alive, SetupKnown, Unready, Trial
<1>6. ASSUME NEW v \in Workers PROVE WorkerInv(v)'
  <2>1. WorkerInv(v)
    BY DEF IInv, Alive, WorkerInv
  <2>2. MainPhase /\ MainPhase'
    BY <1>3 DEF IInv, Alive
  <2> QED BY <2>1, <2>2, Constants DEF IInv, TypeOK, WorkerInv, WorkerPhase, WorkerData, WorkerGate,
              Unready, Between, Heading, Released, Inside, Leaving, Trial, MainPhase, MainBefore,
              MainInside, MainBehind, MainLeaving, WorkerPCs
<1>7. mpc' # "terminated"
  OBVIOUS
<1> QED BY <1>1, <1>2, <1>3, <1>4, <1>5, <1>6, <1>7 DEF IInv, Alive, WorkerInv

\* The threads are joined.
LEMMA JoinStep ==
    ASSUME IInv, mpc # "terminated", Join
    PROVE  IInv'
<1> USE DEF Join, Spawned, MainTo, main, trials, pool, shared, sync
<1>1. TypeOK'
  BY DEF IInv, TypeOK, MainPCs
<1>2. TrialKinds'
  BY Constants DEF IInv, TypeOK, TrialKinds, InWarmup, WantsMoreTrials, Trial
<1>3. MainPhase' /\ ReadSoFar' /\ (park => MainGate)'
  BY Constants DEF IInv, TypeOK, Alive, MainPhase, MainBefore, MainInside, MainBehind, MainLeaving,
         ReadSoFar, MainGate, Trial, NoTrial
<1>4. StopAsked'
  BY DEF IInv, Alive, StopAsked, Spawned
<1>5. SetupKnown'
  BY Constants DEF IInv, TypeOK, Alive, SetupKnown, Unready, Trial
<1>6. ASSUME NEW v \in Workers PROVE WorkerInv(v)'
  <2>1. WorkerInv(v)
    BY DEF IInv, Alive, WorkerInv
  <2>2. MainPhase /\ MainPhase'
    BY <1>3 DEF IInv, Alive
  <2> QED BY <2>1, <2>2, Constants DEF IInv, TypeOK, WorkerInv, WorkerPhase, WorkerData, WorkerGate,
              Unready, Between, Heading, Released, Inside, Leaving, Trial, MainPhase, MainBefore,
              MainInside, MainBehind, MainLeaving, WorkerPCs
<1>7. mpc' # "terminated"
  OBVIOUS
<1> QED BY <1>1, <1>2, <1>3, <1>4, <1>5, <1>6, <1>7 DEF IInv, Alive, WorkerInv

\* Threads are created one after the other; until all are, no trial has begun.
LEMMA SpawnStep ==
    ASSUME IInv, mpc # "terminated", NEW w \in Workers, Spawn(w)
    PROVE  IInv'
<1> USE DEF Spawn, WorkerTo, main, trials, shared, sync
<1>1. TypeOK'
  BY DEF IInv, TypeOK, WorkerPCs
<1>2. TrialKinds'
  BY DEF IInv, TrialKinds, InWarmup, Trial
<1>3. MainPhase' /\ ReadSoFar' /\ StopAsked' /\ (park => MainGate)'
  BY DEF IInv, Alive, MainPhase, MainBefore, MainInside, MainBehind, MainLeaving, ReadSoFar,
         MainGate, StopAsked, Trial
<1>4. SetupKnown'
  <2>1. {v \in Workers : Unready(v)}' = {v \in Workers : Unready(v)}
    BY DEF IInv, TypeOK, Unready
  <2>2. wpc'[Lead] \notin {"unborn", "setup"} => wpc[Lead] \notin {"unborn", "setup"}
    BY Constants DEF IInv, TypeOK
  <2> QED BY <2>1, <2>2 DEF IInv, Alive, SetupKnown, Trial
<1>5. ASSUME NEW v \in Workers PROVE WorkerInv(v)'
  <2>1. WorkerInv(v)
    BY DEF IInv, Alive, WorkerInv
  <2>2. CASE v = w
    BY <2>1, <2>2 DEF IInv, TypeOK, WorkerInv, WorkerPhase, WorkerData, WorkerGate, Unready, Between,
                      Heading, Released, Inside, Leaving, Trial
  <2>3. CASE v # w
    <3>1. Stays(v)
      BY <2>3 DEF IInv, TypeOK, Stays
    <3> QED BY <3>1, <2>1, WorkerFrame
  <2> QED BY <2>2, <2>3
<1> QED BY <1>1, <1>2, <1>3, <1>4, <1>5 DEF IInv, Alive, WorkerInv

\* A thread that cannot be created: the failure is known, and no trial has begun.
LEMMA SpawnFailsStep ==
    ASSUME IInv, mpc # "terminated", SpawnFails
    PROVE  IInv'
<1> USE DEF SpawnFails, MainTo, trials, pool, sync
<1>1. TypeOK'
  BY DEF IInv, TypeOK, MainPCs
<1>2. mpc = "spawn" /\ mpc' \in {"thrown", "request"} /\ (mpc' = "thrown" <=> Spawned = {})
  OBVIOUS
<1>3. TrialKinds'
  BY <1>2 DEF IInv, TrialKinds, InWarmup, Trial
<1>4. MainPhase' /\ ReadSoFar' /\ StopAsked' /\ (park => MainGate)'
  BY <1>2 DEF IInv, Alive, MainPhase, MainBefore, MainInside, MainBehind, MainLeaving, ReadSoFar,
         MainGate, StopAsked, Trial
<1>5. SetupKnown'
  <2>1. PICK w \in Workers : wpc[w] = "unborn"
    BY DEF Spawned
  <2>2. Trial = 0
    BY <2>1 DEF IInv, Alive, WorkerPhase, Unready
  <2> QED BY <1>2, <2>2 DEF IInv, Alive, SetupKnown, Unready, Trial
<1>6. ASSUME NEW v \in Workers PROVE WorkerInv(v)'
  <2>1. WorkerInv(v)
    BY DEF IInv, Alive, WorkerInv
  <2>2. mpc' = "thrown" => wpc[v] = "unborn"
    BY <1>2 DEF Spawned
  <2> QED BY <1>2, <2>1, <2>2 DEF IInv, TypeOK, WorkerInv, WorkerPhase, WorkerData, WorkerGate, Unready,
                      Between, Heading, Released, Inside, Leaving, Trial
<1> QED BY <1>1, <1>2, <1>3, <1>4, <1>5, <1>6 DEF IInv, Alive, WorkerInv

\* Behind the latch every worker is ready, and what failed is known.
LEMMA AwaitReadyStep ==
    ASSUME IInv, mpc # "terminated", AwaitReady
    PROVE  IInv'
<1> USE DEF AwaitReady, MainTo, trials, pool, shared, sync
<1>1. TypeOK'
  BY DEF IInv, TypeOK, MainPCs
<1>2. mpc = "spawn" /\ mpc' \in {"request", "idle"} /\ (mpc' = "request" <=> failed)
  BY DEF IInv, TypeOK
<1>3. \A w \in Workers : ~Unready(w)
  BY UnreadyCount DEF IInv, Alive, SetupKnown
<1>4. TrialKinds'
  BY <1>2 DEF IInv, TrialKinds, InWarmup, Trial
<1>5. MainPhase' /\ ReadSoFar' /\ StopAsked' /\ (park => MainGate)'
  BY <1>2 DEF IInv, Alive, MainPhase, MainBefore, MainInside, MainBehind, MainLeaving, ReadSoFar,
         MainGate, StopAsked, Trial
<1>6. SetupKnown'
  BY <1>2 DEF IInv, Alive, SetupKnown, Unready, Trial
<1>7. ASSUME NEW v \in Workers PROVE WorkerInv(v)'
  <2>1. WorkerInv(v)
    BY DEF IInv, Alive, WorkerInv
  <2> QED BY <1>2, <1>3, <2>1 DEF IInv, TypeOK, WorkerInv, WorkerPhase, WorkerData, WorkerGate, Unready,
                      Between, Heading, Released, Inside, Leaving, Trial
<1> QED BY <1>1, <1>2, <1>4, <1>5, <1>6, <1>7 DEF IInv, Alive, WorkerInv

\* A stop is asked of one worker after the other.
LEMMA RequestStopStep ==
    ASSUME IInv, mpc # "terminated", NEW w \in Workers, RequestStop(w)
    PROVE  IInv'
<1> USE DEF RequestStop, trials, pool, sync
<1>1. TypeOK'
  BY DEF IInv, TypeOK, MainPCs
<1>2. mpc = "request" /\ mpc' \in {"request", "openGate"} /\ (mpc' = "openGate" => stopReq' = Spawned)
  OBVIOUS
<1>3. TrialKinds'
  BY <1>2 DEF IInv, TrialKinds, InWarmup, Trial
<1>4. MainPhase' /\ ReadSoFar' /\ (park => MainGate)'
  BY <1>2 DEF IInv, Alive, MainPhase, MainBefore, MainInside, MainBehind, MainLeaving, ReadSoFar,
         MainGate, Trial
<1>5. StopAsked'
  BY <1>2 DEF StopAsked, Spawned
<1>6. SetupKnown'
  BY <1>2 DEF IInv, Alive, SetupKnown, Unready, Trial
<1>7. ASSUME NEW v \in Workers PROVE WorkerInv(v)'
  <2>1. WorkerInv(v)
    BY DEF IInv, Alive, WorkerInv
  <2> QED BY <1>2, <2>1 DEF IInv, TypeOK, WorkerInv, WorkerPhase, WorkerData, WorkerGate, Unready,
                      Between, Heading, Released, Inside, Leaving, Trial
<1> QED BY <1>1, <1>2, <1>3, <1>4, <1>5, <1>6, <1>7 DEF IInv, Alive, WorkerInv

\* What main finds behind a slot is this trial's, wherever the worker has got to.
LEMMA SlotIsCurrent ==
    ASSUME IInv, mpc = "read", NEW w \in Workers
    PROVE  slot[w].pre = Trial /\ slot[w].ops = Trial /\ MergeLatencies(w) = Trial
<1>1. WorkerPhase(w) /\ WorkerData(w) /\ ok[w] /\ tRelease = Trial /\ tDone = Trial
  BY DEF IInv, TypeOK, Alive, MainPhase, MainBefore, SetupKnown
<1>2. Between(w) \/ Heading(w)
  BY <1>1 DEF IInv, TypeOK, WorkerPCs, WorkerPhase, Unready, Between, Heading, Released, Inside, Leaving
<1>3. lap[w] \in Nat /\ Trial \in Nat /\ slot[w].pre \in Nat /\ slot[w].ops \in Nat
  BY DEF IInv, TypeOK, Records, Trial
<1>4. CASE Between(w)
  BY <1>1, <1>4 DEF WorkerPhase, WorkerData, Between, MergeLatencies
<1>5. CASE Heading(w)
  <2>1. lap[w] = Trial + 1 /\ wpc[w] \in {"arriveStart", "waitStart"}
    BY <1>1, <1>5 DEF WorkerPhase, Heading
  <2>2. hist[w][1 - cur[w]] \in Nat
    <3>1. cur \in [Workers -> 0..1] /\ hist \in [Workers -> [0..1 -> Nat]]
      BY DEF IInv, TypeOK
    <3> QED BY <3>1, Flips
  <2> QED BY <1>1, <1>3, <2>1, <2>2 DEF WorkerData, MergeLatencies
<1> QED BY <1>2, <1>4, <1>5

\* Reading a slot while its worker prepares the next trial.
LEMMA ReadSlotStep ==
    ASSUME IInv, mpc # "terminated", NEW w \in Workers, ReadSlot(w)
    PROVE  IInv'
<1> DEFINE current == [pre |-> Trial, ops |-> Trial, hist |-> Trial]
<1>1. got' = [got EXCEPT ![w] = current]
  BY SlotIsCurrent DEF ReadSlot
<1>2. current \in Records
  <2>1. Trial \in Nat
    BY DEF IInv, TypeOK, Trial
  <2> QED BY <2>1 DEF Records
<1> USE DEF ReadSlot, pool, shared, sync
<1>3. TypeOK'
  <2>1. got' \in [Workers -> Records]
    BY <1>1, <1>2 DEF IInv, TypeOK
  <2> QED BY <2>1 DEF IInv, TypeOK
<1>4. TrialKinds'
  BY DEF IInv, TrialKinds, InWarmup, Trial
<1>5. ReadSoFar'
  BY <1>1 DEF IInv, TypeOK, Alive, ReadSoFar, Trial
<1>6. MainPhase' /\ StopAsked' /\ (park => MainGate)' /\ SetupKnown'
  BY DEF IInv, Alive, MainPhase, MainBefore, MainInside, MainBehind, MainLeaving, StopAsked, Spawned,
         MainGate, SetupKnown, Unready, Trial
<1>7. ASSUME NEW v \in Workers PROVE WorkerInv(v)'
  <2>1. Stays(v) /\ WorkerInv(v)
    BY DEF IInv, Alive, WorkerInv, Stays
  <2> QED BY <2>1, WorkerFrame
<1> QED BY <1>3, <1>4, <1>5, <1>6, <1>7 DEF IInv, Alive, WorkerInv

\* The record of a timed trial is the next one.
LEMMA FinishTrialStep ==
    ASSUME IInv, mpc # "terminated", FinishTrial
    PROVE  IInv'
<1> USE DEF FinishTrial, MainTo, pool, shared, sync
<1>1. mpc = "read" /\ mpc' = "idle"
  OBVIOUS
<1>2. active' \in 0..WarmupFloor /\ (active >= WarmupFloor => active' >= WarmupFloor)
  BY Constants DEF IInv, TypeOK
<1>3. results' = [i \in 1..timed |-> i - 1] /\ results' \in Seq(Nat)
  <2>1. timed \in Nat
    BY Constants DEF IInv, TypeOK
  <2>2. CASE warmup
    BY <2>2 DEF IInv, TypeOK, TrialKinds
  <2>3. CASE ~warmup
    <3>1. timed > 0 /\ results = [i \in 1..(timed - 1) |-> i - 1] /\ results \in Seq(Nat)
      BY <2>3 DEF IInv, TypeOK, TrialKinds
    <3>2. results' = Append(results, timed - 1)
      BY <2>3 DEF TrialNumber
    <3>3. Len(results) = timed - 1
      BY <2>1, <3>1
    <3> QED BY <2>1, <3>1, <3>2, <3>3
  <2> QED BY <2>2, <2>3
<1>4. TypeOK'
  BY <1>2, <1>3 DEF IInv, TypeOK, MainPCs
<1>5. TrialKinds'
  BY <1>2, <1>3 DEF IInv, TypeOK, TrialKinds
<1>6. MainPhase' /\ StopAsked' /\ ReadSoFar' /\ (park => MainGate)' /\ SetupKnown'
  BY DEF IInv, Alive, MainPhase, MainBefore, MainInside, MainBehind, MainLeaving, StopAsked, Spawned,
         ReadSoFar, MainGate, SetupKnown, Unready, Trial
<1>7. ASSUME NEW v \in Workers PROVE WorkerInv(v)'
  <2>1. WorkerInv(v)
    BY DEF IInv, Alive, WorkerInv
  <2> QED BY <1>1, <2>1 DEF WorkerInv, WorkerPhase, WorkerData, WorkerGate, Unready,
                      Between, Heading, Released, Inside, Leaving, Trial
<1> QED BY <1>1, <1>4, <1>5, <1>6, <1>7 DEF IInv, Alive, WorkerInv

-----------------------------------------------------------------------------
(* The invariant holds and is kept. *)

\* A session starts out with no thread and no trial.
LEMMA InitIInv == Init => IInv
<1> SUFFICES ASSUME Init PROVE IInv
  OBVIOUS
<1> USE DEF Init
<1>1. NoTrial \in Records
  BY DEF NoTrial, Records
<1>2. TypeOK
  <2>1. slot \in [Workers -> Records] /\ got \in [Workers -> Records]
    BY <1>1
  <2>2. hist \in [Workers -> [0..1 -> Nat]] /\ results \in Seq(Nat)
    OBVIOUS
  <2>3. ready \in 0..Cardinality(Workers) /\ timed \in 0..Trials /\ active \in 0..WarmupFloor
    BY Constants
  <2>4. mpc \in MainPCs /\ wpc \in [Workers -> WorkerPCs] /\ ok \in [Workers -> BOOLEAN]
    BY DEF MainPCs, WorkerPCs
  <2>5. gateSeen \in [Workers -> Nat] /\ lap \in [Workers -> Nat] /\ cur \in [Workers -> 0..1]
    OBVIOUS
  <2> QED BY <2>1, <2>2, <2>3, <2>4, <2>5 DEF TypeOK
<1>3. TrialKinds
  BY Constants DEF TrialKinds, InWarmup, Trial
<1>4. SetupKnown
  <2>1. {w \in Workers : Unready(w)} = Workers
    BY DEF Unready
  <2> QED BY <2>1, Constants DEF SetupKnown
<1>5. MainPhase /\ StopAsked /\ ReadSoFar /\ (park => MainGate)
  BY DEF MainPhase, MainBefore, MainInside, MainBehind, MainLeaving, StopAsked, ReadSoFar, MainGate, Trial
<1>6. \A w \in Workers : WorkerInv(w)
  BY DEF WorkerInv, WorkerPhase, WorkerData, WorkerGate, Unready,
         Between, Heading, Released, Inside, Leaving, Trial, NoTrial
<1> QED BY <1>2, <1>3, <1>4, <1>5, <1>6 DEF IInv, Alive, WorkerInv

\* After std::terminate no thread takes a step.
LEMMA TerminatedStays ==
    ASSUME IInv, mpc = "terminated", Next
    PROVE  IInv'
<1>1. \A w \in Workers : ~WorkerStep(w)
  BY DEF IInv, WorkerStep, Setup, SetupFails, CountDown, PassGate, Prepare, ArriveStart, LeaveStart,
         RunBatches, BatchThrows, PublishSlot, ArriveEnd, LeaveEnd, Exit
<1>2. ~MainStep
  BY DEF MainStep, SpawnFails, AwaitReady, BeginTrial, MainArriveStart, MainArriveEnd, CountTrial,
         FinishTrial, StopSession, OpenGateToStop, Join, Spawn, ReadSlot, RequestStop
<1>3. CASE ReleaseStart
  BY <1>3 DEF ReleaseStart, StartB!Release, IInv, TypeOK, TrialKinds, InWarmup, Trial, main, trials,
              pool, shared
<1>4. CASE ReleaseEnd
  BY <1>4 DEF ReleaseEnd, EndB!Release, IInv, TypeOK, TrialKinds, InWarmup, Trial, main, trials,
              pool, shared
<1>5. CASE UNCHANGED vars
  BY <1>5 DEF vars, IInv, TypeOK, TrialKinds, InWarmup, Trial, main, trials, pool, shared, sync
<1> QED BY <1>1, <1>2, <1>3, <1>4, <1>5 DEF Next, Finished

\* A step that changes nothing keeps what is known.
LEMMA StutterStep ==
    ASSUME IInv, UNCHANGED vars
    PROVE  IInv'
<1> USE DEF vars, main, trials, pool, shared, sync
<1>1. TypeOK' /\ TrialKinds'
  BY DEF IInv, TypeOK, TrialKinds, InWarmup, Trial
<1>2. Alive => Alive'
  BY DEF Alive, MainPhase, MainBefore, MainInside, MainBehind, MainLeaving, StopAsked, Spawned,
         ReadSoFar, MainGate, SetupKnown, Unready, Between, Heading, Released, Inside, Leaving,
         WorkerPhase, WorkerData, WorkerGate, Trial
<1> QED BY <1>1, <1>2 DEF IInv

\* Every step of every thread and of the barriers keeps the invariant.
LEMMA NextIInv ==
    ASSUME IInv, [Next]_vars
    PROVE  IInv'
<1>1. CASE UNCHANGED vars
  BY <1>1, StutterStep
<1>2. CASE mpc = "terminated" /\ Next
  BY <1>2, TerminatedStays
<1> SUFFICES ASSUME mpc # "terminated", Next PROVE IInv'
  BY <1>1, <1>2
<1>3. ASSUME NEW w \in Workers, WorkerStep(w) PROVE IInv'
  BY <1>3, SetupSteps, CountDownStep, PassGateStep, PrepareStep, ArriveStartStep, LeaveStartStep,
     RunBatchesStep, BatchThrowsStep, PublishSlotStep, ArriveEndStep, LeaveEndStep, ExitStep
  DEF WorkerStep
<1>4. CASE MainStep
  <2>1. ASSUME NEW w \in Workers, Spawn(w) \/ ReadSlot(w) \/ RequestStop(w) PROVE IInv'
    BY <2>1, SpawnStep, ReadSlotStep, RequestStopStep
  <2>2. CASE MainArriveStart("arriveStart", "waitStart") \/ MainArriveStart("arriveStop", "waitStop")
    BY <2>2, MainArriveStartStep
  <2> QED BY <1>4, <2>1, <2>2, SpawnFailsStep, AwaitReadyStep, BeginTrialStep, MainArriveEndStep,
             CountTrialStep, FinishTrialStep, StopSessionStep, OpenGateToStopStep, JoinStep
          DEF MainStep
<1>5. CASE Finished
  BY <1>5, StutterStep DEF Finished
<1> QED BY <1>3, <1>4, <1>5, ReleaseStartStep, ReleaseEndStep DEF Next

\* The threads of a session never get out of step.
THEOREM Invariance == Spec => []IInv
<1> QED BY InitIInv, NextIInv, PTL DEF Spec

-----------------------------------------------------------------------------
(* What a user of the session relies on. *)

\* Every variable of the session keeps its type, the latch, the trial count and
\* the warm-up clock their ranges (runner.cpp, ConfigSession and worker()).
THEOREM TypeCorrect == Spec => []TypeOK
<1>1. IInv => TypeOK
  BY DEF IInv
<1> QED BY <1>1, Invariance, PTL

\* Everything main merges after the end barrier (run_one_trial(), "cannot race a
\* worker") is of the trial it reports, for any number of workers and trials.
THEOREM MergesOneTrial == Spec => []TrialDataCoherent
<1>1. IInv => TrialDataCoherent
  <2> SUFFICES ASSUME IInv, mpc = "read" PROVE TrialDataCoherent
    BY DEF TrialDataCoherent
  <2>1. ReadSoFar /\ MainPhase /\ SetupKnown
    BY DEF IInv, Alive
  <2>2. \A w \in Workers \ Reading : got[w] = [pre |-> Trial, ops |-> Trial, hist |-> Trial]
    BY <2>1 DEF ReadSoFar, Reading
  <2>3. tRelease = Trial /\ tDone = Trial
    BY <2>1 DEF MainPhase, MainBefore
  <2>4. reported
    <3>1. ~Unready(Lead)
      BY Constants DEF IInv, Alive, WorkerPhase
    <3> QED BY <3>1, <2>1 DEF SetupKnown, Unready
  <2> QED BY <2>2, <2>3, <2>4 DEF TrialDataCoherent
<1> QED BY <1>1, Invariance, PTL

\* A stop is seen by all workers at the same barrier or by none (worker(), "main
\* requested stop before arriving: consistent view").
THEOREM StopIsConsistent == Spec => []ConsistentStop
<1>1. IInv => ConsistentStop
  <2> SUFFICES ASSUME IInv, mpc # "terminated",
                      NEW v \in Workers, wpc[v] \in {"teardown", "exited"},
                      NEW w \in Workers
               PROVE  /\ wpc[w] \notin {"timed", "publish", "arriveEnd", "waitEnd"}
                      /\ wpc[w] = "waitStart" => w \notin startIn
    BY DEF ConsistentStop
  <2>1. WorkerPhase(v) /\ WorkerPhase(w)
    BY DEF IInv, Alive
  <2>2. mpc \in {"waitStop", "stopped", "thrown"} /\ tRelease = tDone + 1 /\ tDone \in Nat
    BY <2>1 DEF WorkerPhase, Leaving, IInv, TypeOK
  <2> QED BY <2>1, <2>2 DEF WorkerPhase, Between, Heading, Inside
<1> QED BY <1>1, Invariance, PTL

\* A pool that could not be set up runs no batch (start(), ready_ and failure_), and
\* parked workers leave the gate in their configuration's turn only (gate_).
THEOREM PoolKeepsItsTurn == Spec => []RunsInItsTurn
<1>1. IInv => FailedPoolRunsNothing
  <2> SUFFICES ASSUME IInv, failed PROVE FailedPoolRunsNothing
    BY DEF FailedPoolRunsNothing
  <2>1. Alive /\ mpc # "terminated"
    BY DEF IInv
  <2>2. Trial = 0 /\ mpc \in {"spawn", "request", "openGate", "arriveStop", "waitStop", "thrown"}
    BY <2>1 DEF Alive, SetupKnown
  <2>3. warmups = 0 /\ timed = 0
    BY <2>2 DEF IInv, TypeOK, Trial
  <2>4. results = <<>>
    BY <2>2, <2>3 DEF IInv, TrialKinds
  <2>5. \A w \in Workers : wpc[w] # "timed"
    BY <2>1, <2>2 DEF Alive, WorkerPhase, Inside
  <2> QED BY <2>3, <2>4, <2>5 DEF FailedPoolRunsNothing
<1>2. IInv => ParkedUntilTurn
  <2> SUFFICES ASSUME IInv, park, mpc = "idle", NEW w \in Workers
               PROVE  wpc[w] \in {"gate", "waitEnd"} /\ gateSeen[w] = gate
    BY DEF ParkedUntilTurn
  <2>1. MainPhase /\ MainGate /\ WorkerPhase(w) /\ WorkerGate(w)
    BY DEF IInv, Alive
  <2>2. ~Unready(w) /\ ~Released(w) /\ ~Inside(w) /\ ~Leaving(w) /\ ~Heading(w) /\ wpc[w] # "prep"
    BY <2>1 DEF WorkerPhase, WorkerGate
  <2>3. wpc[w] \in {"gate", "waitEnd"} /\ Between(w)
    BY <2>2 DEF IInv, TypeOK, WorkerPCs, Unready, Released, Inside, Leaving, Heading, Between
  <2>4. gateSeen[w] = lap[w] /\ lap[w] = tRelease
    BY <2>1, <2>3 DEF WorkerPhase, WorkerGate
  <2>5. tRelease = Trial /\ gate = Trial
    BY <2>1 DEF MainPhase, MainBefore, MainGate
  <2> QED BY <2>3, <2>4, <2>5
<1> QED BY <1>1, <1>2, Invariance, PTL DEF RunsInItsTurn

\* No trial is timed before both warm-up conditions hold, and the records of the
\* timed trials have no gap (in_warmup(), results_).
THEOREM WarmUpComesFirst == Spec => []WarmUpFirst
<1>1. IInv => WarmUpFirst
  BY DEF IInv, TrialKinds, WarmUpFirst
<1> QED BY <1>1, Invariance, PTL

=============================================================================
