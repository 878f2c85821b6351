------------------------------ MODULE Session ------------------------------
(***************************************************************************)
(* One configuration's worker pool: ConfigSession<W> and worker() of       *)
(* engine/src/runner.cpp, with the double-buffered latency histograms of   *)
(* DiskRandWorkload that the main thread reads while the workers already   *)
(* prepare the next trial.                                                 *)
(*                                                                         *)
(* The threads are the workers and the main thread.  Every shared access   *)
(* between two synchronisation points is a step of its own; the two        *)
(* barriers are used through their specification Barrier, which            *)
(* SpinBarrier implements.  What a trial measures is abstracted to the     *)
(* number of the trial it was measured in: a value read by the main thread *)
(* is right when it carries the number of the trial being reported.        *)
(***************************************************************************)
EXTENDS Integers, Sequences, FiniteSets

CONSTANTS Workers,        \* the worker threads
          Lead,           \* worker 0, which publishes the report
          Main,           \* the coordinator's thread
          WarmupTrials,   \* cfg.warmup_trials
          WarmupFloor,    \* cfg.warmup_ms, in units of active time
          Trials,         \* cfg.trials
          Durations,      \* the lengths a trial may turn out to have
          SpawnMayFail,   \* std::jthread's constructor may throw
          BatchMayThrow   \* run_batch() may throw (an I/O error)

ASSUME ThreadsAssumption ==
    IsFiniteSet(Workers) /\ Lead \in Workers /\ Main \notin Workers
ASSUME CountsAssumption ==
    /\ WarmupTrials \in Nat /\ WarmupFloor \in Nat
    /\ Trials \in Nat \ {0}
    /\ Durations \subseteq Nat \ {0}
ASSUME FaultsAssumption == SpawnMayFail \in BOOLEAN /\ BatchMayThrow \in BOOLEAN

VARIABLES
    park,        \* park_: the configuration is one of an interleaved run
    mpc,         \* where the main thread is in start(), run_one_trial(), stop()
    wpc,         \* where each worker is in worker()
    ok,          \* worker-local: setup succeeded
    ready,       \* the latch ready_
    failed,      \* failure_.message is not empty
    reported,    \* report_ has been stored by worker 0
    stopReq,     \* the workers whose stop_token has been signalled
    gate,        \* gate_.generation
    gateSeen,    \* worker-local gate_seen
    startIn,     \* who is blocked at start_b_
    endIn,       \* who is blocked at end_b_
    tRelease,    \* t_release_: how often start_b_'s completion has stamped it
    tDone,       \* t_done_: likewise
    lap,         \* worker-local: the trial the worker prepares or runs
    cur, hist,   \* the workload's cur_ and hist_[2]: whose samples they hold
    slot,        \* slots_[i]
    got,         \* what the main thread has read of this trial's slots
    warmup,      \* the local `warmup` of run_one_trial()
    warmups, timed, active,    \* warmups_done_, timed_done_, active_ns_
    results      \* results_, as the trial numbers of its records

trials == <<warmup, warmups, timed, active, got, results>>
main   == <<mpc, trials>>
pool   == <<wpc, ok, gateSeen, lap, cur, hist, slot>>
shared == <<ready, failed, reported, stopReq, gate>>
sync   == <<startIn, endIn, tRelease, tDone>>
vars   == <<park, main, pool, shared, sync>>

Threads == Workers \cup {Main}
StartB == INSTANCE Barrier WITH Procs <- Threads, in <- startIn
EndB   == INSTANCE Barrier WITH Procs <- Threads, in <- endIn

NoTrial == [pre |-> 0, ops |-> 0, hist |-> 0]   \* a slot before any trial

Init ==
    /\ park \in BOOLEAN
    /\ mpc = "spawn"
    /\ wpc = [w \in Workers |-> "unborn"]
    /\ ok = [w \in Workers |-> TRUE]
    /\ ready = Cardinality(Workers)
    /\ failed = FALSE /\ reported = FALSE
    /\ stopReq = {}
    /\ gate = 0 /\ gateSeen = [w \in Workers |-> 0]
    /\ startIn = {} /\ endIn = {}
    /\ tRelease = 0 /\ tDone = 0
    /\ lap = [w \in Workers |-> 0]
    /\ cur = [w \in Workers |-> 0]
    /\ hist = [w \in Workers |-> [b \in 0..1 |-> 0]]
    /\ slot = [w \in Workers |-> NoTrial]
    /\ got = [w \in Workers |-> NoTrial]
    /\ warmup = TRUE /\ warmups = 0 /\ timed = 0 /\ active = 0
    /\ results = <<>>

\* Mutant: either condition ends the warm-up.
InWarmupEither == warmups < WarmupTrials /\ active < WarmupFloor

\* in_warmup() and wants_more_trials()
InWarmup == warmups < WarmupTrials \/ active < WarmupFloor
WantsMoreTrials == InWarmup \/ timed < Trials

MainTo(to) == mpc' = to
WorkerTo(w, to) == wpc' = [wpc EXCEPT ![w] = to]

-----------------------------------------------------------------------------
(* worker() *)

\* W::setup and ColdPrep::setup; worker 0 then publishes the report.
Setup(w) ==
    /\ wpc[w] = "setup"
    /\ reported' = (reported \/ w = Lead)
    /\ WorkerTo(w, "countdown")
    /\ UNCHANGED <<park, main, ok, gateSeen, lap, cur, hist, slot, ready,
                   failed, stopReq, gate, sync>>

\* An exception of setup is caught and noted; the worker goes on with ok false.
SetupFails(w) ==
    /\ wpc[w] = "setup"
    /\ ok' = [ok EXCEPT ![w] = FALSE]
    /\ failed' = TRUE
    /\ WorkerTo(w, "countdown")
    /\ UNCHANGED <<park, main, gateSeen, lap, cur, hist, slot, ready,
                   reported, stopReq, gate, sync>>

\* ready.count_down()
CountDown(w) ==
    /\ wpc[w] = "countdown"
    /\ ready' = ready - 1
    /\ WorkerTo(w, "gate")
    /\ UNCHANGED <<park, main, ok, gateSeen, lap, cur, hist, slot, failed,
                   reported, stopReq, gate, sync>>

\* Mutant: a parked worker does not wait for its configuration's turn.
GateIgnored(w) ==
    /\ wpc[w] = "gate"
    /\ WorkerTo(w, "prep")
    /\ UNCHANGED <<park, main, ok, gateSeen, lap, cur, hist, slot, shared, sync>>

\* The top of the loop: gate->wait(gate_seen); ++gate_seen, when interleaving.
PassGate(w) ==
    /\ wpc[w] = "gate"
    /\ park => gate # gateSeen[w]
    /\ gateSeen' = [gateSeen EXCEPT ![w] = IF park THEN @ + 1 ELSE @]
    /\ WorkerTo(w, "prep")
    /\ UNCHANGED <<park, main, ok, lap, cur, hist, slot, shared, sync>>

\* Mutant: one histogram only, cleared in place.
BeforeTrialInPlace(w) ==
    /\ hist' = [hist EXCEPT ![w][cur[w]] = 0]
    /\ UNCHANGED cur

\* before_trial() flips to the other histogram and clears it.
BeforeTrial(w) ==
    /\ cur' = [cur EXCEPT ![w] = 1 - @]
    /\ hist' = [hist EXCEPT ![w][1 - cur[w]] = 0]

\* before_trial() and cold.prepare(); a worker whose setup failed prepares
\* nothing.
Prepare(w) ==
    /\ wpc[w] = "prep"
    /\ lap' = [lap EXCEPT ![w] = @ + 1]
    /\ IF ok[w] THEN BeforeTrial(w) ELSE UNCHANGED <<cur, hist>>
    /\ WorkerTo(w, "arriveStart")
    /\ UNCHANGED <<park, main, ok, gateSeen, slot, shared, sync>>

ArriveStart(w) ==
    /\ wpc[w] = "arriveStart"
    /\ StartB!Arrive(w)
    /\ WorkerTo(w, "waitStart")
    /\ UNCHANGED <<park, main, ok, gateSeen, lap, cur, hist, slot, shared,
                   endIn, tRelease, tDone>>

\* Released from the start barrier: leave the loop if stop was requested.
LeaveStart(w) ==
    /\ wpc[w] = "waitStart"
    /\ w \notin startIn
    /\ WorkerTo(w, IF w \in stopReq THEN "teardown" ELSE "timed")
    /\ UNCHANGED <<park, main, ok, gateSeen, lap, cur, hist, slot, shared, sync>>

\* record(): a sample of this trial goes into the current histogram.
Recorded(w) == [hist EXCEPT ![w][cur[w]] = lap[w]]

\* The prepared costs are published and the batches run: every call records
\* its latency in the current histogram.
RunBatches(w) ==
    /\ wpc[w] = "timed"
    /\ slot' = [slot EXCEPT ![w].pre = lap[w]]
    /\ hist' = IF ok[w] THEN Recorded(w) ELSE hist
    /\ WorkerTo(w, "publish")
    /\ UNCHANGED <<park, main, ok, gateSeen, lap, cur, shared, sync>>

\* run_batch() throws: nothing in worker() catches it, so the process ends in
\* std::terminate.
BatchThrows(w) ==
    /\ wpc[w] = "timed"
    /\ ok[w] /\ BatchMayThrow
    /\ MainTo("terminated")
    /\ wpc' = [v \in Workers |-> "exited"]
    /\ UNCHANGED <<park, trials, ok, gateSeen, lap, cur, hist, slot, shared, sync>>

\* ops, batches, start, end and the view of the histogram go into the slot.
PublishSlot(w) ==
    /\ wpc[w] = "publish"
    /\ slot' = [slot EXCEPT ![w].ops = lap[w], ![w].hist = cur[w]]
    /\ WorkerTo(w, "arriveEnd")
    /\ UNCHANGED <<park, main, ok, gateSeen, lap, cur, hist, shared, sync>>

ArriveEnd(w) ==
    /\ wpc[w] = "arriveEnd"
    /\ EndB!Arrive(w)
    /\ WorkerTo(w, "waitEnd")
    /\ UNCHANGED <<park, main, ok, gateSeen, lap, cur, hist, slot, shared,
                   startIn, tRelease, tDone>>

LeaveEnd(w) ==
    /\ wpc[w] = "waitEnd"
    /\ w \notin endIn
    /\ WorkerTo(w, "gate")
    /\ UNCHANGED <<park, main, ok, gateSeen, lap, cur, hist, slot, shared, sync>>

\* teardown() and the end of the thread: the workload and with it the storage
\* of the histograms are gone.
Exit(w) ==
    /\ wpc[w] = "teardown"
    /\ hist' = [hist EXCEPT ![w] = [b \in 0..1 |-> 0]]
    /\ WorkerTo(w, "exited")
    /\ UNCHANGED <<park, main, ok, gateSeen, lap, cur, slot, shared, sync>>

WorkerStep(w) ==
    \/ Setup(w) \/ SetupFails(w) \/ CountDown(w) \/ PassGate(w) \/ Prepare(w)
    \/ ArriveStart(w) \/ LeaveStart(w) \/ RunBatches(w) \/ BatchThrows(w)
    \/ PublishSlot(w) \/ ArriveEnd(w) \/ LeaveEnd(w) \/ Exit(w)

-----------------------------------------------------------------------------
(* The barriers' own step: the last arriver runs the completion, which      *)
(* stamps the time of the phase, and releases everybody.                    *)

ReleaseStart ==
    /\ StartB!Release
    /\ tRelease' = tRelease + 1
    /\ UNCHANGED <<park, main, pool, shared, endIn, tDone>>

ReleaseEnd ==
    /\ EndB!Release
    /\ tDone' = tDone + 1
    /\ UNCHANGED <<park, main, pool, shared, startIn, tRelease>>

-----------------------------------------------------------------------------
(* The main thread: start() *)

Spawned == {w \in Workers : wpc[w] # "unborn"}

\* threads_.emplace_back(worker<W>, ...)
Spawn(w) ==
    /\ mpc = "spawn" /\ wpc[w] = "unborn"
    /\ w = Lead \/ wpc[Lead] # "unborn"
    /\ WorkerTo(w, "setup")
    /\ UNCHANGED <<park, main, ok, gateSeen, lap, cur, hist, slot, shared, sync>>

\* The constructor of a thread throws: the exception leaves start(), and the
\* destructor of the session calls stop(), which returns if there are no
\* threads at all.
SpawnFails ==
    /\ mpc = "spawn" /\ SpawnMayFail
    /\ Spawned # Workers
    /\ MainTo(IF Spawned = {} THEN "thrown" ELSE "request")
    /\ failed' = TRUE
    /\ UNCHANGED <<park, trials, pool, ready,
                   reported, stopReq, gate, sync>>

\* Mutant: the result of the setup is looked at as soon as it is there.
AwaitReadyUnlatched ==
    /\ mpc = "spawn" /\ Spawned = Workers
    /\ MainTo(IF failed THEN "request" ELSE "idle")
    /\ UNCHANGED <<park, trials, pool, shared, sync>>

\* ready_.wait(), then stop() and throw if a worker could not set up.
AwaitReady ==
    /\ mpc = "spawn" /\ Spawned = Workers
    /\ ready = 0
    /\ MainTo(IF failed THEN "request" ELSE "idle")
    /\ UNCHANGED <<park, trials, pool, shared, sync>>

(* run_one_trial() *)

\* Called by the coordinator while the session wants more trials; the gate is
\* opened first when the workers are parked.
BeginTrial ==
    /\ mpc = "idle" /\ WantsMoreTrials
    /\ warmup' = InWarmup
    /\ gate' = IF park THEN gate + 1 ELSE gate
    /\ MainTo("arriveStart")
    /\ UNCHANGED <<park, warmups, timed, active, got, results, pool, ready,
                   failed, reported, stopReq, sync>>

\* start_b_.arrive_and_wait(), from run_one_trial() and from stop().
MainArriveStart(from, to) ==
    /\ mpc = from
    /\ StartB!Arrive(Main)
    /\ MainTo(to)
    /\ UNCHANGED <<park, trials, pool, shared,
                   endIn, tRelease, tDone>>

\* Released at the start, the main thread goes on to end_b_.
MainArriveEnd ==
    /\ mpc = "waitStart"
    /\ Main \notin startIn
    /\ EndB!Arrive(Main)
    /\ MainTo("waitEnd")
    /\ UNCHANGED <<park, trials, pool, shared,
                   startIn, tRelease, tDone>>

\* Released at the end: the trial is counted, and its slots are read next.
CountTrial ==
    /\ mpc = "waitEnd"
    /\ Main \notin endIn
    /\ IF warmup THEN warmups' = warmups + 1 /\ timed' = timed
                 ELSE timed' = timed + 1 /\ warmups' = warmups
    /\ got' = [w \in Workers |-> NoTrial]
    /\ MainTo("read")
    /\ UNCHANGED <<park, warmup, active, results, pool, shared, sync>>

Reading == Workers \ {w \in Workers : got[w] # NoTrial}

\* What merge_latencies() finds behind the view of the histogram in slot w.
MergeLatencies(w) == hist[w][slot[w].hist]

\* One slot is read, and the histogram it points to, while the workers are
\* already running towards the next trial.
ReadSlot(w) ==
    /\ mpc = "read" /\ w \in Reading
    /\ got' = [got EXCEPT ![w] = [pre |-> slot[w].pre, ops |-> slot[w].ops,
                                  hist |-> MergeLatencies(w)]]
    /\ UNCHANGED <<park, mpc, warmup, warmups, timed, active, results, pool,
                   shared, sync>>

\* r.trial: negative while warming up, from 0 for the timed trials.
TrialNumber == IF warmup THEN -warmups ELSE timed - 1

\* Time the trial took counts towards the warm-up floor; the record of a timed
\* trial is buffered.
FinishTrial ==
    /\ mpc = "read" /\ Reading = {}
    /\ \E d \in Durations :
         active' = IF active + d > WarmupFloor THEN WarmupFloor ELSE active + d
    /\ results' = IF warmup THEN results ELSE Append(results, TrialNumber)
    /\ MainTo("idle")
    /\ UNCHANGED <<park, warmup, warmups, timed, got, pool, shared, sync>>

(* stop() *)

\* The coordinator stops between two trials: nothing is left to run, or
\* should_stop() said so.
StopSession ==
    /\ mpc = "idle"
    /\ MainTo("request")
    /\ UNCHANGED <<park, trials, pool, shared, sync>>

\* Mutant: the last worker is not asked to stop before main arrives.
RequestStopLate(w) ==
    /\ mpc \in {"request", "openGate", "arriveStop", "waitStop", "join"}
    /\ w \in Spawned \ stopReq
    /\ stopReq' = stopReq \cup {w}
    /\ mpc' = IF mpc = "request" THEN "openGate" ELSE mpc
    /\ UNCHANGED <<park, trials, pool, ready,
                   failed, reported, gate, sync>>

\* th.request_stop(), one worker after the other.
RequestStop(w) ==
    /\ mpc = "request"
    /\ w \in Spawned \ stopReq
    /\ stopReq' = stopReq \cup {w}
    /\ mpc' = IF stopReq' = Spawned THEN "openGate" ELSE mpc
    /\ UNCHANGED <<park, trials, pool, ready,
                   failed, reported, gate, sync>>

\* Mutant: stop() forgets the parked workers.
OpenGateForgotten ==
    /\ mpc = "openGate"
    /\ MainTo("arriveStop")
    /\ UNCHANGED <<park, trials, pool, shared, sync>>

\* gate_.open() wakes parked workers so that they reach the stop check.
OpenGateToStop ==
    /\ mpc = "openGate"
    /\ gate' = IF park THEN gate + 1 ELSE gate
    /\ MainTo("arriveStop")
    /\ UNCHANGED <<park, trials, pool, ready,
                   failed, reported, stopReq, sync>>

\* Released from the last start barrier, main joins the threads.
Join ==
    /\ mpc = "waitStop"
    /\ Main \notin startIn
    /\ \A w \in Spawned : wpc[w] = "exited"
    /\ MainTo(IF failed THEN "thrown" ELSE "stopped")
    /\ UNCHANGED <<park, trials, pool, shared, sync>>

MainStep ==
    \/ SpawnFails \/ AwaitReady \/ BeginTrial
    \/ MainArriveStart("arriveStart", "waitStart") \/ MainArriveEnd
    \/ CountTrial \/ FinishTrial \/ StopSession \/ OpenGateToStop
    \/ MainArriveStart("arriveStop", "waitStop") \/ Join
    \/ \E w \in Workers : Spawn(w) \/ ReadSlot(w) \/ RequestStop(w)

Over == mpc \in {"stopped", "thrown", "terminated"}
Finished == Over /\ UNCHANGED vars

Next ==
    \/ MainStep \/ ReleaseStart \/ ReleaseEnd \/ Finished
    \/ \E w \in Workers : WorkerStep(w)

\* Every thread runs: the kernel schedules workers and main, and the last
\* arriver of a barrier finishes its completion.
Fairness ==
    /\ WF_vars(MainStep)
    /\ WF_vars(ReleaseStart) /\ WF_vars(ReleaseEnd)
    /\ \A w \in Workers : WF_vars(WorkerStep(w))

Spec == Init /\ [][Next]_vars /\ Fairness

-----------------------------------------------------------------------------
(* Properties *)

WorkerPCs == {"unborn", "setup", "countdown", "gate", "prep", "arriveStart",
              "waitStart", "timed", "publish", "arriveEnd", "waitEnd",
              "teardown", "exited"}
MainPCs == {"spawn", "idle", "arriveStart", "waitStart", "waitEnd", "read",
            "request", "openGate", "arriveStop", "waitStop",
            "stopped", "thrown", "terminated"}
Records == [pre : Nat, ops : Nat, hist : Nat]

TypeOK ==
    /\ park \in BOOLEAN /\ failed \in BOOLEAN /\ reported \in BOOLEAN
    /\ warmup \in BOOLEAN
    /\ mpc \in MainPCs
    /\ wpc \in [Workers -> WorkerPCs]
    /\ ok \in [Workers -> BOOLEAN]
    /\ ready \in 0..Cardinality(Workers)
    /\ stopReq \subseteq Workers
    /\ startIn \subseteq Threads /\ endIn \subseteq Threads
    /\ gate \in Nat /\ gateSeen \in [Workers -> Nat]
    /\ tRelease \in Nat /\ tDone \in Nat
    /\ lap \in [Workers -> Nat]
    /\ cur \in [Workers -> 0..1]
    /\ hist \in [Workers -> [0..1 -> Nat]]
    /\ slot \in [Workers -> Records] /\ got \in [Workers -> Records]
    /\ warmups \in Nat /\ timed \in 0..Trials /\ active \in 0..WarmupFloor
    /\ results \in Seq(Nat)

\* Number of the trial the main thread is reading or has read last.
Trial == warmups + timed

\* runner.cpp, "cannot race a worker": everything the main thread reads after
\* the end barrier (slot fields written before and after the timed region, the
\* histogram behind slot.hist, both time stamps, the report) belongs to the
\* trial it is reporting, although the workers are already preparing the next.
TrialDataCoherent ==
    mpc = "read" =>
        /\ \A w \in Workers \ Reading :
             got[w] = [pre |-> Trial, ops |-> Trial, hist |-> Trial]
        /\ tRelease = Trial /\ tDone = Trial
        /\ reported

\* "main requested stop before arriving: consistent view": one worker leaving
\* the loop means that nobody starts or is in a trial.
ConsistentStop ==
    (mpc # "terminated" /\ \E w \in Workers : wpc[w] \in {"teardown", "exited"}) =>
        \A w \in Workers :
            /\ wpc[w] \notin {"timed", "publish", "arriveEnd", "waitEnd"}
            /\ wpc[w] = "waitStart" => w \notin startIn

\* A pool in which a worker could not set up, or could not be created, is torn
\* down at the first barrier: none of its workers enters a timed region and
\* nothing is recorded.
FailedPoolRunsNothing ==
    failed =>
        /\ \A w \in Workers : wpc[w] # "timed"
        /\ results = <<>> /\ warmups = 0

\* The gate: between two trials of an interleaved session none of its workers
\* runs ahead into the preparation or spins at a barrier; each is parked, or on
\* its way to the gate.
ParkedUntilTurn ==
    (park /\ mpc = "idle") =>
        \A w \in Workers :
            /\ wpc[w] \in {"gate", "waitEnd"}
            /\ gateSeen[w] = gate

\* A pool works in its turn only: never if a worker could not be set up, and
\* not beside the trials of other configurations.
RunsInItsTurn == FailedPoolRunsNothing /\ ParkedUntilTurn

\* No timed trial before both warm-up conditions hold, and the timed trials are
\* numbered from 0 without a gap whenever the session may be stopped.
WarmUpFirst ==
    /\ timed > 0 => warmups >= WarmupTrials /\ active >= WarmupFloor
    /\ mpc = "idle" => results = [i \in 1..timed |-> i - 1]

\* Every session whose threads could all be created comes to its end: no worker
\* is left at the gate or at a barrier, whatever trial it is stopped at and
\* whichever setup failed.
Terminates == (Spawned = Workers) ~> Over

-----------------------------------------------------------------------------
(* The inductive invariant behind the safety properties.                    *)

\* Where a worker is, seen from the two barriers.
Unready(w)  == wpc[w] \in {"unborn", "setup", "countdown"}
Between(w)  == wpc[w] \in {"gate", "prep"} \/ (wpc[w] = "waitEnd" /\ w \notin endIn)
Heading(w)  == wpc[w] = "arriveStart" \/ (wpc[w] = "waitStart" /\ w \in startIn)
Released(w) == wpc[w] = "waitStart" /\ w \notin startIn
Inside(w)   == wpc[w] \in {"timed", "publish", "arriveEnd"} \/ (wpc[w] = "waitEnd" /\ w \in endIn)
Leaving(w)  == wpc[w] \in {"teardown", "exited"}

\* ... and the main thread: not yet at the start barrier, between the barriers
\* of a trial, behind the second one, behind the start barrier of stop().
MainBefore ==
    \/ mpc \in {"spawn", "idle", "arriveStart", "read", "request", "openGate", "arriveStop"}
    \/ mpc \in {"waitStart", "waitStop"} /\ Main \in startIn
MainInside ==
    (mpc = "waitStart" /\ Main \notin startIn) \/ (mpc = "waitEnd" /\ Main \in endIn)
MainBehind == mpc = "waitEnd" /\ Main \notin endIn
MainLeaving == mpc = "stopped" \/ (mpc = "waitStop" /\ Main \notin startIn)

\* The stamps of the barriers say how many trials main has counted.
MainPhase ==
    /\ Main \in startIn => mpc \in {"waitStart", "waitStop"}
    /\ Main \in endIn => mpc = "waitEnd"
    /\ MainBefore => tRelease = Trial /\ tDone = Trial
    /\ MainInside \/ MainLeaving => tRelease = Trial + 1 /\ tDone = Trial
    /\ MainBehind => tRelease = Trial + 1 /\ tDone = Trial + 1

\* A worker's laps keep pace with them: no thread is a phase ahead or behind.
WorkerPhase(w) ==
    /\ w \in startIn => wpc[w] = "waitStart"
    /\ w \in endIn => wpc[w] = "waitEnd"
    /\ Unready(w) =>
         /\ lap[w] = 0 /\ tRelease = 0 /\ tDone = 0 /\ Trial = 0
         /\ mpc \in {"spawn", "request", "openGate", "arriveStop", "waitStop"}
            \/ (wpc[w] = "unborn" /\ mpc = "thrown")
    /\ Between(w) => lap[w] = tRelease /\ tRelease = tDone
    /\ Heading(w) => lap[w] = tRelease + 1 /\ tRelease = tDone
    /\ Released(w) \/ Inside(w) \/ Leaving(w) => lap[w] = tRelease /\ tRelease = tDone + 1
    /\ Inside(w) => mpc \in {"waitStart", "waitEnd"}
    /\ Released(w) => mpc \in {"waitStart", "waitEnd", "waitStop"}
    /\ Leaving(w) => mpc \in {"waitStop", "stopped", "thrown"}
    /\ mpc = "thrown" => wpc[w] \in {"unborn", "exited"}

\* What a worker's slot and histograms hold: its lap once it has published, the
\* lap before until then, in the histogram that is not being filled.
WorkerData(w) ==
    /\ slot[w].hist \in 0..1
    /\ wpc[w] \in {"unborn", "setup", "countdown", "gate", "prep", "arriveEnd", "waitEnd"} =>
         /\ slot[w].pre = lap[w] /\ slot[w].ops = lap[w] /\ slot[w].hist = cur[w]
         /\ ok[w] => hist[w][cur[w]] = lap[w]
    /\ wpc[w] \in {"arriveStart", "waitStart", "timed"} =>
         /\ slot[w].pre + 1 = lap[w] /\ slot[w].ops + 1 = lap[w]
         /\ ok[w] => slot[w].hist = 1 - cur[w] /\ hist[w][1 - cur[w]] + 1 = lap[w]
    /\ wpc[w] = "publish" => slot[w].pre = lap[w] /\ (ok[w] => hist[w][cur[w]] = lap[w])

\* The gate has been opened once per trial begun, and each worker has passed it
\* once per lap; only an open gate lets a worker prepare.
MainGate ==
    /\ mpc \in {"spawn", "idle", "read", "request", "openGate"} => gate = Trial
    /\ mpc \in {"arriveStart", "waitStart", "waitEnd", "arriveStop", "waitStop"} => gate = Trial + 1
WorkerGate(w) ==
    /\ gateSeen[w] = IF wpc[w] = "prep" THEN lap[w] + 1 ELSE lap[w]
    /\ wpc[w] = "prep" \/ Heading(w) =>
         mpc \in {"arriveStart", "waitStart", "arriveStop", "waitStop"}

\* A stop is asked of nobody before stop(), and of everybody once main goes on.
StopAsked ==
    /\ mpc \in {"spawn", "idle", "arriveStart", "waitStart", "waitEnd", "read"} => stopReq = {}
    /\ mpc \in {"openGate", "arriveStop", "waitStop"} => Spawned \subseteq stopReq

\* The latch counts the workers that are not ready, and a failure is known before
\* the first trial.
SetupKnown ==
    /\ ready = Cardinality({w \in Workers : Unready(w)})
    /\ failed => Trial = 0 /\ mpc \in {"spawn", "request", "openGate", "arriveStop", "waitStop", "thrown"}
    /\ \A w \in Workers : ~ok[w] => failed
    /\ wpc[Lead] \notin {"unborn", "setup"} => reported \/ failed

\* The kind of trial is decided when it begins and stays right until it is counted.
TrialKinds ==
    /\ timed > 0 => warmups >= WarmupTrials /\ active >= WarmupFloor
    /\ mpc \in {"arriveStart", "waitStart", "waitEnd"} =>
         IF warmup THEN timed = 0 ELSE ~InWarmup /\ timed < Trials
    /\ mpc = "read" => Trial > 0 /\ (warmup \/ timed > 0)
    /\ results = [i \in 1..(IF mpc = "read" /\ ~warmup THEN timed - 1 ELSE timed) |-> i - 1]

\* What main has read so far is this trial's.
ReadSoFar ==
    mpc = "read" => \A w \in Workers :
        got[w] \in {NoTrial, [pre |-> Trial, ops |-> Trial, hist |-> Trial]}

\* After std::terminate there is nothing to say about the threads.
Alive ==
    /\ MainPhase /\ StopAsked /\ SetupKnown /\ ReadSoFar
    /\ park => MainGate
    /\ \A w \in Workers : WorkerPhase(w) /\ WorkerData(w) /\ (park => WorkerGate(w))

IInv ==
    /\ TypeOK /\ TrialKinds
    /\ IF mpc = "terminated" THEN ~failed /\ \A w \in Workers : wpc[w] = "exited" ELSE Alive

=============================================================================
