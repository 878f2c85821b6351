---------------------------- MODULE Coordinator ----------------------------
(***************************************************************************)
(* run_benchmarks() of engine/src/runner.cpp: the coordinator that takes a *)
(* list of configurations through their trials, one after the other with   *)
(* the clock-canary re-run rule, or interleaved, under Ctrl-C, the write   *)
(* budget and the --max-seconds deadline, and assembles the envelope.      *)
(*                                                                         *)
(* A session is the counters its coordinator sees; one trial of it is one  *)
(* step (Session models what happens inside).  The environment raises the  *)
(* abort flag and advances the clock at any moment; what the canary reads, *)
(* what a trial writes and whether a session can be set up are free.       *)
(***************************************************************************)
EXTENDS Integers, Sequences, FiniteSets

CONSTANTS Groups,         \* per configuration, the number of its metrics
          WarmupTrials,   \* cfg.warmup_trials
          Trials,         \* cfg.trials
          CanaryRetries,  \* cfg.canary_retries
          Deadlines,      \* possible deadlines; 0 means none
          Budgets,        \* possible cfg.opts.write_budget_bytes; 0 means none
          Writes,         \* what a trial may write
          MaxTime         \* bound on the clock ticks of the environment

ASSUME SpecsAssumption == Groups \in Seq(Nat \ {0}) /\ Groups # <<>>
ASSUME NumbersAssumption ==
    /\ WarmupTrials \in Nat /\ Trials \in Nat \ {0} /\ CanaryRetries \in Nat
    /\ Deadlines \subseteq Nat /\ Budgets \subseteq Nat /\ Writes \subseteq Nat
    /\ Writes # {} /\ MaxTime \in Nat

VARIABLES
    interleave, deadline, budget,   \* the run's configuration
    pc,           \* where run_benchmarks() is
    si,           \* index of the configuration in hand
    attempt,      \* attempts at it so far
    canaryStart, room,     \* the verdict on canary_start; room_to_retry
    any,          \* interleaved: a trial ran in this round
    sess,         \* per configuration, the counters of its live session
    stop,         \* the StopReason
    abort, now, written,  \* g_abort, the clock, bytes_written
    results, summary,     \* the envelope
    dropped,      \* ghost: configurations whose timed trials were discarded too
                  \* late for a re-run
    sinceAbort    \* ghost: trials started since the abort flag was raised

config   == <<interleave, deadline, budget>>
world    == <<abort, now, written>>
envelope == <<results, summary>>
ghosts   == <<dropped, sinceAbort>>
vars     == <<config, pc, si, attempt, canaryStart, room, any, sess, stop,
              world, envelope, ghosts>>

N == Len(Groups)
Fresh == [warm |-> 0, timed |-> 0]
Backoff == 1

\* The callback of `bench run`: what the flags ask for.  Selections it refuses
\* start no run.
RunConfig ==
    /\ interleave \in BOOLEAN /\ deadline \in Deadlines /\ budget \in Budgets

Init ==
    /\ RunConfig
    /\ pc = IF interleave THEN "create" ELSE "canaryStart"
    /\ si = 1 /\ attempt = 0
    /\ canaryStart = "clean" /\ room = FALSE /\ any = FALSE
    /\ sess = [i \in 1..N |-> Fresh]
    /\ stop = "none"
    /\ abort = FALSE /\ now = 0 /\ written = 0
    /\ results = <<>> /\ summary = <<>>
    /\ dropped = {} /\ sinceAbort = 0

-----------------------------------------------------------------------------
(* The environment *)

\* SIGINT: request_abort()
Interrupt ==
    /\ ~abort /\ pc \notin {"done", "threw"}
    /\ abort' = TRUE
    /\ UNCHANGED <<config, pc, si, attempt, canaryStart, room, any, sess, stop,
                   now, written, envelope, ghosts>>

\* Time passes.
Tick ==
    /\ now < MaxTime /\ pc \notin {"done", "threw"}
    /\ now' = now + 1
    /\ UNCHANGED <<config, pc, si, attempt, canaryStart, room, any, sess, stop,
                   abort, written, envelope, ghosts>>

-----------------------------------------------------------------------------
(* Shared by both modes *)

WantsMoreTrials(i) == sess[i].warm < WarmupTrials \/ sess[i].timed < Trials

Expired == deadline # 0 /\ now >= deadline

\* Mutant: the abort flag is not consulted.
DeadlineOnly ==
    IF budget > 0 /\ written >= budget THEN "write_budget"
    ELSE IF Expired THEN "timed_out"
    ELSE "none"

\* Mutant: the budget may be overrun before anybody looks.
BudgetOverrun ==
    IF abort THEN "aborted"
    ELSE IF budget > 0 /\ written > budget THEN "write_budget"
    ELSE IF Expired THEN "timed_out"
    ELSE "none"

\* should_stop(): the reason it would give now, "none" if it returns false.
ShouldStop ==
    IF abort THEN "aborted"
    ELSE IF budget > 0 /\ written >= budget THEN "write_budget"
    ELSE IF Expired THEN "timed_out"
    ELSE "none"

\* run_one_trial() of session i, once the decision to run it has been made.
RunTrial(i) ==
    /\ sess' = IF sess[i].warm < WarmupTrials
               THEN [sess EXCEPT ![i].warm = @ + 1]
               ELSE [sess EXCEPT ![i].timed = @ + 1]
    /\ \E b \in Writes : written' = written + b
    /\ sinceAbort' = IF abort THEN sinceAbort + 1 ELSE sinceAbort

Row(i, m, t) == [spec |-> i, metric |-> m, trial |-> t, attempt |-> attempt]

\* results_ of session i: trial by trial, and per trial one row per metric.
Rows(i) ==
    [k \in 1..(sess[i].timed * Groups[i]) |->
        Row(i, (k - 1) % Groups[i], (k - 1) \div Groups[i])]

Summaries(i) ==
    IF sess[i].timed = 0 THEN <<>>
    ELSE [m \in 1..Groups[i] |->
            [spec |-> i, metric |-> m - 1, n |-> sess[i].timed,
             attempts |-> attempt]]

\* Mutant: the summary is pushed even if no timed trial ran.
EmitAlways(i) ==
    /\ results' = results \o Rows(i)
    /\ summary' = summary \o
         [m \in 1..Groups[i] |->
            [spec |-> i, metric |-> m - 1, n |-> Trials, attempts |-> attempt]]

\* emit() of session i.
Emit(i) ==
    /\ results' = results \o Rows(i)
    /\ summary' = summary \o Summaries(i)

-----------------------------------------------------------------------------
(* One configuration after the other *)

\* clock_selftest() and canary_clean(): any verdict, at any time.
Verdicts == {"clean", "dirty"}

\* last_attempt, and what both canaries need for a re-run.
LastAttempt == attempt > CanaryRetries
MayRetry(canary) == canary = "dirty" /\ ~LastAttempt /\ room

RoomToRetry == deadline = 0 \/ now + Backoff < deadline

\* The canary before an attempt, and room_to_retry computed right after it.
CanaryStart ==
    /\ pc = "canaryStart"
    /\ attempt' = attempt + 1
    /\ canaryStart' \in Verdicts
    /\ room' = RoomToRetry
    /\ pc' = "begin"
    /\ UNCHANGED <<config, si, any, sess, stop, world, envelope, ghosts>>

\* A dirty canary with attempts and time to spare: wait and try again.
WaitForQuiet ==
    /\ pc = "begin" /\ MayRetry(canaryStart)
    /\ now' = now + Backoff
    /\ pc' = "canaryStart"
    /\ UNCHANGED <<config, si, attempt, canaryStart, room, any, sess, stop,
                   abort, written, envelope, ghosts>>

\* make_session(), prepare(), start(): a pool of its own for this attempt.
StartSession ==
    /\ pc = "begin" /\ ~MayRetry(canaryStart)
    /\ sess' = [sess EXCEPT ![si] = Fresh]
    /\ pc' = "loop"
    /\ UNCHANGED <<config, si, attempt, canaryStart, room, any, stop, world,
                   envelope, ghosts>>

\* prepare() or start() throws: run_benchmarks() is left by the exception and
\* the envelope with it.
StartThrows ==
    /\ \/ pc = "begin" /\ ~MayRetry(canaryStart)
       \/ pc = "create"
    /\ pc' = "threw"
    /\ UNCHANGED <<config, si, attempt, canaryStart, room, any, sess, stop,
                   world, envelope, ghosts>>

\* while (wants_more_trials() && !should_stop(stop)) ...: the decision.
CheckLoop ==
    /\ pc = "loop"
    /\ stop' = IF WantsMoreTrials(si) THEN ShouldStop ELSE stop
    /\ pc' = IF WantsMoreTrials(si) /\ stop' = "none" THEN "trial" ELSE "judge"
    /\ UNCHANGED <<config, si, attempt, canaryStart, room, any, sess, world,
                   envelope, ghosts>>

\* ... and the trial itself, which takes its time.
SequentialTrial ==
    /\ pc = "trial" /\ ~interleave
    /\ RunTrial(si)
    /\ pc' = "loop"
    /\ UNCHANGED <<config, si, attempt, canaryStart, room, any, stop, abort, now,
                   envelope, dropped>>

\* Mutant: a discarded attempt does not give its session up.
DiscardKeepingRows ==
    /\ pc = "judge" /\ stop = "none"
    /\ \E canary \in Verdicts : MayRetry(canary)
    /\ results' = results \o Rows(si)
    /\ now' = now + Backoff
    /\ pc' = "canaryStart"
    /\ UNCHANGED <<config, si, attempt, canaryStart, room, any, sess, stop,
                   abort, written, summary, ghosts>>

\* stop(), then the canary after the attempt is dirty and there is an attempt
\* left: the configuration's trials are thrown away whole.
Discard ==
    /\ pc = "judge" /\ stop = "none"
    /\ \E canary \in Verdicts : MayRetry(canary)
    /\ dropped' = IF sess[si].timed > 0 /\ ~RoomToRetry THEN dropped \cup {si} ELSE dropped
    /\ now' = now + Backoff
    /\ pc' = "canaryStart"
    /\ UNCHANGED <<config, si, attempt, canaryStart, room, any, sess, stop,
                   abort, written, envelope, sinceAbort>>

\* Mutant: the next configuration is begun although the run was stopped, and
\* a stopped run is not told from a complete one.
EmitForgettingStop ==
    /\ pc = "judge"
    /\ Emit(si)
    /\ attempt' = 0
    /\ stop' = "none"
    /\ IF si = N THEN pc' = "done" /\ si' = si
                 ELSE pc' = "canaryStart" /\ si' = si + 1
    /\ UNCHANGED <<config, canaryStart, room, any, sess, world, ghosts>>

\* Otherwise the attempt is kept: emit(), and on to the next configuration
\* unless the run was stopped.
EmitAndGoOn ==
    /\ pc = "judge"
    /\ \E canary \in Verdicts : ~(MayRetry(canary) /\ stop = "none")
    /\ Emit(si)
    /\ attempt' = 0
    /\ IF stop # "none" \/ si = N THEN pc' = "done" /\ si' = si
                                  ELSE pc' = "canaryStart" /\ si' = si + 1
    /\ UNCHANGED <<config, canaryStart, room, any, sess, stop, world, ghosts>>

-----------------------------------------------------------------------------
(* Interleaved: all sessions alive, one trial each per round *)

\* The sessions are made and started one by one, all before the first trial.
CreateSession ==
    /\ pc = "create"
    /\ attempt' = 1
    /\ IF si = N THEN pc' = "visit" /\ si' = 1 ELSE pc' = pc /\ si' = si + 1
    /\ UNCHANGED <<config, canaryStart, room, any, sess, stop, world, envelope,
                   ghosts>>

\* The inner loop's body up to the decision about session si.
Visit ==
    /\ pc = "visit" /\ si <= N
    /\ stop' = ShouldStop
    /\ IF stop' # "none" THEN pc' = "emit" /\ si' = 1
       ELSE IF WantsMoreTrials(si) THEN pc' = "trial" /\ si' = si
       ELSE pc' = pc /\ si' = si + 1
    /\ UNCHANGED <<config, attempt, canaryStart, room, any, sess, world,
                   envelope, ghosts>>

InterleavedTrial ==
    /\ pc = "trial" /\ interleave
    /\ RunTrial(si)
    /\ any' = TRUE
    /\ pc' = "visit" /\ si' = si + 1
    /\ UNCHANGED <<config, attempt, canaryStart, room, stop, abort, now,
                   envelope, dropped>>

\* Mutant: the rounds go on although nobody ran.
EndRoundForever ==
    /\ pc = "visit" /\ si > N
    /\ si' = 1 /\ any' = FALSE /\ pc' = "visit"
    /\ UNCHANGED <<config, attempt, canaryStart, room, sess, stop, world,
                   envelope, ghosts>>

\* The end of a round: another one if a trial ran in this one.
EndRound ==
    /\ pc = "visit" /\ si > N
    /\ si' = 1 /\ any' = FALSE
    /\ pc' = IF any THEN "visit" ELSE "emit"
    /\ UNCHANGED <<config, attempt, canaryStart, room, sess, stop, world,
                   envelope, ghosts>>

\* All sessions are stopped, then emitted one by one in configuration order.
EmitNext ==
    /\ pc = "emit"
    /\ Emit(si)
    /\ IF si = N THEN pc' = "done" /\ si' = si ELSE pc' = pc /\ si' = si + 1
    /\ UNCHANGED <<config, attempt, canaryStart, room, any, sess, stop, world,
                   ghosts>>

-----------------------------------------------------------------------------

Step ==
    \/ CanaryStart \/ WaitForQuiet \/ StartSession \/ StartThrows
    \/ CheckLoop \/ SequentialTrial \/ Discard \/ EmitAndGoOn
    \/ CreateSession \/ Visit \/ InterleavedTrial \/ EndRound \/ EmitNext

Over == pc \in {"done", "threw"}
Finished == Over /\ UNCHANGED vars

Next == Step \/ Interrupt \/ Tick \/ Finished

\* The coordinator keeps running; nothing forces a signal.
Spec == Init /\ [][Next]_vars /\ WF_vars(Step)

-----------------------------------------------------------------------------
(* Properties *)

\* Two rows in the order the envelope promises: by configuration, by trial
\* within it, by metric within the trial.
Before(r, s) ==
    \/ r.spec < s.spec
    \/ r.spec = s.spec /\ r.trial < s.trial
    \/ r.spec = s.spec /\ r.trial = s.trial /\ r.metric < s.metric

\* "an interleaved run must still write its results grouped by configuration,
\* and a configuration whose clock canary fails is thrown away whole": the rows
\* are strictly ordered, those of one configuration all come from one attempt,
\* and no trial before a reported one is missing.
EnvelopeWhole ==
    /\ \A k \in 1..(Len(results) - 1) : Before(results[k], results[k + 1])
    /\ \A j, k \in DOMAIN results :
         results[j].spec = results[k].spec => results[j].attempt = results[k].attempt
    /\ \A k \in DOMAIN results : \A t \in 0..results[k].trial :
         \E j \in DOMAIN results :
            results[j].spec = results[k].spec /\ results[j].trial = t

RowsOf(i, m) ==
    {k \in DOMAIN results : results[k].spec = i /\ results[k].metric = m}

\* Every metric of every configuration with rows has exactly one summary, over
\* exactly those rows and from the attempt they were measured in.
SummariesMatchRows ==
    \A i \in 1..N : \A m \in 0..(Groups[i] - 1) :
        LET S == {k \in DOMAIN summary : summary[k].spec = i /\ summary[k].metric = m}
        IN  IF RowsOf(i, m) = {} THEN S = {}
            ELSE \E k \in S : /\ S = {k}
                              /\ summary[k].n = Cardinality(RowsOf(i, m))
                              /\ \A j \in RowsOf(i, m) :
                                    results[j].attempt = summary[k].attempts

\* A run that ends without a stop reason has all trials of all configurations,
\* however often the canary made it start over.
CompleteUnlessStopped ==
    (pc = "done" /\ stop = "none") =>
        \A i \in 1..N : \A m \in 0..(Groups[i] - 1) :
            Cardinality(RowsOf(i, m)) = Trials

\* Ctrl-C stops the run at a trial boundary: the flag may come between the
\* check and the start of one trial, but no second trial starts after it.
AbortIsPrompt == sinceAbort <= 1

\* The write budget is a wear limit checked at trial boundaries: it is exceeded
\* by less than one trial's writes, over all configurations and attempts.
BudgetOvershootBounded ==
    budget > 0 => \E b \in Writes : written < budget + b

\* Ctrl-C and a spent budget take effect at the next trial boundary, whatever
\* mode, configuration or attempt the run is in.
StopsInTime == AbortIsPrompt /\ BudgetOvershootBounded

\* The run ends, with or without signals and deadlines.
Terminates == <>Over

\* "Never spend the caller's time budget waiting for a quieter host: a run under
\* --max-seconds would rather have partial data than no data": when the deadline
\* ends a run, no configuration is without rows whose complete trials were
\* discarded at a time that left no room for a re-run before the deadline.
PartialRatherThanNone ==
    (pc = "done" /\ stop = "timed_out") =>
        \A i \in dropped : \E k \in DOMAIN results : results[k].spec = i

-----------------------------------------------------------------------------
(* Why it holds: an inductive invariant, proved in CoordinatorProofs. *)

Sequential  == {"canaryStart", "begin", "loop", "trial", "judge", "done", "threw"}
Interleaved == {"create", "visit", "trial", "emit", "done", "threw"}
Reasons     == {"none", "aborted", "write_budget", "timed_out"}
Attempts    == 0..(CanaryRetries + 1)

TypeOK ==
    /\ interleave \in BOOLEAN /\ deadline \in Nat /\ budget \in Nat
    /\ pc \in IF interleave THEN Interleaved ELSE Sequential
    /\ si \in 1..(N + 1) /\ (pc # "visit" => si <= N)
    /\ attempt \in Attempts /\ (pc = "canaryStart" => attempt <= CanaryRetries)
    /\ canaryStart \in Verdicts /\ room \in BOOLEAN /\ any \in BOOLEAN
    /\ sess \in [1..N -> [warm : 0..WarmupTrials, timed : 0..Trials]]
    /\ stop \in Reasons
    /\ abort \in BOOLEAN /\ now \in Nat /\ written \in Nat
    /\ sinceAbort \in Nat
    /\ results \in Seq([spec : 1..N, metric : Nat, trial : Nat, attempt : Nat])
    /\ summary \in Seq([spec : 1..N, metric : Nat, n : Nat, attempts : Nat])

\* A trial is only under way when it was wanted, and neither the flag nor the
\* budget stood against it when that was decided.
TrialInv ==
    /\ ~abort => sinceAbort = 0
    /\ sinceAbort <= 1
    /\ pc = "trial" => /\ WantsMoreTrials(si) /\ sinceAbort = 0
                       /\ budget > 0 => written < budget
    /\ BudgetOvershootBounded

\* Only a run that has been stopped goes past a session that wants more.
StopInv ==
    /\ pc \in {"canaryStart", "begin", "loop", "trial", "create", "visit"} => stop = "none"
    /\ (pc = "judge" /\ stop = "none") => ~WantsMoreTrials(si)
    /\ (interleave /\ pc \in {"visit", "trial"} /\ ~any) =>
         \A i \in 1..(si - 1) : ~WantsMoreTrials(i)
    /\ (pc = "emit" /\ stop = "none") => \A i \in 1..N : ~WantsMoreTrials(i)
    /\ (pc = "done" /\ stop = "none") => si = N

\* The configurations that have been emitted are the first so many.
Emitted ==
    IF pc = "done" THEN si
    ELSE IF interleave /\ pc # "emit" THEN 0
    ELSE si - 1

\* The rows of configuration i are n trials of attempt a, from off on.
RowBlock(i, off, n, a) ==
    /\ \A k \in DOMAIN results :
         results[k].spec = i <=> k \in (off + 1)..(off + n * Groups[i])
    /\ off + n * Groups[i] <= Len(results)
    /\ \A k \in 1..(n * Groups[i]) : results[off + k] =
         [spec |-> i, metric |-> (k - 1) % Groups[i],
          trial |-> (k - 1) \div Groups[i], attempt |-> a]

\* Its summaries are one per metric, from off on, if there are trials at all.
SummaryBlock(i, off, n, a) ==
    LET len == IF n = 0 THEN 0 ELSE Groups[i]
    IN  /\ \A k \in DOMAIN summary :
             summary[k].spec = i <=> k \in (off + 1)..(off + len)
        /\ off + len <= Len(summary)
        /\ \A m \in 1..len : summary[off + m] =
             [spec |-> i, metric |-> m - 1, n |-> n, attempts |-> a]

Reported(i) ==
    \E n \in 0..Trials, a \in Attempts :
        /\ \E off \in 0..Len(results) : RowBlock(i, off, n, a)
        /\ \E off \in 0..Len(summary) : SummaryBlock(i, off, n, a)
        /\ stop = "none" => n = Trials

EnvelopeInv ==
    /\ \A k \in DOMAIN results : results[k].spec \in 1..Emitted
    /\ \A k \in DOMAIN summary : summary[k].spec \in 1..Emitted
    /\ \A k \in 1..(Len(results) - 1) : Before(results[k], results[k + 1])
    /\ \A i \in 1..Emitted : Reported(i)

IInv == TypeOK /\ TrialInv /\ StopInv /\ EnvelopeInv

=============================================================================
