---------------------------- MODULE SpinBarrier ----------------------------
(***************************************************************************)
(* bench::SpinBarrier (engine/include/bench/sync.hpp): the spinning        *)
(* barrier that starts and ends every trial.  One action per atomic access *)
(* of arrive() and of the spin loop, for participants that call            *)
(* arrive_and_wait() over and over, as the workers and the main thread do. *)
(*                                                                         *)
(* generation_ is an unsigned 64-bit counter that wraps.  Its width is the *)
(* parameter Modulus (2^64 in the code): the barrier only ever compares    *)
(* generations for equality, so the model keeps the wrap-around and checks *)
(* it with the smallest modulus, where it happens in every other phase.    *)
(***************************************************************************)
EXTENDS Integers, FiniteSets

CONSTANTS Procs,    \* the threads that take part; n_ is their number
          Modulus   \* generation_ counts modulo this

ASSUME ProcsAssumption == IsFiniteSet(Procs) /\ Procs # {}
ASSUME ModulusAssumption == Modulus \in Nat /\ Modulus >= 2

VARIABLES count,        \* count_
          generation,   \* generation_
          pc,           \* where each participant is in arrive_and_wait()
          gen,          \* the local `gen` of arrive()
          stamped       \* ghost: the completion has run in this generation

vars == <<count, generation, pc, gen, stamped>>

n == Cardinality(Procs)

Init ==
    /\ count = n
    /\ generation = 0
    /\ pc = [p \in Procs |-> "outside"]
    /\ gen = [p \in Procs |-> 0]
    /\ stamped = FALSE

-----------------------------------------------------------------------------
(* arrive() *)

\* const gen = generation_.load(acquire)
LoadGeneration(p) ==
    /\ pc[p] = "outside"
    /\ gen' = [gen EXCEPT ![p] = generation]
    /\ pc' = [pc EXCEPT ![p] = "decrement"]
    /\ UNCHANGED <<count, generation, stamped>>

\* Mutants: the leader is picked one arrival too early; completion_ skipped.
DecrementEarlyLeader(p) ==
    /\ pc[p] = "decrement"
    /\ count' = count - 1
    /\ pc' = [pc EXCEPT ![p] = IF count <= 2 THEN "complete" ELSE "spin"]
    /\ UNCHANGED <<generation, gen, stamped>>

DecrementSkipCompletion(p) ==
    /\ pc[p] = "decrement"
    /\ count' = count - 1
    /\ pc' = [pc EXCEPT ![p] = IF count = 1 THEN "reset" ELSE "spin"]
    /\ UNCHANGED <<generation, gen, stamped>>

\* count_.fetch_sub(1) == 1 picks the last arriver; the others go and spin.
Decrement(p) ==
    /\ pc[p] = "decrement"
    /\ count' = count - 1
    /\ pc' = [pc EXCEPT ![p] = IF count = 1 THEN "complete" ELSE "spin"]
    /\ UNCHANGED <<generation, gen, stamped>>

\* completion_(): the last arriver stamps t_release_ or t_done_.
Complete(p) ==
    /\ pc[p] = "complete"
    /\ stamped' = TRUE
    /\ pc' = [pc EXCEPT ![p] = "reset"]
    /\ UNCHANGED <<count, generation, gen>>

\* count_.store(n_), before the bump.
Reset(p) ==
    /\ pc[p] = "reset"
    /\ count' = n
    /\ pc' = [pc EXCEPT ![p] = "bump"]
    /\ UNCHANGED <<generation, gen, stamped>>

\* generation_.fetch_add(1): releases every waiter and opens the next phase,
\* in which the completion has not run yet.
Bump(p) ==
    /\ pc[p] = "bump"
    /\ generation' = (generation + 1) % Modulus
    /\ stamped' = FALSE
    /\ pc' = [pc EXCEPT ![p] = "spin"]
    /\ UNCHANGED <<count, gen>>

(* arrive_and_wait(), arrive_and_wait_polling() *)

\* Mutant: waits for a greater generation, which a wrap never shows.
LeaveWhenGreater(p) ==
    /\ pc[p] = "spin"
    /\ generation > gen[p]
    /\ pc' = [pc EXCEPT ![p] = "outside"]
    /\ UNCHANGED <<count, generation, gen, stamped>>

\* The loop ends when generation_ differs from the generation arrived in.
Leave(p) ==
    /\ pc[p] = "spin"
    /\ generation # gen[p]
    /\ pc' = [pc EXCEPT ![p] = "outside"]
    /\ UNCHANGED <<count, generation, gen, stamped>>

\* The steps a thread that has called arrive_and_wait() takes by itself.
Proceed(p) ==
    Decrement(p) \/ Complete(p) \/ Reset(p) \/ Bump(p) \/ Leave(p)

Next == \E p \in Procs : LoadGeneration(p) \/ Proceed(p)

\* A thread inside the barrier keeps running: it spins or polls, it never
\* blocks on another thread's lock.  Whether it calls again is its caller's
\* business, so LoadGeneration is not fair.
Fairness == \A p \in Procs : WF_vars(Proceed(p))

Spec == Init /\ [][Next]_vars /\ Fairness

-----------------------------------------------------------------------------
(* Properties *)

PCs == {"outside", "decrement", "complete", "reset", "bump", "spin"}

TypeOK ==
    /\ count \in 0..n
    /\ generation \in 0..(Modulus - 1)
    /\ pc \in [Procs -> PCs]
    /\ gen \in [Procs -> 0..(Modulus - 1)]
    /\ stamped \in BOOLEAN

\* The last arriver, between its decrement and the bump.
Leading(p) == pc[p] \in {"complete", "reset", "bump"}

\* p has arrived in the current phase and has not been released from it.
Arrived(p) == Leading(p) \/ (pc[p] = "spin" /\ gen[p] = generation)

\* The barrier is exact at every wrap of generation_ and at every reset of
\* count_: there is never more than one thread completing a phase, and while
\* there is one every participant is blocked inside that very phase.
SoleLeader ==
    \A p \in Procs : Leading(p) =>
        \A q \in Procs : Arrived(q) /\ (Leading(q) => q = p)

\* Nobody is released without the completion having run: the waiters go on
\* only after t_release_ or t_done_ of their phase has been stamped.
StampBeforeRelease ==
    [][generation' # generation => stamped]_vars

\* sync.hpp, "before the bump: next phase sees a full count": whenever no
\* phase is being completed, count_ is the number of participants that have
\* still to arrive, so a fast thread that re-enters at once counts correctly.
CountIsMissing ==
    (\A p \in Procs : ~Leading(p)) =>
        count = Cardinality({p \in Procs : ~Arrived(p)})

\* What makes it a barrier: SpinBarrier implements Barrier, where a phase is
\* left by all or by nobody.  A thread released but not yet past its last
\* load of generation_ counts as outside.
B == INSTANCE Barrier WITH in <- {p \in Procs : Arrived(p)}
ImplementsBarrier == B!Spec

\* Once everybody has called arrive_and_wait() in a phase, each of them gets
\* out: no arrival is forgotten and no waiter misses the bump (liveness of the
\* spin loop, including at the wrap of generation_).
EveryoneReleased ==
    \A p \in Procs :
        (\A q \in Procs : pc[q] = "decrement" \/ Arrived(q)) ~> (pc[p] = "outside")

-----------------------------------------------------------------------------
(* The inductive invariant behind the three invariants above *)

\* A participant's loaded generation is current until it has decremented, and
\* the leader's until it has bumped: the load and the decrement are two steps,
\* but no phase can end between them without this participant.
GenCurrent ==
    \A p \in Procs :
        pc[p] \in {"decrement", "complete", "reset", "bump"} => gen[p] = generation

\* count_ while a phase is being completed, and the ghost stamp with it.
LeaderCount ==
    \A p \in Procs :
        /\ pc[p] \in {"complete", "reset"} => count = 0
        /\ pc[p] = "bump" => count = n
        /\ pc[p] \in {"reset", "bump"} => stamped

\* Everything one step needs to know about the states before it.
IInv ==
    /\ TypeOK
    /\ GenCurrent
    /\ LeaderCount
    /\ SoleLeader
    /\ CountIsMissing

=============================================================================
