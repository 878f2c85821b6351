------------------------------ MODULE Barrier ------------------------------
(***************************************************************************)
(* What a reusable barrier promises to its participants, in the terms the  *)
(* engine's worker pool uses it: a participant that has arrived stays      *)
(* blocked until every participant has arrived, and then all of them are   *)
(* released in one step, which also empties the barrier for the next       *)
(* phase.  SpinBarrier implements this specification with two atomics;     *)
(* Session uses it for the start and the end barrier of a trial.           *)
(***************************************************************************)

CONSTANT Procs      \* the participants (n_ of them)

VARIABLE in         \* the participants blocked in the current phase

Init == in = {}

\* A participant outside the barrier arrives and is blocked.
Arrive(p) ==
    /\ p \notin in
    /\ in' = in \cup {p}

\* The phase completes: only when everybody is in, and for everybody at once.
Release ==
    /\ in = Procs
    /\ in' = {}

Next == Release \/ \E p \in Procs : Arrive(p)

\* The safety half: a phase is left by everybody or by nobody.
Safety == Init /\ [][Next]_in

\* ... and a phase in which everybody has arrived does complete.
Spec == Safety /\ WF_in(Release)

=============================================================================
