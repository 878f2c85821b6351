--------------------------- MODULE MCSpinBarrier ---------------------------
(***************************************************************************)
(* SpinBarrier for TLC: a main thread and two workers, with a generation   *)
(* counter of one bit so that it wraps in every second phase.  The state   *)
(* space is finite without any bound on the number of phases.              *)
(***************************************************************************)
EXTENDS SpinBarrier

CONSTANTS main, w1, w2

MCProcs == {main, w1, w2}
MCModulus == 2

=============================================================================
