----------------------------- MODULE MCSession -----------------------------
(***************************************************************************)
(* Session for TLC: three workers, one warm-up trial at least and two      *)
(* units of warm-up time (so that a second warm-up may or may not be       *)
(* needed), two timed trials (the second reuses the histogram of the       *)
(* warm-up).                                                               *)
(***************************************************************************)
EXTENDS Session

CONSTANTS w1, w2, w3

MCWorkers == {w1, w2, w3}
MCDurations == {1, 2}

=============================================================================
