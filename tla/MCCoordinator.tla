--------------------------- MODULE MCCoordinator ---------------------------
(***************************************************************************)
(* Coordinator for TLC: a configuration with a rider metric and one        *)
(* without, one warm-up and two timed trials each, one canary retry, with  *)
(* and without a deadline and a write budget.                              *)
(***************************************************************************)
EXTENDS Coordinator

MCGroups == <<2, 1>>
MCDeadlines == {0, 2}
MCBudgets == {0, 3}
MCWrites == {0, 1, 2}

\* --max-seconds is given and nothing is written.
MCOnlyDeadlines == {2}
MCNoBudgets == {0}
MCNoWrites == {0}

=============================================================================
