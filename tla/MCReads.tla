------------------------------ MODULE MCReads ------------------------------
(***************************************************************************)
(* Reads for TLC: a run of four and one of three trials of the same        *)
(* configuration, whose ingests overlap, and pages of two rows.            *)
(***************************************************************************)
EXTENDS Reads

CONSTANTS t1, t2

MCTxns == {t1, t2}
MCRowsOf == [t \in MCTxns |->
    [k \in 1..(IF t = t1 THEN 4 ELSE 3) |->
        [trial |-> k - 1, at |-> IF t = t1 THEN k ELSE k + 4]]]
MCValues == {0, 1}
MCThresholds == {0, 3, 5}

=============================================================================
