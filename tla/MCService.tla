----------------------------- MODULE MCService ------------------------------
(***************************************************************************)
(* Service for TLC: two requests that compete for one connection of the    *)
(* pool, and two migrators.                                                *)
(***************************************************************************)
EXTENDS Service

CONSTANTS q1, q2, up1, up2

MCRequests == {q1, q2}
MCMigrators == {up1, up2}

=============================================================================
