---------------------------- MODULE MCCacheAside ----------------------------
(***************************************************************************)
(* CacheAside for TLC: a comparison of A and B, and the aggregate asked    *)
(* for with both machines in the URL, in either order.  Lifetimes are      *)
(* scaled to one tick for a key, two for its key set and one for the       *)
(* cooldown.                                                               *)
(***************************************************************************)
EXTENDS CacheAside

CONSTANTS h1, h2

TwoHandlers == {h1, h2}
MCMachines == {"A", "B"}
MixedQueries == {
    [endpoint |-> "aggregates", machines |-> <<"A", "B">>],
    [endpoint |-> "aggregates", machines |-> <<"B", "A">>] }
MCQueries == MixedQueries \cup {[endpoint |-> "compare", machines |-> <<"A", "B">>]}

=============================================================================
