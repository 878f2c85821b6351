------------------------------ MODULE RunStore ------------------------------
(***************************************************************************)
(* What POST /v1/runs promises, whatever happens to the requests on the    *)
(* way: the measurements of a run are a set of rows, and the only thing    *)
(* that ever happens to the store is that one chunk of one run is added to *)
(* it as a whole.  Storing a chunk again changes nothing.                  *)
(***************************************************************************)
CONSTANTS Runs,         \* run ids
          ChunksOf(_)   \* the sets of rows a POST may carry for a run

VARIABLE rows           \* the stored measurements

Init == rows = {}

StoreChunk(run) == \E c \in ChunksOf(run) : rows' = rows \cup c

Next == \E run \in Runs : StoreChunk(run)

Spec == Init /\ [][Next]_rows

=============================================================================
