----------------------------- MODULE MCUpload -----------------------------
(***************************************************************************)
(* Upload for TLC: two runs of one machine, the older one possibly stored  *)
(* last, up to three requests on the server.  Run a is sent in two chunks  *)
(* to a host with two addresses and posted up to twice; its first chunk    *)
(* repeats a key across two batches, the second overlaps the first.        *)
(***************************************************************************)
EXTENDS Upload

CONSTANTS p1, p2, p3

MCRequests == {p1, p2, p3}
MCRuns == {"a", "b"}
MCMachineOf == [r \in MCRuns |-> "m"]
MCStarted == [r \in MCRuns |-> IF r = "a" THEN 3 ELSE 1]
MCFinished == [r \in MCRuns |-> IF r = "a" THEN 4 ELSE 2]
MCChunks == [r \in MCRuns |-> IF r = "a" THEN << <<1, 2, 1, 3>>, <<2, 3>> >>
                                         ELSE << <<1>> >>]
MCAddresses == [r \in MCRuns |-> IF r = "a" THEN 2 ELSE 1]
MCMaxPosts == [r \in MCRuns |-> IF r = "a" THEN 2 ELSE 1]

=============================================================================
