----------------------------- MODULE MCDiskFile -----------------------------
(***************************************************************************)
(* DiskFile for TLC: runs of one or two configurations.  Sequential        *)
(* streams of three blocks (two threads and seven blocks, of which the     *)
(* last is nobody's) and of two blocks move and wrap, also on one file of  *)
(* one size; one configuration has more threads than blocks; two are       *)
(* random.                                                                 *)
(***************************************************************************)
EXTENDS DiskFile

MCConfigs == {
    [kind |-> "seq_read",   threads |-> 2, ws |-> 15],
    [kind |-> "seq_write",  threads |-> 3, ws |-> 14],
    [kind |-> "seq_write",  threads |-> 2, ws |-> 9],
    [kind |-> "seq_read",   threads |-> 3, ws |-> 5],
    [kind |-> "rand_read",  threads |-> 1, ws |-> 0],
    [kind |-> "rand_write", threads |-> 1, ws |-> 4] }
MCPrepSizes == {1, 7}

=============================================================================
