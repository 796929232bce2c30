------------------------ MODULE MCCommitTransaction ------------------------
(* Two requests show what the first leaves behind for the second; every kind *)
(* of request, and every fault of a run, may hit either.  A third request    *)
(* may change the lists again while the remote is pulling.                   *)
EXTENDS CommitTransaction

MCTxn == 1..2
MCThreeTxn == 1..3
=============================================================================
