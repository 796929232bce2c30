-------------------------- MODULE MCOfflineWriter --------------------------
(* Three children are the least that lets one be turned away as busy; two are *)
(* enough for every interleaving of a caller with the one before it.          *)
EXTENDS OfflineWriter, TLC

Symmetry == Permutations(Child)
=============================================================================
