--------------------------- MODULE MCHoldToRepeat ---------------------------
(* HoldToRepeat on small instances. *)
EXTENDS HoldToRepeat, TLC

Symmetry == Permutations(Hold)
=============================================================================
