--------------------------- MODULE MCActivitySave ---------------------------
(* Two clients, each an editor, a sync or a Touch screen.  An edit changes   *)
(* nothing, one list or all three; the function list is the last to be read *)
(* and written, so an edit of it alone is the one a torn read is most likely *)
(* to miss.                                                                  *)
EXTENDS ActivitySave, TLC

MCEditShapes == {{}, {"FunctionList"}, List}

Symmetry == Permutations(Client)
=============================================================================
