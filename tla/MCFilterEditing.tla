--------------------------- MODULE MCFilterEditing ---------------------------
(* The values that a field may hold are interchangeable.                   *)
EXTENDS FilterEditing, TLC
Interchangeable == Permutations(Values)
=============================================================================
