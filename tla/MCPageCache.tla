---------------------------- MODULE MCPageCache ----------------------------
(* Small instances of PageCache for TLC. *)
EXTENDS PageCache, TLC

Symmetry == Permutations(Editors) \cup Permutations(Workers) \cup Permutations(EditText)
=============================================================================
