----------------------------- MODULE MCJobQueue -----------------------------
(* Small instances of JobQueue for TLC. *)
EXTENDS JobQueue, TLC

Symmetry == Permutations(Requests) \cup Permutations(Keys) \cup Permutations(Stamps)
=============================================================================
