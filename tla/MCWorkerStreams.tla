--------------------------- MODULE MCWorkerStreams ---------------------------
(* Small instances of WorkerStreams for TLC. *)
EXTENDS WorkerStreams, TLC

Symmetry == Permutations(Jobs) \cup Permutations(Workers)
=============================================================================
