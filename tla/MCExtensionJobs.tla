---------------------------- MODULE MCExtensionJobs ----------------------------
EXTENDS ExtensionJobs, TLC

CONSTANTS r1, r2, j1

(* Two tabs on one page share a job. *)
SharedJob == (r1 :> j1) @@ (r2 :> j1)

=============================================================================
