-------------------------- MODULE MCInpaintSupervisor --------------------------
(* Small instances of InpaintSupervisor for TLC. *)
EXTENDS InpaintSupervisor
=============================================================================
