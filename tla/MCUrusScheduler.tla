-------------------------- MODULE MCUrusScheduler --------------------------
(***************************************************************************)
(* Instances of UrusScheduler for TLC.                                     *)
(***************************************************************************)
EXTENDS UrusScheduler
=============================================================================
