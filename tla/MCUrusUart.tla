----------------------------- MODULE MCUrusUart -----------------------------
(***************************************************************************)
(* Instances of UrusUart for TLC.                                          *)
(***************************************************************************)
EXTENDS UrusUart
=============================================================================
