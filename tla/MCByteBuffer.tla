---------------------------- MODULE MCByteBuffer ----------------------------
(***************************************************************************)
(* Instances of ByteBuffer for TLC.                                        *)
(***************************************************************************)
EXTENDS ByteBuffer
=============================================================================
