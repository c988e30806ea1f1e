--------------------------- MODULE MCFlashStorage ---------------------------
(***************************************************************************)
(* Instances of FlashStorage for TLC: one-cell blocks and headers, two     *)
(* bytes of storage.                                                       *)
(***************************************************************************)
EXTENDS FlashStorage

\* The two bytes, saved one at a time or together (two chunks of MaxWrite = 1).
MCRanges == {<<0, 1>>, <<1, 1>>, <<0, 2>>}
MCWhole == {<<0, 2>>, <<1, 1>>}
\* One byte, for the run with program faults.
MCByte == {<<0, 1>>}
=============================================================================
