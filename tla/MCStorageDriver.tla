-------------------------- MODULE MCStorageDriver --------------------------
(***************************************************************************)
(* Instances of StorageDriver for TLC: three lines of two bytes, two lines *)
(* to a word of the mask.                                                  *)
(***************************************************************************)
EXTENDS StorageDriver

\* Inside a line, across two lines of a word, up to the end of the storage, and
\* one byte too far.
MCBlocks == {<<0, 1>>, <<1, 2>>, <<4, 2>>, <<5, 2>>}
=============================================================================
