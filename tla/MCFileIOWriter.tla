---------------------------- MODULE MCFileIOWriter ----------------------------
(***************************************************************************)
(* FileIOWriter for TLC: three pieces of data of two kinds.                *)
(***************************************************************************)
EXTENDS FileIOWriter

CONSTANTS c1, c2

MCChunks == {c1, c2}
=============================================================================
