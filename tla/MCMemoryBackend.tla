--------------------------- MODULE MCMemoryBackend ---------------------------
(***************************************************************************)
(* The memory backend on a small instance; times are in milliseconds.      *)
(***************************************************************************)
EXTENDS MemoryBackend
=============================================================================
