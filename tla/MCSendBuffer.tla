---------------------------- MODULE MCSendBuffer ----------------------------
(***************************************************************************)
(* Small instances of SendBuffer.                                          *)
(***************************************************************************)
EXTENDS SendBuffer, TLC

Symmetry == Permutations(Threads) \cup Permutations(Chunks)
=============================================================================
