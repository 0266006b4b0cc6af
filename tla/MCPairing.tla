----------------------------- MODULE MCPairing -----------------------------
(***************************************************************************)
(* Small instances of Pairing: a Mac, and one or two phones that scan the  *)
(* code it shows.                                                          *)
(***************************************************************************)
EXTENDS Pairing, TLC

Symmetry == Permutations(Invocation) \cup Permutations(Phone)
=============================================================================
