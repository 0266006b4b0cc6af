-------------------------- MODULE MCSessionChannel --------------------------
(***************************************************************************)
(* Small instances of SessionChannel: a few sessions and commands.  The    *)
(* pages are model values: which one is which makes no difference.         *)
(***************************************************************************)
EXTENDS SessionChannel, TLC

CONSTANTS edit, color

Symmetry == Permutations(Pages)
=============================================================================
