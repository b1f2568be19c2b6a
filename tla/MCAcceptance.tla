---------------------------- MODULE MCAcceptance ----------------------------
(* An instance of Acceptance: the same run accepted by several processes. *)
EXTENDS Acceptance, TLC
Symmetry == Permutations(Acceptors) \union Permutations(Externals)
=============================================================================
