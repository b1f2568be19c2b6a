---------------------------- MODULE MCSessionControl ----------------------------
(* An instance of SessionControl with two clients. *)
EXTENDS SessionControl, TLC
CONSTANTS m1, m2, m3
Symmetry == Permutations(Clients) \union Permutations(Messages) \union Permutations(Recoverers)
=================================================================================
