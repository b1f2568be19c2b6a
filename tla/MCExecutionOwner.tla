--------------------------- MODULE MCExecutionOwner ---------------------------
(* Instances of ExecutionOwner: two supervisor processes of one thread each. *)
EXTENDS ExecutionOwner, TLC
CONSTANTS t1, t2, p1, p2
MCProcessOf == (t1 :> p1) @@ (t2 :> p2)
Both == {TRUE, FALSE}
Symmetry == Permutations(Children)
===============================================================================
