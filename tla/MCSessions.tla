------------------------------ MODULE MCSessions ------------------------------
(* TLC instances of Sessions. *)
EXTENDS Sessions, TLC

\* Calls are interchangeable.
Symmetry == Permutations(Calls)
===============================================================================
