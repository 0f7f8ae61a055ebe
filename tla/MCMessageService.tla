--------------------------- MODULE MCMessageService ---------------------------
(* TLC instances of MessageService. *)
EXTENDS MessageService, TLC

\* Calls, workers, client ids and sessions are interchangeable: no definition
\* orders or names one.
Symmetry ==
  Permutations(Calls) \cup Permutations(Workers) \cup Permutations(ClientIds)
  \cup Permutations(Sessions)
===============================================================================
