---------------------------- MODULE MCOutboxWorker ----------------------------
(***************************************************************************)
(* Instances of OutboxWorker for TLC.                                      *)
(***************************************************************************)
EXTENDS OutboxWorker, TLC

CONSTANTS w1, w2, discord, hook, webhook

OneEvent == {1}
TwoEvents == {1, 2}
\* Discord is enabled and one endpoint is registered, as "webhook:hook".
Route == {discord, hook}
HookOnly == {hook}
InsertedRows == {discord, webhook}
Symmetry == Permutations({w1, w2})
===============================================================================
