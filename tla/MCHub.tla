-------------------------------- MODULE MCHub ---------------------------------
(* TLC instances of Hub. *)
EXTENDS Hub, TLC

\* Workers are interchangeable, and so are the messages of one kind of entry.
Symmetry ==
  Permutations(Workers) \cup Permutations(Rest) \cup Permutations(Messages \ Rest)

\* Every client is used by one and the same user.
OneUser == [c \in Clients |-> CHOOSE d \in Clients : TRUE]
===============================================================================
