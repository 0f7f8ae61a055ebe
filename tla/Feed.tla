--------------------------------- MODULE Feed ---------------------------------
(***************************************************************************)
(* The life of a message as the sockets see it: what the hub takes from    *)
(* the message service, and all it takes from it.  A message enters its    *)
(* conversation with the next sequence number, either stored at once or    *)
(* staged, that is known to its sender's worker before the COMMIT; a       *)
(* staged message is stored or aborted; while one is staged nothing enters *)
(* its conversation.  The number of an aborted message is given again.     *)
(***************************************************************************)
EXTENDS Naturals

CONSTANTS Messages,   \* messages that may be sent
          Convs,      \* conversations
          None        \* no conversation yet

VARIABLES phase,      \* phase[m]: unsent, staged, stored, aborted
          num,        \* num[m]: its sequence number, 0 while unsent
          place       \* place[m]: its conversation, None while unsent

vars == <<phase, num, place>>

TypeOK ==
  /\ phase \in [Messages -> {"unsent", "staged", "stored", "aborted"}]
  /\ num \in [Messages -> Nat]
  /\ place \in [Messages -> Convs \cup {None}]

Init ==
  /\ phase = [m \in Messages |-> "unsent"]
  /\ num = [m \in Messages |-> 0]
  /\ place = [m \in Messages |-> None]

Numbers(v) == {num[m] : m \in {n \in Messages : phase[n] = "stored" /\ place[n] = v}}
Last(v) == CHOOSE n \in Numbers(v) \cup {0} : \A s \in Numbers(v) : s <= n

\* Message m enters conversation v.
Enter(m, v) ==
  /\ phase[m] = "unsent"
  /\ ~\E n \in Messages : phase[n] = "staged" /\ place[n] = v
  /\ \E p \in {"staged", "stored"} : phase' = [phase EXCEPT ![m] = p]
  /\ num' = [num EXCEPT ![m] = Last(v) + 1]
  /\ place' = [place EXCEPT ![m] = v]

Store(m) ==
  /\ phase[m] = "staged"
  /\ phase' = [phase EXCEPT ![m] = "stored"]
  /\ UNCHANGED <<num, place>>

\* A transaction fails, or a worker dies with all of its own.
Abort(ms) ==
  /\ \A m \in ms : phase[m] = "staged"
  /\ phase' = [m \in Messages |-> IF m \in ms THEN "aborted" ELSE phase[m]]
  /\ UNCHANGED <<num, place>>

Next ==
  \/ \E m \in Messages : Store(m) \/ \E v \in Convs : Enter(m, v)
  \/ \E ms \in SUBSET Messages : Abort(ms)

Spec == Init /\ [][Next]_vars
===============================================================================
