------------------------------ MODULE MessageLog ------------------------------
(***************************************************************************)
(* What MessageService promises its callers, without locks, transactions,  *)
(* workers or crashes: every conversation is one append-only log, a call   *)
(* adds its message at the end unless the log already holds the client id, *)
(* and a call that is answered is answered with the place of its client id *)
(* in the log.  The sequence number of a message is its position.          *)
(***************************************************************************)
EXTENDS Naturals, Sequences

CONSTANTS Calls,      \* invocations of send_message
          Convs,      \* conversations
          ClientIds,  \* client_message_id values
          None        \* no answer yet

VARIABLES log,        \* log[v]: the messages of conversation v in order
          answer      \* answer[c]: what call c was told, or None

vars == <<log, answer>>

Entry == [id : Calls, cid : ClientIds]
Answer == [conv : Convs, cid : ClientIds, seq : Nat \ {0}]

TypeOK ==
  /\ log \in [Convs -> Seq(Entry)]
  /\ answer \in [Calls -> Answer \cup {None}]

Init ==
  /\ log = [v \in Convs |-> <<>>]
  /\ answer = [c \in Calls |-> None]

\* A new message goes to the end of its log and nowhere else.
Append1(c, v, k) ==
  /\ \A n \in DOMAIN log[v] : log[v][n].cid # k
  /\ log' = [log EXCEPT ![v] = Append(@, [id |-> c, cid |-> k])]

\* A call is told where its client id stands in the log as this step leaves it.
Tell(c, v, k) ==
  /\ answer[c] = None
  /\ \E n \in DOMAIN log'[v] :
        /\ log'[v][n].cid = k
        /\ answer' = [answer EXCEPT ![c] = [conv |-> v, cid |-> k, seq |-> n]]

Next ==
  \E c \in Calls, v \in Convs, k \in ClientIds :
     \/ Append1(c, v, k) /\ (answer' = answer \/ Tell(c, v, k))
     \/ log' = log /\ Tell(c, v, k)

Spec == Init /\ [][Next]_vars
===============================================================================
