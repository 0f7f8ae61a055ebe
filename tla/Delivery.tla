------------------------------- MODULE Delivery --------------------------------
(***************************************************************************)
(* What the outbox promises, without workers, batches, snapshots or locks: *)
(* a committed event is dispatched, any number of times; nothing reaches   *)
(* an integration but by a dispatch; the event is delivered only when all  *)
(* integrations have got it, dead only after MaxTries tries, and the       *)
(* statuses of its deliveries confirm only what has arrived.  A try is a   *)
(* dispatch, or an outcome written without its writer learning that it is. *)
(* A status is not for ever: an outcome may replace another one, and the   *)
(* administrator opens dead events again, to be counted from zero unless   *)
(* the count is somewhere in use.  No step decides on two events but that. *)
(***************************************************************************)
EXTENDS Naturals

CONSTANTS Events,     \* events that may be committed
          Targets,    \* integrations
          MaxTries    \* tries before an event may be given up

VARIABLES state,      \* state[e]: absent, open, delivered, dead
          tries,      \* tries[e]: tries of e, counted up to MaxTries
          reached,    \* <<event, target>> pairs that have arrived
          confirmed   \* those whose delivery is marked delivered

vars == <<state, tries, reached, confirmed>>

TypeOK ==
  /\ state \in [Events -> {"absent", "open", "delivered", "dead"}]
  /\ tries \in [Events -> 0..MaxTries]
  /\ reached \subseteq Events \X Targets
  /\ confirmed \subseteq Events \X Targets

Init ==
  /\ state = [e \in Events |-> "absent"]
  /\ tries = [e \in Events |-> 0]
  /\ reached = {}
  /\ confirmed = {}

Accept(e) ==
  /\ state[e] = "absent"
  /\ state' = [state EXCEPT ![e] = "open"]
  /\ UNCHANGED <<tries, reached, confirmed>>

Tried(e) == [tries EXCEPT ![e] = IF @ < MaxTries THEN @ + 1 ELSE @]

Dispatch(e) ==
  /\ state[e] # "absent"
  /\ tries' = Tried(e)
  /\ UNCHANGED <<state, reached, confirmed>>

Arrive(e, t) ==
  /\ tries[e] > 0
  /\ reached' = reached \cup {<<e, t>>}
  /\ UNCHANGED <<state, tries, confirmed>>

\* The outcome s of a dispatch is written down, with the targets ts that got it.
Conclude(e, s, ts) ==
  /\ tries[e] > 0
  /\ s = "delivered" => \A t \in Targets : <<e, t>> \in reached
  /\ s = "dead" => tries[e] = MaxTries
  /\ \A t \in ts : <<e, t>> \in reached
  /\ state' = [state EXCEPT ![e] = s]
  /\ confirmed' = {p \in confirmed : p[1] # e} \cup {<<e, t>> : t \in ts}
  /\ tries' \in {tries, Tried(e)}
  /\ UNCHANGED reached

\* Dead events are opened again, and at most one delivery is no longer
\* confirmed.  The tries of the events in used go on where they were.
Requeue(es, used, undone) ==
  /\ \A e \in es : state[e] = "dead"
  /\ state' = [e \in Events |-> IF e \in es THEN "open" ELSE state[e]]
  /\ tries' = [e \in Events |-> IF e \in es \ used THEN 0 ELSE tries[e]]
  /\ confirmed' = confirmed \ undone
  /\ UNCHANGED reached

Next ==
  \/ \E e \in Events :
       \/ Accept(e) \/ Dispatch(e) \/ \E t \in Targets : Arrive(e, t)
       \/ \E s \in {"open", "delivered", "dead"}, ts \in SUBSET Targets : Conclude(e, s, ts)
  \/ \E es, used \in SUBSET Events,
        undone \in {{}} \cup {{p} : p \in Events \X Targets} : Requeue(es, used, undone)

Spec == Init /\ [][Next]_vars
===============================================================================
