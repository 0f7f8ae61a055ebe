----------------------------- MODULE OutboxWorker -----------------------------
(***************************************************************************)
(* OutboxWorker.process_batch, IntegrationRouter.route_event and the       *)
(* administrator's retry_delivery.  Every uvicorn process runs one worker  *)
(* on the same table.  A worker reads a batch of ready events once and     *)
(* keeps those objects (expire_on_commit is off) while it dispatches them  *)
(* one by one, so what it writes back is computed from its snapshot.       *)
(*                                                                         *)
(* The status "processing" is flushed and replaced within one transaction: *)
(* no other session ever sees it, it only makes the row's lock (Postgres)  *)
(* or the database's write lock (SQLite) held until that event's COMMIT.   *)
(***************************************************************************)
EXTENDS Naturals, FiniteSets

CONSTANTS
  Events,       \* outbox events, numbered by created_at
  Workers,      \* uvicorn worker processes, each with its OutboxWorker
  Targets,      \* what route_event dispatches to: discord, webhook:<name>, ...
  Initial,      \* integrations send_message inserts a delivery row for
  BatchSize,    \* limit of the poll query
  MaxRetries,   \* OutboxEvent.max_retries
  MaxFaults,    \* bound: crashes, busy databases and lost connections
  MaxResets,    \* bound: calls of retry_delivery
  SingleWriter, \* TRUE: SQLite, one open write transaction in the database
  None          \* no event, no snapshot

ASSUME EventsAssumption == Events \subseteq Nat
\* created_at orders the events: of any of them, one is the oldest.
ASSUME OldestAssumption ==
  \A S \in SUBSET Events : S # {} => \E e \in S : \A d \in S : e <= d
ASSUME WorkersAssumption == IsFiniteSet(Workers)
ASSUME LimitsAssumption ==
  BatchSize \in Nat \ {0} /\ MaxRetries \in Nat \ {0} /\ MaxFaults \in Nat /\ MaxResets \in Nat
ASSUME BackendAssumption == SingleWriter \in BOOLEAN

VARIABLES
  row,       \* row[e]: the committed row of outbox_events
  delivery,  \* delivery[e][t]: the status of the committed message_deliveries row
  pc,        \* pc[w]: where worker w is in process_batch
  seen,      \* seen[w][e]: the snapshot of an event still to do in w's batch
  marks,     \* marks[w]: delivery statuses w has written and not committed
  received,  \* <<event, target>> pairs that reached their integration
  tried,     \* tried[e]: dispatches of e since it was opened, up to MaxRetries
  lost,      \* lost[e]: outcomes of e since then whose COMMIT raised all the same
  raced,     \* events opened again while a worker had an old object of theirs
  faults,    \* faults so far
  resets,    \* calls of retry_delivery so far
  asked      \* the event whose delivery the administrator retried last

counts == <<tried, lost, raced>>
vars == <<row, delivery, pc, seen, marks, received, counts, faults, resets, asked>>

\* "none": no row yet.  "failed" is the dead-letter state of an event.
Statuses == {"none", "pending", "retrying", "delivered", "failed"}
Row == [status : Statuses, retry : Nat, due : BOOLEAN]
Snapshot == [status : Statuses, retry : Nat]
Rows == Targets \cup Initial
Marks == Targets \X {"delivered", "failed"}

ASSUME NoneAssumption == None \notin Snapshot

TypeOK ==
  /\ row \in [Events -> Row]
  /\ delivery \in [Events -> [Rows -> {"none", "queued", "delivered", "failed"}]]
  /\ pc \in [Workers -> {"idle", "batch", "routing", "raised", "marking"}]
  /\ seen \in [Workers -> [Events -> Snapshot \cup {None}]]
  /\ marks \in [Workers -> SUBSET Marks]
  /\ received \subseteq Events \X Targets
  /\ tried \in [Events -> 0..MaxRetries]
  /\ lost \in [Events -> Nat]
  /\ raced \subseteq Events
  /\ faults \in 0..MaxFaults
  /\ resets \in 0..MaxResets
  /\ asked \in Events \cup {None}

Unseen == [e \in Events |-> None]

Init ==
  /\ row = [e \in Events |-> [status |-> "none", retry |-> 0, due |-> FALSE]]
  /\ delivery = [e \in Events |-> [t \in Rows |-> "none"]]
  /\ pc = [w \in Workers |-> "idle"]
  /\ seen = [w \in Workers |-> Unseen]
  /\ marks = [w \in Workers |-> {}]
  /\ received = {}
  /\ tried = [e \in Events |-> 0]
  /\ lost = [e \in Events |-> 0]
  /\ raced = {}
  /\ faults = 0
  /\ resets = 0
  /\ asked = None

-------------------------------------------------------------------------------
Batch(w) == {e \in Events : seen[w][e] # None}
Oldest(S) == CHOOSE e \in S : \A d \in S : e <= d
\* The event worker w has in hand: batches run in order of created_at.
Current(w) == Oldest(Batch(w))
SnapshotOf(e) == [status |-> row[e].status, retry |-> row[e].retry]

\* WHERE status IN ('pending', 'retrying') AND next_attempt_at <= now.
Ready == {e \in Events : row[e].status \in {"pending", "retrying"} /\ row[e].due}
FirstOf(S, n) == {e \in S : Cardinality({d \in S : d < e}) < n}

\* The open transaction of a routing worker locks its event's row, or the
\* database.
Locked(e, w) == \E x \in Workers \ {w} : pc[x] = "routing" /\ (SingleWriter \/ Current(x) = e)

\* Mutant of Failures: one success is enough.
FailuresAny(w) == IF \E t \in Targets : <<t, "delivered">> \in marks[w] THEN {}
                  ELSE {t \in Targets : <<t, "failed">> \in marks[w]}
Failures(w) == {t \in Targets : <<t, "failed">> \in marks[w]}
Left(w) == {t \in Targets : \A s \in {"delivered", "failed"} : <<t, s>> \notin marks[w]}

\* The worker is done with its batch, whether it finished or gave up.
Idle(w) ==
  /\ pc' = [pc EXCEPT ![w] = "idle"]
  /\ seen' = [seen EXCEPT ![w] = Unseen]
  /\ marks' = [marks EXCEPT ![w] = {}]
Fault == faults < MaxFaults /\ faults' = faults + 1

-------------------------------------------------------------------------------
\* send_message's transaction commits: an event and its message's delivery rows.
Emit(e) ==
  /\ row[e].status = "none"
  /\ row' = [row EXCEPT ![e] = [status |-> "pending", retry |-> 0, due |-> TRUE]]
  /\ delivery' = [delivery EXCEPT ![e] =
                    [t \in Rows |-> IF t \in Initial THEN "queued" ELSE "none"]]
  /\ UNCHANGED <<pc, seen, marks, received, counts, faults, resets, asked>>

\* next_attempt_at passes.
Wake(e) ==
  /\ row[e].status \in {"pending", "retrying"} /\ ~row[e].due
  /\ row' = [row EXCEPT ![e].due = TRUE]
  /\ UNCHANGED <<delivery, pc, seen, marks, received, counts, faults, resets, asked>>

Poll(w) ==
  /\ pc[w] = "idle" /\ Ready # {}
  /\ pc' = [pc EXCEPT ![w] = "batch"]
  /\ seen' = [seen EXCEPT ![w] =
       [e \in Events |-> IF e \in FirstOf(Ready, BatchSize) THEN SnapshotOf(e) ELSE None]]
  /\ UNCHANGED <<row, delivery, marks, received, counts, faults, resets, asked>>

\* Mutant of Claim: "processing" is committed before the dispatch.
ClaimCommitted(w) ==
  /\ pc[w] = "batch"
  /\ ~Locked(Current(w), w)
  /\ pc' = [pc EXCEPT ![w] = "routing"]
  /\ row' = [row EXCEPT ![Current(w)].status = "processing"]
  /\ tried' = [tried EXCEPT ![Current(w)] = IF @ < MaxRetries THEN @ + 1 ELSE @]
  /\ UNCHANGED <<delivery, seen, marks, received, lost, raced, faults, resets, asked>>

\* UPDATE ... SET status = 'processing': waits for the row's lock, and does not
\* look at the status another worker has committed since the poll.
Claim(w) ==
  /\ pc[w] = "batch"
  /\ ~Locked(Current(w), w)
  /\ pc' = [pc EXCEPT ![w] = "routing"]
  /\ tried' = [tried EXCEPT ![Current(w)] = IF @ < MaxRetries THEN @ + 1 ELSE @]
  /\ UNCHANGED <<row, delivery, seen, marks, received, lost, raced, faults, resets, asked>>

\* Mutant of Deliver: a timeout counts as a success.
DeliverTimeout(w, t) ==
  /\ pc[w] = "routing" /\ t \in Left(w)
  /\ \E arrived, success \in BOOLEAN :
       /\ received' = IF arrived THEN received \cup {<<Current(w), t>>} ELSE received
       /\ marks' = [marks EXCEPT ![w] = @ \cup {<<t, IF success THEN "delivered" ELSE "failed">>}]
  /\ UNCHANGED <<row, delivery, pc, seen, counts, faults, resets, asked>>

\* One adapter answers.  Nothing rolls back a dispatch; an integration that got
\* it may still be reported as failed (a timeout, an error answer).
Deliver(w, t) ==
  /\ pc[w] = "routing" /\ t \in Left(w)
  /\ \E arrived, success \in BOOLEAN :
       /\ success => arrived
       /\ received' = IF arrived THEN received \cup {<<Current(w), t>>} ELSE received
       /\ marks' = [marks EXCEPT ![w] = @ \cup {<<t, IF success THEN "delivered" ELSE "failed">>}]
  /\ UNCHANGED <<row, delivery, pc, seen, counts, faults, resets, asked>>

\* Mutant of Retried: one attempt fewer than max_retries.
RetriedEarly(r, n) ==
  IF n + 1 >= MaxRetries THEN [status |-> "failed", retry |-> n, due |-> r.due]
  ELSE [status |-> "retrying", retry |-> n, due |-> FALSE]

\* retry_count is the snapshot's plus one, not the row's.
Retried(r, n) ==
  IF n >= MaxRetries THEN [status |-> "failed", retry |-> n, due |-> r.due]
  ELSE [status |-> "retrying", retry |-> n, due |-> FALSE]

\* Every integration has answered: what the event and its deliveries become.
Outcome(w) ==
  LET e == Current(w)
  IN /\ pc[w] = "routing" /\ Left(w) = {}
     /\ row' = [row EXCEPT ![e] = IF Failures(w) = {} THEN [@ EXCEPT !.status = "delivered"]
                                  ELSE Retried(@, seen[w][e].retry + 1)]
     /\ delivery' = [delivery EXCEPT ![e] =
          [t \in Rows |-> CASE <<t, "delivered">> \in marks[w] -> "delivered"
                            [] <<t, "failed">> \in marks[w] -> "failed"
                            [] OTHER -> delivery[e][t]]]

\* They COMMIT, and the worker goes on to the next event of its batch.
Settle(w) ==
  /\ Outcome(w)
  /\ seen' = [seen EXCEPT ![w][Current(w)] = None]
  /\ pc' = [pc EXCEPT ![w] = IF Batch(w) = {Current(w)} THEN "idle" ELSE "batch"]
  /\ marks' = [marks EXCEPT ![w] = {}]
  /\ UNCHANGED <<received, counts, faults, resets, asked>>

\* The connection is lost after the server has committed: the worker gets an
\* exception, as if nothing had been written.
SettleLost(w) ==
  /\ Outcome(w)
  /\ Fault
  /\ lost' = [lost EXCEPT ![Current(w)] = @ + 1]
  /\ pc' = [pc EXCEPT ![w] = "raised"]
  /\ marks' = [marks EXCEPT ![w] = {}]
  /\ UNCHANGED <<seen, received, tried, raced, resets, asked>>

\* Anything raised while routing, or a COMMIT refused: the session rolls back, and
\* with it every delivery status of this event, though the dispatches went out.
Raise(w) ==
  /\ pc[w] = "routing"
  /\ pc' = [pc EXCEPT ![w] = "raised"]
  /\ marks' = [marks EXCEPT ![w] = {}]
  /\ UNCHANGED <<row, delivery, seen, received, counts, faults, resets, asked>>

\* A second session reads the event afresh.  The rest of the batch is lost: the
\* rollback expired its objects, and reading event.id raises.
ReadAgain(w) ==
  /\ pc[w] = "raised"
  /\ pc' = [pc EXCEPT ![w] = "marking"]
  /\ seen' = [seen EXCEPT ![w] = [Unseen EXCEPT ![Current(w)] = SnapshotOf(Current(w))]]
  /\ UNCHANGED <<row, delivery, marks, received, counts, faults, resets, asked>>

\* It writes the count and the status; the ORM leaves out of the UPDATE a status
\* equal to the one it read.
MarkError(w) ==
  LET e == Current(w)
      n == seen[w][e].retry + 1
      new == IF n < MaxRetries THEN "retrying" ELSE "failed"
  IN /\ pc[w] = "marking" /\ ~Locked(e, w)
     /\ row' = [row EXCEPT ![e] =
                  [status |-> IF new = seen[w][e].status THEN @.status ELSE new,
                   retry |-> n, due |-> FALSE]]
     /\ Idle(w)
     /\ UNCHANGED <<delivery, received, counts, faults, resets, asked>>

\* A worker dies or is cancelled, its claim or its second session fails (busy
\* database, lost connection): its transaction and its batch are gone.
Abandon(w) ==
  /\ pc[w] # "idle"
  /\ Fault
  /\ Idle(w)
  /\ UNCHANGED <<row, delivery, received, counts, resets, asked>>

\* The dead events es are opened and counted anew, which a worker that has an old
\* object of one in its batch does not see.
Reopen(es) ==
  /\ tried' = [e \in Events |-> IF e \in es THEN 0 ELSE tried[e]]
  /\ lost' = [e \in Events |-> IF e \in es THEN 0 ELSE lost[e]]
  /\ raced' = (raced \ es) \cup {e \in es : \E w \in Workers : seen[w][e] # None}

\* Mutants of RetryDelivery: the UPDATE does not look at the status, or leaves
\* retry_count alone.
RetryDeliveryAll(e, t) ==
  /\ resets < MaxResets /\ resets' = resets + 1
  /\ delivery[e][t] # "none"
  /\ \A w \in Workers : pc[w] # "routing"
  /\ delivery' = [delivery EXCEPT ![e][t] = "queued"]
  /\ row' = [d \in Events |->
       IF row[d].status # "none" THEN [status |-> "pending", retry |-> 0, due |-> TRUE]
                                 ELSE row[d]]
  /\ Reopen({d \in Events : row[d].status # "none"})
  /\ asked' = e
  /\ UNCHANGED <<pc, seen, marks, received, faults>>
RetryDeliveryCounting(e, t) ==
  /\ resets < MaxResets /\ resets' = resets + 1
  /\ delivery[e][t] # "none"
  /\ \A w \in Workers : pc[w] # "routing"
  /\ delivery' = [delivery EXCEPT ![e][t] = "queued"]
  /\ row' = [d \in Events |->
       IF row[d].status = "failed" THEN [row[d] EXCEPT !.status = "pending", !.due = TRUE]
                                   ELSE row[d]]
  /\ Reopen({d \in Events : row[d].status = "failed"})
  /\ asked' = e
  /\ UNCHANGED <<pc, seen, marks, received, faults>>

\* POST /admin/deliveries/{id}/retry: the delivery is queued again, whatever its
\* status, and every dead-lettered event becomes pending.
RetryDelivery(e, t) ==
  /\ resets < MaxResets /\ resets' = resets + 1
  /\ delivery[e][t] # "none"
  /\ \A w \in Workers : pc[w] = "routing" =>
        ~SingleWriter /\ Current(w) # e /\ row[Current(w)].status # "failed"
  /\ delivery' = [delivery EXCEPT ![e][t] = "queued"]
  /\ row' = [d \in Events |->
       IF row[d].status = "failed" THEN [status |-> "pending", retry |-> 0, due |-> TRUE]
                                   ELSE row[d]]
  /\ Reopen({d \in Events : row[d].status = "failed"})
  /\ asked' = e
  /\ UNCHANGED <<pc, seen, marks, received, faults>>

Step(w) ==
  \/ Poll(w) \/ Claim(w) \/ (\E t \in Targets : Deliver(w, t)) \/ Settle(w)
  \/ ReadAgain(w) \/ MarkError(w)

Next ==
  \/ \E e \in Events : Emit(e) \/ Wake(e) \/ (\E t \in Rows : RetryDelivery(e, t))
  \/ \E w \in Workers : Step(w) \/ SettleLost(w) \/ Raise(w) \/ Abandon(w)

Spec == Init /\ [][Next]_vars

\* The loop polls every second, every adapter has an HTTP timeout, a lock is
\* granted once its holder commits, and time passes.  Nothing must fail.
Fairness == (\A w \in Workers : WF_vars(Step(w))) /\ (\A e \in Events : WF_vars(Wake(e)))
FairSpec == Spec /\ Fairness

-------------------------------------------------------------------------------
\* "Guaranteed At-Least-Once Delivery" (README.md:62): an event marked delivered
\* has reached every integration, and a delivery marked delivered has reached
\* its own, whatever snapshots, rollbacks and retries came before.
DeliveredArrived ==
  \A e \in Events, t \in Targets :
     row[e].status = "delivered" \/ delivery[e][t] = "delivered" => <<e, t>> \in received

\* An event is dead-lettered only after max_retries dispatches of it
\* (ARCHITECTURE.md 2.2) since it was committed or the administrator opened it
\* again: stale counts and marks made twice lose attempts but never invent one.
\* Two things do: a COMMIT that raises after the server has committed makes the
\* worker count its dispatch a second time, and a worker that still has an old
\* object of an event when the administrator opens it writes the old count back.
DeadLetterEarned ==
  \A e \in Events : row[e].status = "failed" =>
     tried[e] + lost[e] >= MaxRetries \/ e \in raced

\* A committed event is not lost: whatever worker dies with it in hand, it ends
\* delivered or dead-lettered.
EveryEventSettles ==
  \A e \in Events : (row[e].status = "pending") ~> (row[e].status \in {"delivered", "failed"})

\* admin.py:286: "Reset any failed outbox events for this message", no other's.
RetryResetsOneMessage ==
  [][\A e \in Events : row[e].status = "failed" /\ row'[e].status = "pending"
        => asked' = e]_vars

\* ARCHITECTURE.md:127: "The worker claims records": once an event is delivered
\* no worker takes it up again and writes another status.
DeliveredIsFinal ==
  [][\A e \in Events : row[e].status = "delivered" => row'[e].status = "delivered"]_vars

\* ARCHITECTURE.md:133: the event is marked dead_letter "and the MessageDelivery
\* is marked failed": a dead letter is in the list of failed deliveries.
DeadLetterListed ==
  \A e \in Events : row[e].status = "failed" => \E t \in Rows : delivery[e][t] = "failed"
-------------------------------------------------------------------------------
\* The abstract outbox: an event waits for delivery while it is pending or
\* retrying, and the rows of the targets say what is confirmed.
StateView ==
  [e \in Events |-> CASE row[e].status = "none" -> "absent"
                      [] row[e].status = "delivered" -> "delivered"
                      [] row[e].status = "failed" -> "dead"
                      [] OTHER -> "open"]
Confirmed == {p \in Events \X Targets : delivery[p[1]][p[2]] = "delivered"}

\* What a worker may have counted; anything for an event it wrote an old count to.
Charged(e) ==
  IF e \in raced \/ tried[e] + lost[e] >= MaxRetries THEN MaxRetries ELSE tried[e] + lost[e]
ChargeView == [e \in Events |-> Charged(e)]

Promise == INSTANCE Delivery WITH
  MaxTries <- MaxRetries, state <- StateView, tries <- ChargeView, reached <- received,
  confirmed <- Confirmed

\* The workers, with their stale snapshots, double dispatches, rollbacks and
\* crashes, deliver as the abstract outbox does: every step of theirs and of the
\* administrator decides on one committed event, or reopens dead ones.
ImplementsDelivery == Promise!Spec
===============================================================================
