---------------------------- MODULE MessageService ----------------------------
(***************************************************************************)
(* MessageService.send_message and its three callers: the REST endpoint,   *)
(* the WebSocket "send" action and the inbound webhook.  One element of    *)
(* Calls is one invocation; it runs in one worker process and awaits       *)
(* between the steps below, so calls of one worker interleave at every     *)
(* step and calls of two workers share nothing but the database.           *)
(*                                                                         *)
(* The per-conversation asyncio.Lock lives in a worker's memory.  It       *)
(* covers the duplicate check, the MAX(sequence_number) query and the      *)
(* flush of the INSERTs, but not the caller's COMMIT.                      *)
(***************************************************************************)
EXTENDS Naturals, Sequences, FiniteSets

CONSTANTS
  Calls,        \* invocations of send_message, each also the uuid of its row
  Workers,      \* uvicorn worker processes
  Convs,        \* conversations
  ClientIds,    \* client_message_id values
  Sessions,     \* login sessions that REST requests carry
  None,         \* "no call", "no message", "no session"
  SingleWriter, \* TRUE: SQLite, one open write transaction in the database
  RespondFirst  \* TRUE: FastAPI sends a response before get_db's COMMIT

Message == [id : Calls, conv : Convs, cid : ClientIds, seq : Nat \ {0}]

ASSUME NoneAssumption == None \notin Calls \cup Message \cup Sessions
ASSUME BackendAssumption == SingleWriter \in BOOLEAN /\ RespondFirst \in BOOLEAN

VARIABLES
  pc,         \* pc[c]: the step call c awaits next, or how it ended
  req,        \* req[c]: the request call c serves
  lock,       \* lock[<<w, v>>]: holder of worker w's lock for conversation v
  next,       \* next[c]: the sequence number call c computed
  staged,     \* staged[c]: the message rows flushed and not yet committed
  result,     \* result[c]: the message send_message returned to its caller
  todo,       \* todo[c]: what the caller still does with it, in order
  acked,      \* the calls whose client got a response
  messages,   \* the committed rows of table messages
  outbox,     \* the messages with a committed row in outbox_events
  deliveries, \* committed <<message, integration>> rows of message_deliveries
  announced   \* <<message, worker>> pairs broadcast to a worker's sockets

tables == <<messages, outbox, deliveries>>
vars == <<pc, req, lock, next, staged, result, todo, acked, tables, announced>>

Entries == {"rest", "ws", "webhook"}
Integrations == {"discord", "webhook"}
\* Only REST is authenticated by a session, whose last_seen_at it sets.
Request ==
  {r \in [worker : Workers, entry : Entries, conv : Convs, cid : ClientIds,
          session : Sessions \cup {None}] : r.session = None <=> r.entry # "rest"}

\* The steps during which a call holds its worker's lock.
Critical == {"checking", "allocating", "flushing", "touching", "rechecking"}
Running == Critical \cup {"locking", "epilogue"}
\* How a call ends: answered; refused by the access or length check; the
\* re-raised IntegrityError; SQLite's "database is locked"; the failed lazy
\* load of a row expired by rollback; a COMMIT that raised; a worker's death.
Ended == {"done", "refused", "conflict", "busy", "expired", "aborted", "crashed"}

TypeOK ==
  /\ pc \in [Calls -> {"idle"} \cup Running \cup Ended]
  /\ req \in [Calls -> Request \cup {None}]
  /\ lock \in [Workers \X Convs -> Calls \cup {None}]
  /\ next \in [Calls -> Nat]
  /\ staged \in [Calls -> SUBSET Message]
  /\ result \in [Calls -> Message \cup {None}]
  /\ todo \in [Calls -> Seq({"announce", "commit", "respond"})]
  /\ acked \subseteq Calls
  /\ messages \subseteq Message
  /\ outbox \subseteq Calls
  /\ deliveries \subseteq Calls \X Integrations
  /\ announced \subseteq Message \X Workers

Init ==
  /\ pc = [c \in Calls |-> "idle"]
  /\ req = [c \in Calls |-> None]
  /\ lock = [p \in Workers \X Convs |-> None]
  /\ next = [c \in Calls |-> 0]
  /\ staged = [c \in Calls |-> {}]
  /\ result = [c \in Calls |-> None]
  /\ todo = [c \in Calls |-> <<>>]
  /\ acked = {}
  /\ messages = {}
  /\ outbox = {}
  /\ deliveries = {}
  /\ announced = {}

-------------------------------------------------------------------------------
LockOf(c) == <<req[c].worker, req[c].conv>>
Release(c) == lock' = [lock EXCEPT ![LockOf(c)] = None]

\* SELECT ... WHERE conversation_id = ? AND client_message_id = ?: it sees
\* committed rows only.  The unique constraint leaves at most one.
Duplicates(c) == {m \in messages : m.conv = req[c].conv /\ m.cid = req[c].cid}

\* COALESCE(MAX(sequence_number), 0) over the committed rows of a conversation.
Seqs(v) == {m.seq : m \in {n \in messages : n.conv = v}}
MaxSeq(v) == CHOOSE n \in Seqs(v) \cup {0} : \A s \in Seqs(v) : s <= n

RowOf(c) ==
  [id |-> c, conv |-> req[c].conv, cid |-> req[c].cid, seq |-> next[c]]

\* Mutants of Clash: a table that lacks one of the two unique constraints.
ClashOnClientId(m, n) == m.conv = n.conv /\ m.cid = n.cid
ClashOnSequence(m, n) == m.conv = n.conv /\ m.seq = n.seq

\* uq_message_conversation_client_id and uq_message_conversation_sequence.
Clash(m, n) == m.conv = n.conv /\ (m.cid = n.cid \/ m.seq = n.seq)

\* Mutant of HoldsSession: the UPDATE of the session goes out before the INSERTs.
HoldsSessionEarly(d) ==
  (pc[d] = "flushing" \/ staged[d] # {}) /\ req[d].entry = "rest"

\* The dependency that authenticates a REST request has set last_seen_at of its
\* session in the same AsyncSession, so the flush that inserts the message then
\* updates that row too, and holds it until COMMIT.
HoldsSession(d) == pc[d] = "epilogue" /\ staged[d] # {} /\ req[d].entry = "rest"

\* A statement waits for the open transactions that hold what it needs
\* (Postgres), or for any open write transaction (SQLite): an INSERT for a row
\* that clashes with its own, the UPDATE of a session for that session's row.
Blockers(c) ==
  {d \in Calls \ {c} : \E m \in staged[d] : SingleWriter \/ Clash(m, RowOf(c))}
TouchBlockers(c) ==
  {d \in Calls \ {c} :
     \/ SingleWriter /\ staged[d] # {}
     \/ HoldsSession(d) /\ req[d].session = req[c].session}
Blocked(c) == Blockers(c) # {}

\* Mutant of Epilogue: the WebSocket broadcasts before it commits.
EpilogueEager(entry, isNew) ==
  IF entry = "ws" THEN <<"announce", "commit">>
  ELSE IF isNew THEN <<"commit", "announce", "respond">>
                ELSE <<"commit", "respond">>

\* What each caller does once send_message has returned, in order.  REST
\* broadcasts a new message before get_db commits; the WebSocket broadcasts a
\* duplicate too and sends no response.
Epilogue(entry, isNew) ==
  CASE entry = "ws" -> <<"commit", "announce">>
    [] entry = "webhook" -> IF isNew THEN <<"commit", "announce", "respond">>
                                     ELSE <<"commit", "respond">>
    [] entry = "rest" /\ RespondFirst ->
         IF isNew THEN <<"announce", "respond", "commit">> ELSE <<"respond", "commit">>
    [] entry = "rest" /\ ~RespondFirst ->
         IF isNew THEN <<"announce", "commit", "respond">> ELSE <<"commit", "respond">>

\* send_message returns m to its caller and leaves the lock's block.
Return(c, m) ==
  /\ Release(c)
  /\ result' = [result EXCEPT ![c] = m]
  /\ todo' = [todo EXCEPT ![c] = Epilogue(req[c].entry, m.id = c)]
  /\ pc' = [pc EXCEPT ![c] = "epilogue"]

\* An exception leaves the lock's block and the handler; the session rolls back.
Raise(c, outcome) ==
  /\ Release(c)
  /\ pc' = [pc EXCEPT ![c] = outcome]
  /\ UNCHANGED <<result, todo>>

-------------------------------------------------------------------------------
\* A request reaches a worker; the access and length checks may refuse it.
Arrive(c) ==
  /\ pc[c] = "idle"
  /\ \E r \in Request : req' = [req EXCEPT ![c] = r]
  /\ \E s \in {"locking", "refused"} : pc' = [pc EXCEPT ![c] = s]
  /\ UNCHANGED <<lock, next, staged, result, todo, acked, tables, announced>>

Acquire(c) ==
  /\ pc[c] = "locking"
  /\ lock[LockOf(c)] = None
  /\ lock' = [lock EXCEPT ![LockOf(c)] = c]
  /\ pc' = [pc EXCEPT ![c] = "checking"]
  /\ UNCHANGED <<req, next, staged, result, todo, acked, tables, announced>>

\* The idempotency check finds the message of an earlier call.
FindDuplicate(c) ==
  /\ pc[c] = "checking"
  /\ \E m \in Duplicates(c) : Return(c, m)
  /\ UNCHANGED <<req, next, staged, acked, tables, announced>>

FindNone(c) ==
  /\ pc[c] = "checking"
  /\ Duplicates(c) = {}
  /\ pc' = [pc EXCEPT ![c] = "allocating"]
  /\ UNCHANGED <<req, lock, next, staged, result, todo, acked, tables, announced>>

\* Mutants of Allocate: the increment is dropped; the maximum also counts rows
\* that are not committed.
AllocateSame(c) ==
  /\ pc[c] = "allocating"
  /\ next' = [next EXCEPT ![c] = MaxSeq(req[c].conv)]
  /\ pc' = [pc EXCEPT ![c] = "flushing"]
  /\ UNCHANGED <<req, lock, staged, result, todo, acked, tables, announced>>
AllocateUncommitted(c) ==
  /\ pc[c] = "allocating"
  /\ \E n \in {MaxSeq(req[c].conv)} \cup {m.seq : m \in UNION {staged[d] : d \in Calls}} :
        next' = [next EXCEPT ![c] = n + 1]
  /\ pc' = [pc EXCEPT ![c] = "flushing"]
  /\ UNCHANGED <<req, lock, staged, result, todo, acked, tables, announced>>

Allocate(c) ==
  /\ pc[c] = "allocating"
  /\ next' = [next EXCEPT ![c] = MaxSeq(req[c].conv) + 1]
  /\ pc' = [pc EXCEPT ![c] = "flushing"]
  /\ UNCHANGED <<req, lock, staged, result, todo, acked, tables, announced>>

\* A flush that has sent the INSERTs is over, or goes on to the session's row.
Inserted(c) ==
  IF req[c].entry = "rest"
    THEN /\ pc' = [pc EXCEPT ![c] = "touching"]
         /\ UNCHANGED <<lock, result, todo>>
    ELSE Return(c, RowOf(c))

\* Mutant of Flush: the outbox event goes out in a transaction of its own.
FlushOutboxApart(c) ==
  /\ pc[c] = "flushing"
  /\ ~Blocked(c)
  /\ \A m \in messages : ~Clash(m, RowOf(c))
  /\ staged' = [staged EXCEPT ![c] = {RowOf(c)}]
  /\ outbox' = outbox \cup {c}
  /\ Inserted(c)
  /\ UNCHANGED <<req, next, acked, messages, deliveries, announced>>

\* The INSERTs of the message, its two deliveries and its outbox event go
\* through; the lock is released with the transaction still open.
Flush(c) ==
  /\ pc[c] = "flushing"
  /\ ~Blocked(c)
  /\ \A m \in messages : ~Clash(m, RowOf(c))
  /\ staged' = [staged EXCEPT ![c] = {RowOf(c)}]
  /\ Inserted(c)
  /\ UNCHANGED <<req, next, acked, tables, announced>>

\* The second half of a REST call's flush: UPDATE sessions SET last_seen_at.
Touch(c) ==
  /\ pc[c] = "touching"
  /\ TouchBlockers(c) = {}
  /\ Return(c, RowOf(c))
  /\ UNCHANGED <<req, next, staged, acked, tables, announced>>

\* IntegrityError: a committed row clashes.  The session rolls back and looks
\* for its client id again.
FlushConflict(c) ==
  /\ pc[c] = "flushing"
  /\ SingleWriter => ~Blocked(c)
  /\ \E m \in messages : Clash(m, RowOf(c))
  /\ pc' = [pc EXCEPT ![c] = "rechecking"]
  /\ UNCHANGED <<req, lock, next, staged, result, todo, acked, tables, announced>>

\* Mutant of FlushBusy: the error path does not leave the lock's block.
FlushBusyKeepsLock(c) ==
  /\ pc[c] = "flushing"
  /\ SingleWriter
  /\ pc' = [pc EXCEPT ![c] = "busy"]
  /\ UNCHANGED <<req, lock, next, staged, result, todo, acked, tables, announced>>

\* SQLite's busy timeout: another writer, of this module or not, kept the
\* database for too long.  OperationalError is not caught.
FlushBusy(c) ==
  /\ pc[c] = "flushing"
  /\ SingleWriter
  /\ Raise(c, "busy")
  /\ UNCHANGED <<req, next, staged, acked, tables, announced>>

\* The client id is there now: the call lost a race against its own duplicate.
\* The rollback has expired the REST handler's user row, whose display_name
\* the response needs: the load outside a greenlet raises.
RecheckDuplicate(c) ==
  /\ pc[c] = "rechecking"
  /\ Duplicates(c) # {}
  /\ IF req[c].entry = "rest"
       THEN Raise(c, "expired")
       ELSE \E m \in Duplicates(c) : Return(c, m)
  /\ UNCHANGED <<req, next, staged, acked, tables, announced>>

\* Mutant of RecheckNone: the handler raises again without looking for the
\* duplicate.
RecheckSkipped(c) ==
  /\ pc[c] = "rechecking"
  /\ Raise(c, "conflict")
  /\ UNCHANGED <<req, next, staged, acked, tables, announced>>

\* The clash was on the sequence number: the IntegrityError is raised again.
RecheckNone(c) ==
  /\ pc[c] = "rechecking"
  /\ Duplicates(c) = {}
  /\ Raise(c, "conflict")
  /\ UNCHANGED <<req, next, staged, acked, tables, announced>>

-------------------------------------------------------------------------------
\* The caller is about to do `what`; the call ends with its last step.
AtStep(c, what) == pc[c] = "epilogue" /\ Head(todo[c]) = what
StepDone(c) ==
  /\ todo' = [todo EXCEPT ![c] = Tail(@)]
  /\ pc' = IF Tail(todo[c]) = <<>> THEN [pc EXCEPT ![c] = "done"] ELSE pc

\* broadcast_to_room: the sockets this worker has registered, and only those.
Announce(c) ==
  /\ AtStep(c, "announce")
  /\ announced' = announced \cup {<<result[c], req[c].worker>>}
  /\ StepDone(c)
  /\ UNCHANGED <<req, lock, next, staged, result, acked, tables>>

Respond(c) ==
  /\ AtStep(c, "respond")
  /\ acked' = acked \cup {c}
  /\ StepDone(c)
  /\ UNCHANGED <<req, lock, next, staged, result, tables, announced>>

\* The server commits: the inserts of the transaction become visible together.
Persist(c) ==
  /\ messages' = messages \cup staged[c]
  /\ outbox' = outbox \cup {m.id : m \in staged[c]}
  /\ deliveries' = deliveries \cup ({m.id : m \in staged[c]} \X Integrations)
  /\ staged' = [staged EXCEPT ![c] = {}]

\* get_db's COMMIT flushes what is left to flush: for a REST call that found a
\* duplicate, the UPDATE of its session.
TouchesLate(c) == req[c].entry = "rest" /\ staged[c] = {}

\* COMMIT succeeds, and the caller learns it.
Commit(c) ==
  /\ AtStep(c, "commit")
  /\ TouchesLate(c) => TouchBlockers(c) = {}
  /\ Persist(c)
  /\ StepDone(c)
  /\ UNCHANGED <<req, lock, next, result, acked, announced>>

\* Mutant of CommitFails: the caller swallows the exception and goes on.
CommitFailsSilently(c) ==
  /\ AtStep(c, "commit")
  /\ staged' = [staged EXCEPT ![c] = {}]
  /\ StepDone(c)
  /\ UNCHANGED <<req, lock, next, result, acked, tables, announced>>

\* COMMIT raises (connection lost, database busy) and the transaction rolls back.
CommitFails(c) ==
  /\ AtStep(c, "commit")
  /\ staged' = [staged EXCEPT ![c] = {}]
  /\ pc' = [pc EXCEPT ![c] = "aborted"]
  /\ UNCHANGED <<req, lock, next, result, todo, acked, tables, announced>>

\* The connection is lost after the server has committed and before the caller
\* learns it: the same exception, and the row is stored.
CommitLost(c) ==
  /\ AtStep(c, "commit")
  /\ staged[c] # {}
  /\ Persist(c)
  /\ pc' = [pc EXCEPT ![c] = "aborted"]
  /\ UNCHANGED <<req, lock, next, result, todo, acked, announced>>

\* A worker dies with all its calls, locks and open transactions; uvicorn
\* starts another in its place.
Crash(w) ==
  LET victims == {c \in Calls : pc[c] \in Running /\ req[c].worker = w}
  IN /\ victims # {}
     /\ pc' = [c \in Calls |-> IF c \in victims THEN "crashed" ELSE pc[c]]
     /\ staged' = [c \in Calls |-> IF c \in victims THEN {} ELSE staged[c]]
     /\ lock' = [p \in Workers \X Convs |-> IF p[1] = w THEN None ELSE lock[p]]
     /\ UNCHANGED <<req, next, result, todo, acked, tables, announced>>

Service(c) ==
  \/ FindDuplicate(c) \/ FindNone(c) \/ Allocate(c)
  \/ Flush(c) \/ Touch(c) \/ FlushConflict(c) \/ FlushBusy(c)
  \/ RecheckDuplicate(c) \/ RecheckNone(c)
Caller(c) ==
  Announce(c) \/ Respond(c) \/ Commit(c) \/ CommitFails(c) \/ CommitLost(c)

Next ==
  \/ \E c \in Calls : Arrive(c) \/ Acquire(c) \/ Service(c) \/ Caller(c)
  \/ \E w \in Workers : Crash(w)

Spec == Init /\ [][Next]_vars

\* The event loop runs every ready task and the database answers every
\* statement; asyncio.Lock is first in, first out.  No client must call, no
\* COMMIT must fail, no worker must die.
Fairness ==
  \A c \in Calls : WF_vars(Service(c) \/ Caller(c)) /\ SF_vars(Acquire(c))
FairSpec == Spec /\ Fairness

-------------------------------------------------------------------------------
\* The committed sequence numbers of a conversation are 1..n, each on one row:
\* "Gaps are mathematically impossible" (ARCHITECTURE.md 2.1), whatever commits
\* fail and whatever workers die between allocation and COMMIT.
Gapless ==
  /\ \A v \in Convs : Seqs(v) = 1..MaxSeq(v)
  /\ \A m, n \in messages : m.conv = n.conv /\ m.seq = n.seq => m = n

\* However many transactions wait to commit, at most one holds a row of a
\* given conversation, and the row carries the next number of the log: rows
\* become visible in sequence order, so a reader that resumes after the last
\* number it saw (get_history with after_seq) skips none.
CommitsInOrder ==
  \A c, d \in Calls : \A m \in staged[c], n \in staged[d] :
     /\ m.seq = MaxSeq(m.conv) + 1
     /\ m.conv = n.conv => c = d

\* Calls that carry the same client id and complete are given the same message,
\* over whichever endpoints and workers they ran: the idempotency that
\* send_message's docstring promises to retries.
SameAnswer ==
  \A c, d \in Calls :
     /\ pc[c] = "done" /\ pc[d] = "done"
     /\ req[c].conv = req[d].conv /\ req[c].cid = req[d].cid
     => result[c] = result[d]

\* A call that completes has its message stored, and so has one whose client
\* was sent a response, unless FastAPI responds before get_db commits.
AnsweredIsStored ==
  \A c \in Calls :
     pc[c] = "done" \/ (c \in acked /\ ~(RespondFirst /\ req[c].entry = "rest"))
     => result[c] \in messages

\* The transactional outbox: whatever fails, a message is stored if and only if
\* its outbox event and both its delivery rows are.
OutboxComplete ==
  /\ outbox = {m.id : m \in messages}
  /\ deliveries = outbox \X Integrations

\* A message broadcast to sockets is stored, except by a REST call: it announces
\* before it commits, so what its sockets saw may still vanish.
AnnouncedIsStored ==
  \A a \in announced : a[1] \in messages \/ req[a[1].id].entry = "rest"

\* The calls that call c waits for: the holder of its worker's lock, or the open
\* transactions that its next statement has to see the end of.
WaitsFor(c) ==
  CASE pc[c] = "locking" -> {lock[LockOf(c)]} \ {None}
    [] pc[c] = "flushing" -> Blockers(c)
    [] pc[c] = "touching" -> TouchBlockers(c)
    [] AtStep(c, "commit") /\ TouchesLate(c) -> TouchBlockers(c)
    [] OTHER -> {}

\* No deadlock between the workers' asyncio locks, the unique keys of messages
\* and the rows of sessions, all three of which a REST send holds at once: calls
\* wait only for calls that have not ended, and never in a circle, however long
\* the chains are (a call waits for its worker's lock, whose holder waits for a
\* key, whose holder waits for its session's row).
NoCircularWait ==
  /\ \A c \in Calls : \A d \in WaitsFor(c) : pc[d] \in Running
  /\ \A S \in SUBSET Calls : (\A c \in S : WaitsFor(c) \cap S # {}) => S = {}

\* What a client may conclude from an error.  Unless a COMMIT raised, nothing of
\* the call is stored; after a lost race against its duplicate that one is; and
\* an IntegrityError means that a message with another client id took the number
\* first.  A COMMIT that raised leaves it open, but a row it did store is what
\* every call with that client id is answered with: a retry makes no second copy.
FailuresExplained ==
  \A c \in Calls :
     /\ pc[c] \in {"refused", "conflict", "busy", "expired"} =>
          staged[c] = {} /\ \A m \in messages : m.id # c
     /\ pc[c] = "expired" => Duplicates(c) # {}
     /\ pc[c] = "conflict" =>
          \E m \in messages : /\ m.conv = req[c].conv /\ m.seq = next[c]
                              /\ m.cid # req[c].cid
     /\ pc[c] = "aborted" =>
          /\ staged[c] = {}
          /\ \A m \in messages, d \in Calls :
               /\ m.id = c /\ pc[d] = "done"
               /\ req[d].conv = req[c].conv /\ req[d].cid = req[c].cid
               => result[d] = m

\* Every accepted call ends: no path out of the lock's block keeps the lock, and
\* the wait for another call's transaction never closes a circle.
EveryCallEnds == \A c \in Calls : (pc[c] = "locking") ~> (pc[c] \in Ended)

\* README.md:60: locks and constraints guarantee "zero sequence conflicts even
\* under heavy concurrent load": no send ends in a re-raised IntegrityError.
NoSequenceConflict == \A c \in Calls : pc[c] # "conflict"

\* tests/load/test_concurrency.py:61: of concurrent identical sends over REST,
\* "All responses must succeed".
DuplicatesSucceed ==
  (\A c \in Calls : pc[c] # "idle" => req[c].entry = "rest")
    => \A c \in Calls : pc[c] # "expired"

-------------------------------------------------------------------------------
\* The abstract log: the committed rows in the order of their numbers, and an
\* answer for every call that has completed.
RowAt(v, n) == CHOOSE m \in messages : m.conv = v /\ m.seq = n
LogView ==
  [v \in Convs |->
     [n \in 1..MaxSeq(v) |-> [id |-> RowAt(v, n).id, cid |-> RowAt(v, n).cid]]]
AnswerView ==
  [c \in Calls |->
     IF pc[c] = "done"
       THEN [conv |-> result[c].conv, cid |-> result[c].cid, seq |-> result[c].seq]
       ELSE None]

Log == INSTANCE MessageLog WITH log <- LogView, answer <- AnswerView

\* send_message, with its locks, transactions, conflicts and crashes, implements
\* the append-only log: each commit appends one message or nothing.
ImplementsLog == Log!Spec

\* The feed of the sockets: a row is known before its COMMIT to the caller that
\* broadcasts it so early, REST; the other callers' rows once they are stored.
OwnRow(c) == result[c] # None /\ result[c].id = c
Stage(c) ==
  CASE OwnRow(c) /\ result[c] \in messages -> "stored"
    [] OwnRow(c) /\ result[c] \notin messages /\ req[c].entry = "rest" ->
         IF staged[c] = {} THEN "aborted" ELSE "staged"
    [] OTHER -> "unsent"
StageView == [c \in Calls |-> Stage(c)]
NumView == [c \in Calls |-> IF Stage(c) = "unsent" THEN 0 ELSE result[c].seq]
PlaceView == [c \in Calls |-> IF Stage(c) = "unsent" THEN None ELSE result[c].conv]

Sockets == INSTANCE Feed WITH
  Messages <- Calls, phase <- StageView, num <- NumView, place <- PlaceView

\* What the hub is built on: a message becomes known with the number after the
\* last stored one, and while a REST message is announced and uncommitted no
\* other message of its conversation gets a number, in any worker.
ImplementsFeed == Sockets!Spec
===============================================================================
