# Relationship OS: specifications, model checking and proofs

Relationship OS is a chat service between one owner and their recipients: a
FastAPI application (`src/apps/api`) over SQLite or Postgres, started by
`Dockerfile.api` with two uvicorn workers, a web client, a terminal client, a
Python SDK and adapters to Discord, Signal and HTTP webhooks. This directory
holds TLA+ modules of its core, the TLC configurations that check them and
proofs that TLAPS checks. Paths below are relative to the repository, and
`services/`, `routers/`, `core/`, `models/` are those of `apps/api/src`.

## 1. Inventory

The two uvicorn workers share **only the database**. Each has its own
conversation locks, its own `ws_manager`, its own outbox worker task and its own
rate limiter.

| component | state | operations | what makes it correct |
|---|---|---|---|
| `MessageService` (`services/message_service.py`) | `messages`, `outbox_events`, `message_deliveries`; one `asyncio.Lock` per conversation and process | `send_message`, `get_history`, `search_messages`, access check | gapless numbers, visible in order; one answer per client id; message, event and deliveries together |
| callers (`routers/conversations.py`, `websocket.py`, `webhooks.py`, `core/database.py`) | a session and its open transaction | REST send, WebSocket `send`, inbound webhook | what is answered or announced is stored |
| outbox worker, router (`services/outbox_worker.py`) | rows of `outbox_events` and `message_deliveries`; a snapshot of a batch | `process_batch`, `route_event`, the error session | at least once; dead letters after `max_retries`; nothing lost in a crash |
| admin (`routers/admin.py`) | same tables, webhook endpoints, sessions, audit | retry, failed list, integrity check, revocation | a retry touches its own message |
| read receipts (`services/read_service.py`) | `last_read_sequence` per participant | `mark_read`, `get_unread_count` | monotonic, never past the log |
| WebSocket hub (`routers/websocket.py`) | rooms and metadata of sockets, per process | authenticate, sync/replay, broadcast, disconnect | no message missed between replay, broadcast and reconnect |
| presence (`services/presence_service.py`) | one row per user | ONLINE, OFFLINE, lazy expiry | a user without sockets ends OFFLINE |
| enrollment, sessions (`services/auth_service.py`) | tokens, sessions, audit | redeem, refresh, revoke | a token is used once; revoked is revoked |
| rate limiter (`core/middleware.py`) | a list of timestamps per key and process | `is_rate_limited` | at most n per window |
| attachments, storage | files, one row per upload | upload, signed link | I/O |
| adapters (`integrations/`) | none | send to Discord, Signal, a webhook | they never raise; they answer (success, id, error) |
| crypto, SSRF (`packages/shared`) | none | pure functions | out of scope |
| web client, SDK, CLI | `lastKnownSequence`, reconnect delay | connect, sync, send | resumes without missing a message |
| health, migrations, launchers, scripts | none | | out of scope |

How they interact: a caller checks access, awaits `send_message` (which flushes
and leaves the transaction **open**), commits, broadcasts to the sockets of its
own process and responds, in an order of its own. The commit publishes an outbox
row; every worker process polls the table each second, dispatches and writes
back; the administrator may reset dead letters at any time.

What is hard: the lock does not cover the commit and does not exist between
processes; rollback expires ORM objects that are still used; REST broadcasts,
and recent FastAPI versions respond, before the commit; a worker acts on
snapshots that other workers have overtaken, and splits failure handling over
two transactions; a socket is registered, replayed to and broadcast to by
different tasks, and its client keeps a single number of what it has seen; a
token, a session and a read position are read in one statement and written in
another. `PROJECT.json` lists each hazard with its line.

## 2. Modules

| module | role |
|---|---|
| `MessageLog` | what the message service promises its callers: one append-only log per conversation, one answer per call |
| `Feed` | what it promises the sockets: when a message becomes known, with which number, and what may happen to it then |
| `MessageService` | `send_message` and its three callers, with locks, transactions, conflicts, crashes |
| `MCMessageService` | TLC instance: symmetry |
| `MessageService_proof` | inductive invariant, safety theorems |
| `MessageService_refinement` | the service implements the log and the feed |
| `MessageService_waits` | the locks, who waits for whom, what an error tells |
| `Delivery` | what the outbox promises: dispatches, arrivals, outcomes of an event |
| `OutboxWorker` | outbox workers, router and administrator's retry on one table; implements `Delivery` |
| `MCOutboxWorker` | TLC instance: events, targets, symmetry |
| `OutboxWorker_proof` | inductive invariant, safety theorems, refinement of `Delivery` |
| `Hub` | the WebSocket handler, the rooms of each worker, broadcasts, presence, and the page and terminal that display the conversation; follows `Feed` |
| `MCHub` | TLC instances: users, symmetry |
| `Hub_proof` | inductive invariant in three layers, safety theorems |
| `Ledger` | what requests may do to sessions, tokens and the audit log, each change in one step |
| `Sessions` | login and its rate limiter, enrollment, sessions and their revocation, audit rows, read positions, and the devices that keep credentials; implements `Ledger` |
| `MCSessions` | TLC instance: symmetry |
| `Sessions_proof` | life of a call; revocation, tokens, saved credentials |
| `Sessions_tables` | audit rows, limiter windows, read positions, refinement of `Ledger` |

How they compose: `Feed` joins the two sides of a message. The hub needs of the
service only that a message gets the next number of its conversation, that a
REST message is known before its COMMIT and may still be aborted, and that
nothing enters the conversation meanwhile. `MessageService` with its locks,
conflicts and workers is shown to implement `Feed` (`ImplementsFeed`), and the
messages of `Hub` to follow it (`FollowsFeed`), so that the hub can be checked
and proved with four phases of a message in place of the service. The outbox
takes from the service the COMMIT that inserts an event (`Emit`). What the
outbox and the sessions promise is stated the same way as the log: `Delivery`
knows neither workers nor snapshots nor rollbacks, `Ledger` neither requests nor
devices nor answers, and a status, a revocation or a used token may change in
them only as their few actions say. `Sessions`
meets the hub in one place: a socket's session is checked when it is opened and
never again, and a read over a socket (`wsread`) is served without a check.

### MessageService

An element of `Calls` is one invocation of `send_message`, and also the uuid of
the row it may insert. `pc[c]` is the statement the call awaits next, `req[c]`
its request, `lock[<<w, v>>]` the asyncio lock of worker `w` for conversation
`v`, `staged[c]` the rows its open transaction has flushed, `result[c]` and
`todo[c]` what it returned and what its caller still does with it.

| action | code |
|---|---|
| `Arrive` | the request, access check (74-103), length check (121-125) |
| `Acquire` | `async with _get_conv_lock` (127) |
| `FindDuplicate`, `FindNone` | the idempotency query (128-137) |
| `Allocate` | `MAX(sequence_number) + 1` (139-146) |
| `Flush` | INSERTs of message, deliveries, event (148-206); return releases the lock |
| `Touch` | the rest of a REST call's flush: `last_seen_at` of its session (`core/security.py` 108) |
| `FlushConflict`, `FlushBusy` | IntegrityError (207); SQLite "database is locked", not caught |
| `RecheckDuplicate`, `RecheckNone` | rollback and second query (208-219) |
| `Announce`, `Respond`, `Commit` | the caller, in the order `Epilogue` gives for its kind |
| `CommitFails`, `CommitLost` | COMMIT raises: rolled back, or after the server has committed |
| `Crash` | a uvicorn worker dies with its calls, locks and transactions |

A query reads committed rows only. The transaction of a call holds nothing
before its flush, so its own uncommitted rows never matter to its reads. An
INSERT waits for an open transaction with a clashing row (Postgres) or for any
open write (SQLite, `SingleWriter`); it fails on a committed clashing row.
A REST request also carries a session: the dependency that authenticates it sets
`last_seen_at` in the same `AsyncSession` (`autoflush` is off), so the flush of
the INSERTs goes on to UPDATE the `sessions` row and the transaction keeps that
row until it ends (`HoldsSession`). Two REST sends of one session wait for each
other there, inside the asyncio lock and with their messages inserted. A REST
call that found a duplicate has nothing to flush before its COMMIT and meets
the row there (`TouchesLate`). `RespondFirst` is the order of FastAPI 0.118 and
later, where `get_db` commits
after the response was sent. Unlike the other callers REST reads
`user.display_name` after the call; after a rollback that raises, which
`RecheckDuplicate` models.

Left out: bodies, names, timestamps, metadata and the contents of events; the
roles behind the access check (it accepts or refuses); the foreign-key error of
an inbound webhook that names no conversation (an IntegrityError that ends like
`RecheckNone`); a client that disconnects, since the handler runs on without it;
the `last_seen_at` of requests that send nothing: they hold a session's row until
their COMMIT, and neither an asyncio lock nor a message key.

### OutboxWorker

`row[e]` is the committed row of event `e` (`due` says `next_attempt_at <= now`),
`delivery[e][t]` the committed delivery row of integration `t`. A worker's
`seen[w]` is its snapshot of what is left of its batch: `expire_on_commit=False`
keeps it as it was when polled. `marks[w]` are the delivery statuses written in
the open transaction.

| action | code (`services/outbox_worker.py`) |
|---|---|
| `Emit` | the commit of `send_message` (`MessageService.Commit`) |
| `Wake` | `next_attempt_at` passes |
| `Poll` | the batch query (184-203) |
| `Claim` | the "processing" UPDATE, flushed (203-213) |
| `Deliver` | one adapter call and `_update_delivery` (38-151) |
| `Settle` | outcome and COMMIT (213-239) |
| `SettleLost` | the same COMMIT, taken by the server, raises (238) |
| `Raise`, `ReadAgain`, `MarkError` | the except branch with its second session (241-252) |
| `Abandon` | death, cancellation, or an error outside the `try` (`_run_loop`, 256-266) |
| `RetryDelivery` | `POST /admin/deliveries/{id}/retry` (`routers/admin.py` 272-300) |

"processing" is never committed: the same transaction replaces it, so no session
ever reads it. It appears as the lock (`Locked`) that the open transaction
holds. `Settle` counts from the snapshot; `MarkError` reads afresh, and as the
ORM updates only what changed it leaves a status alone that equals the one it
read. A success implies that the integration got the event; a failure does not
imply that it did not.

Three variables record what the rows do not. `tried[e]` counts the dispatches of
`e` up to `MaxRetries`, which is all the properties ask; `lost[e]` the outcomes
whose COMMIT raised although the server took it, each of which the error session
counts a second time; both start again when `RetryDelivery` opens a dead event
(`Reopen`), which also puts the event into `raced` if a worker still holds an
old object of it and may write the old count back. Bounds: `MaxFaults` crashes
and lost connections, `MaxResets` retries.

Left out: attempt counters, external ids, messages and dates; endpoints enabled
or filtered during a run; two endpoints of one name, which share a delivery row;
the amount of backoff (`min(300, ...)` in the code, 60 in `ARCHITECTURE.md`).
Targets are dispatched in any order, which includes the code's. The
administrator's retry reads and writes in one step, so that the ORM's omission
of a status it had already read as "queued" does not arise; the row is queued
either way unless a worker commits in between. A COMMIT of the error session
(252) that raises after it took effect leaves what `MarkError` leaves.

### Hub

A connection `k = <<c, i>>` is the `i`-th WebSocket of client `c`. `pc[k]` is
the handler's place, `registered[w]` the sockets in worker `w`'s rooms, `cast[j]`
what a running broadcast has still to send and which sockets have failed it,
`wire[k]` the frames on their way to the client, `replay[k]` what the sync read,
`asked[k]` the cursor it was asked with. `shown[c][m]` counts how often client
`c` displays message `m`; `known[c]` is its `lastKnownSequence`; a client in
`web` is the page, any other the terminal.

| action | code (`routers/websocket.py` unless named) |
|---|---|
| `WebStart`, `CliStart` | preload of the history (`ChatView.tsx` 42-96, `cli.py` 169-201) |
| `WebConnect`, `SdkConnect` | `connect`, reconnect and the sync frame (`websocket.ts` 43-83, `ws_client.py` 99-129) |
| `Drop` | the client's end closes; what was on the wire is lost |
| `WebReceive`, `SdkReceive` | the two message callbacks and the cursor |
| `Refuse`, `Admit` | authentication, ONLINE (88-174) |
| `Ping` | heartbeat, ONLINE (182-193) |
| `Join`, `ReadReplay`, `SendReplay` | `sync`: register, read, send, announce (195-247) |
| `Relay` | typing and read frames to the others (298-329) |
| `HandlerCastStep`, `MessageCastStep` | one `send_text` of `broadcast_to_room` (55-72); after the last, the failed sockets are unregistered |
| `Disconnect`, `MarkOffline` | `WebSocketDisconnect` and the OFFLINE of the last socket (331-352) |
| `Fail` | any other exception (353-355) |
| `Store` | the WebSocket's or the webhook's COMMIT |
| `Stage`, `CommitRest` | REST's flush, and `get_db`'s COMMIT or its failure, with the broadcast in between |
| `BeginMessageCast` | the copy of the room a broadcast starts from |
| `CrashWorker` | a worker dies with its sockets, broadcasts and uncommitted row |

Left out: the contents of presence, typing and read frames, which display no
message (their broadcasts run, since they may unregister a socket and keep a
handler busy, but carry nothing on the wire); the REST read receipt's
broadcast, which behaves like `Relay`; `last_seen`; the page's own optimistic
message, so messages are somebody else's; a WebSocket retry of a message
already sent, which is broadcast a second time; a second sync of one socket to
another conversation, which no client of the repository sends (the code accepts
it, overwrites the metadata and leaves the socket in the old room as well). The
SELECT and the UPDATE of a presence change are one step.

### Sessions

A call is one request; `c` also names the session it opens and the token it
issues. `pc[c]` is its place, `before[c]` what was answered when it was sent,
`writes[c]` what it has flushed, `saw[c]` the read position of the row it
loaded. `sessions`, `tokens`, `position` and `audit` are the committed rows.
`holds[d]` is the credential in a device's memory, `saved[d]` the one in
`credentials.json` or `localStorage`. `respondFirst` is either order of answer
and COMMIT.

| action | code |
|---|---|
| `LimitLogin`, `Tick` | `RateLimitMiddleware` and the sliding window (`core/middleware.py` 18-29, 86-126) |
| `CheckSession` | `get_current_user_and_session`, `require_roles` (`core/security.py`) |
| `ReadRows` | what the endpoint loads: user and password, token, session, participant |
| `Flush` | `create_session`, `redeem_enrollment_token`, `create_enrollment_token`, `revoke_session`, `revoke_device` (`services/auth_service.py`), `mark_read` (`services/read_service.py`) |
| `Commit`, `Answer`, `Rollback` | COMMIT with the audit row, the response, an exception |
| `CrashWorker` | calls rolled back, an empty limiter |
| `CliEnter` ... `CliConfirmed`, `CliLogout` | `initialize_auth` (`cli.py` 96-161) and the stored credential |
| `WebEnter`, `WebEntered`, `WebLogout`, `WebLoggedOut` | `LoginView.tsx`, `api.ts`, `App.tsx` |
| `Resume`, `Resumed`, `ResumeFails`, `EnterFails`, `Close` | a saved credential is tried; what fails or stops |
| `MarkRead`, `Administer` | reads by REST and WebSocket; issue and the two revocations |

Two updates of one row wait for each other (`SameRow`). Read and write are
separate statements without a lock, so two redemptions of a token, or two read
positions, may both have read before either writes. An authenticated request
sets `last_seen_at` of the session it has loaded; that UPDATE leaves
`is_revoked` alone (`TouchWrites`), and a whole row written back there would
reopen a session revoked meanwhile. Left out: the wait for that UPDATE's row
lock, which `MessageService` has for sends; expiry, inactive
users, roles and passwords (a check may refuse for other reasons); the reason
of a failure, so that refused, limited and rolled back are one outcome; further
addresses at the limiter (the map is keyed and keys do not interact); further
conversations for `mark_read`.

## 3. Runs

Each property of a passing run is also broken by a named mutant of the code
(`PROJECT.json`, "mutants"), under the same configuration.

| run | instance | result |
|---|---|---|
| `send_postgres` | 3 calls, 2 workers, 1 conversation, 2 client ids, 1 session, row locks | safety with `NoCircularWait` and `FailuresExplained`, `ImplementsLog` and `ImplementsFeed` hold, 624 thousand states |
| `send_sqlite` | 2 calls, 2 workers, 2 conversations, 1 session, one writer, responses first | `AnsweredIsStored`, `NoCircularWait`, `ImplementsLog`, `EveryCallEnds` hold, 183 thousand states |
| `send_conflict` | 2 calls, 1 worker | violated: `NoSequenceConflict` |
| `send_duplicates` | 2 calls, 1 worker | violated: `DuplicatesSucceed` |
| `outbox` | 2 events, 2 workers, 2 attempts, 1 fault, row locks | safety and `ImplementsDelivery` hold, 391 thousand states |
| `outbox_live` | 1 event, 2 targets, 2 workers, 2 attempts, 1 fault, 1 reset | `DeliveredArrived`, `DeadLetterEarned`, `ImplementsDelivery`, `EveryEventSettles` hold, 201 thousand states |
| `outbox_retry` | 2 events, 1 worker | violated: `RetryResetsOneMessage` |
| `outbox_claim` | 1 event, 2 workers | violated: `DeliveredIsFinal` |
| `outbox_dead_letter` | 1 event, 1 worker | violated: `DeadLetterListed` |
| `hub` | 1 client, page or terminal, 2 connections, 1 worker, a WebSocket and a REST message, replay and preload of 1 | safety, `FollowsFeed` and `PresenceRecovers` hold, 343 thousand states |
| `hub_lost` | 1 client, 1 connection, 2 workers, 2 messages | violated: `NothingLost` |
| `sessions` | 3 calls, 1 device, page or terminal, 1 worker, 2 read positions, 1 login per window of 2 | safety and `ImplementsLedger` hold, 1.5 million states |

Why these bounds suffice: two calls in one worker meet at the lock, two in
different workers at the constraints, and a third call sees the row of the first
while the second still waits. Two conversations show that locks and numbers do
not leak between them. Two client ids are the same and the other. One session
makes every pair of REST calls meet at its row. In `send_postgres` that is the
COMMIT of a duplicate behind a send: two sends that have both inserted need two
conversations, which the single writer of `send_sqlite` keeps apart, so that a
flush waits for a session's row is covered by the proof (`NoCircularWaitAlways`)
and not by a run. With two outbox workers one overtakes the snapshot of the
other; two attempts tell a lost count from a kept one; two events make a batch
with a rest that can be lost, and a dead letter of "another" message. A fault is
a death or a COMMIT that raises after it took effect; one of them, with a
failing dispatch, is enough for a dead letter that one dispatch was counted
twice for. A reset needs a dead event, so it is checked with one event. In
`hub`, a second connection overlaps the handler of the first, a replay limit of
1 below two messages makes a replay full, and the REST message is announced and
then aborted. `hub` has one worker: two take it beyond what can be checked with
fairness, so `PresenceRecovers` is checked for the handlers of one worker only,
and the OFFLINE of another worker's handler, which is the same UPDATE, is not
claimed. Whether a message was sent in the client's own worker is a condition of
`NoGapWhileJoined` and is varied in `hub_lost` and the proofs. In `sessions`,
three calls are a login, a request that revokes it and one that uses it; an
issue and two redemptions; or a login and two overlapping reads. `Window` 2 and
`MaxTime` 2 let a login leave its window. `Tick` happens only while a login
waits at the limiter, which alone reads the clock. `MaxConns` and `MaxTime` are
bounds on what happens, not limits of the code. The safety theorems below hold
for all sizes. Deadlock checking is off because every system here may stop: all
calls ended, all events settled.

### What the violations say

* `send_conflict`: `README.md` promises "zero gaps and zero sequence conflicts".
  There are no gaps; but the lock ends before the commit, so two sends in a row
  to one conversation can compute the same number, and the second ends in an
  IntegrityError. The client's retry succeeds.
* `send_duplicates`: `tests/load/test_concurrency.py` demands that all concurrent
  duplicates succeed. With REST sends only, as in that test, the loser of the
  race fails after its rollback.
* `outbox_retry`: the comment in `retry_delivery` says "for this message"; every
  message's dead letters are reset.
* `outbox_claim`: a "claim" excludes nobody. The event is dispatched twice, and a
  delivered event may go back to retrying or failed.
* `outbox_dead_letter`: an event dead-lettered through the exception path shows
  no failed delivery, so the documented inspection and re-queue cannot find it.
* `hub_lost`: `CLI.md` says a reconnect with the last sequence loses nothing.
  The cursor is the highest number seen. A message sent through the other worker
  is not broadcast to this socket; the next one sent through its own moves the
  cursor past it, and no later sync asks for it. What the code does guarantee is
  in `NoGapWhileJoined`, `ReplayHasNoHoles` and `CursorWithinLog`.

### What the properties that hold do not say

* `AnsweredIsStored` and `AnnouncedIsStored` leave out a REST send that is
  answered or broadcast before its COMMIT: there the code does nothing against
  it. `SavedIsCommitted`, `OneTimeAfterAnswer` and the part of `RevokedIsRefused`
  about devices assume, where they say `~respondFirst`, a FastAPI that answers
  after the COMMIT.
* `FailuresExplained`: a COMMIT that raised tells a client nothing. What holds is
  that the row, if it is there, answers every retry with its client id.
* `DeadLetterEarned`: a dead letter may have had fewer than `max_retries`
  dispatches, by one for each COMMIT that raised although it took effect, and by
  any number when a worker that held an old object of the event across the
  administrator's reset wrote the old count back. Nothing else costs an attempt.
* `Delivery` lets a delivered event go back to open or dead, which is what
  `outbox_claim` shows, but never without a dispatch of that event.
* `OneTimeAfterAnswer` speaks of redemptions sent after an answer. Overlapping
  ones may both succeed, although `API.md` line 62 calls a token one-time;
  `Ledger` lets a used token be used again. `ReceiptLostOnlyInRace` allows an
  overlapping call to move a position back, and only such a call.
* `RevokedIsRefused` is about REST calls. `RUNBOOK.md` line 70 says that revoking
  a device severs its WebSocket connections and API calls immediately. Nothing in
  the code closes a socket: one that is open is served until it disconnects. Nor
  is "immediately" (also `SECURITY.md` 4.4) true of the calls if the answer
  precedes the COMMIT, since only `get_db` commits `revoke_device`.
* `EveryChangeAudited` ties the changes that are made to their rows, in both
  directions: a row of a login, an enrollment, an issue, a logout or a revocation
  has its change (that of a device for the sessions whose login was answered
  before the revocation was sent, if answers follow COMMITs). It says nothing of
  what is not a change, and the code falls short there:
  `RUNBOOK.md` line 73 lists failed signature checks and SSRF blocks among the
  audit rows, and `routers/webhooks.py` 44-45 and `routers/admin.py` 185-187
  raise without writing one; the rows of a failed login or redemption, logged
  according to `docs/SECURITY_FINDINGS.md` line 45, are added to a session that
  the exception then rolls back.

## 4. Fairness

`MessageService`: weak fairness of a call's own steps (the event loop runs every
ready task, the database answers every statement) and strong fairness of
`Acquire` (asyncio.Lock wakes waiters first in, first out). A failing commit, a
crash, or the arrival of a request is never forced; `CommitFails` and
`CommitLost` are ways out of a commit that the database must answer.
`OutboxWorker`: weak fairness of each worker's loop (it polls every second,
every adapter has an HTTP timeout, and a lock is released at a COMMIT) and of
time (`Wake`). Failures are never forced, and only their number is bounded.

`Hub`: strong fairness of a heartbeat on a client's open socket (both clients
send one every 20 seconds as long as their end is open, and the handler takes
the frames of a socket in order, between its broadcasts) and weak fairness of a
handler's broadcast (every `send_text` ends: uvicorn closes a peer that answers
no protocol ping). Connecting, dropping, sending and dying are never forced;
`PresenceRecovers` speaks of a client that has a synced socket from some point
on. `Sessions` states no fairness: nothing in it is promised to happen.

## 5. Proofs

All proofs are for every value of the constants; the assumptions are the named
`ASSUME`s of the modules (`None` is no call or snapshot; limits are positive;
events have a creation order; the outbox workers and the messages are finitely
many; the names of calls, sessions and tokens do not collide). Every safety
property and every refinement of the passing runs is proved.

**MessageService** (`Invariance`). `Gapless` and `CommitsInOrder` are not
inductive: they say nothing of the number a call has computed and carries
across awaits. `IInv` adds:
`NextBounded`, a carried number is never above the committed maximum plus one,
and it stays so since the maximum only grows; `StagedFresh` and `StagedOwn`, an
open transaction holds its own row and that row clashes with no committed one.
Since the committed numbers are exactly 1..n (`Numbered`), a fresh number at
most n+1 *is* n+1. Two open transactions of a conversation would then carry the
same number and one would have been blocked: at most one is open, and its commit
extends 1..n to 1..n+1. The proof never uses the lock, so the numbers do not
depend on it. `Pending`, `ReturnedOwn` and `AckedLate` follow the caller's plan
to `AnsweredIsStored`; `SameAnswer` follows from it and the unique client id;
`OutboxComplete` is inductive by itself. `AnnouncedIsStored` needs
`AnnouncePlan` (only a new REST call has a broadcast ahead of its commit) and
`Settled` (a call never gets a second request).

**Waits and errors** (`MessageService_waits`). `LockInv` says that a held lock
belongs to a call of its key inside the block of `send_message` and that such a
call holds its lock: every way out of the block, by a return, a re-raised
IntegrityError, a busy database or a crash, releases it. `MutualExclusion`
follows. A call waits for the holder of its lock, or, when it flushes, for the
open transactions that block its INSERT (`Blockers`). The holder is inside the
block, so it waits for transactions only. An INSERT waits for a call with a row,
which may itself wait in its flush for its session's row (`touching`); whoever
holds that row has sent its INSERTs and its session UPDATE and is in its
epilogue, where a call with a row waits for nobody (`WriterFree`, `TouchWaits`).
On the single-writer database at most one call has a row (`OneWriter`). So the
kinds of waits are ranked, lock over key over session row, and a wait leads to a
lower kind: a set of calls that all wait inside it can have no member of the
lowest kind, hence none of the next, hence none (`NoCircularWait`, for sets of
any size; the safety core of `EveryCallEnds`). It rests on the order of the
flush: SQLAlchemy sorts its statements by the dependencies of the mapped classes
and then by their names, so that `Message` comes before `Session`; the other
order is the mutant `HoldsSessionEarly`. `FailuresExplained` needs
`FailedClean`, a call that failed before its COMMIT has no committed row;
`Obstructed`, a call between its conflict and its second query has the clashing
row in the table, where it stays; and, for a COMMIT that raised, the unique
client id (`AbortedAnswer`).

**Refinement**. With `IInv`, the committed rows in the order of their numbers
are a sequence; a commit appends one entry (`LogExtends`), and the answer
of a call that ends is the place of its row (`PlaceOfRow`, `AnswerTold`). Every
other step leaves the log alone.

**OutboxWorker** (`OutboxInvariance`). That a dead letter was earned is
delicate, because counts come from snapshots. `Counted` says: each count, in the
row or in any snapshot, plus the number of workers that have dispatched the event
and not yet written its outcome, is at most `Charged`, the dispatches and the
outcomes written unknowingly (or that has reached `MaxRetries`). A claim raises
both sides by one, an outcome moves one from the workers to the count, a COMMIT
that raises all the same adds one to the count, leaves its worker waiting, and is
charged as lost; a crash lowers the left side. A reset sets both sides to zero,
unless a snapshot of the event is about; then the event is `raced` and `Charged`
is `MaxRetries` at once. `MarksTrue` carries `DeliveredArrived`.

**Delivery** (`DeliveryImplemented`, in `OutboxWorker_proof`). The mapping
forgets workers, snapshots and marks. A claim is a dispatch, an adapter's answer
an arrival or nothing, and `Settle`, `SettleLost` or `MarkError` concludes, the
second with a try of its own: that the event was
dispatched before follows from `Counted`, since the worker that writes is one of
those it counts, and what may be written from `DeliveredArrived` and
`DeadLetterEarned` in the next state. `Known` adds that a snapshot is one of a
committed event, and that no delivery row precedes its event.

**Feed**. `FInv` adds to the service's `IInv` that a committed row is what its
own call was given (`RowsOwn`) and that a call without an answer holds no result
(`NoneYet`). The last number of a conversation in the feed is then its `MAX`
(`LastOfFeed`). A REST flush enters the message staged, a COMMIT stores it or
enters that of another caller, a failing COMMIT or a crash aborts, and a
duplicate's answer is another call's row and changes nothing. `CommitsInOrder`
gives that nothing else of the conversation is staged. On the hub's side
(`HubFollowsFeed`) each step of a message is one of the feed by its own guard.

**Hub** (`Invariance` of `Hub_proof`). `IInv` has three layers. *Ground*: a
running broadcast and a room hold connections of their worker only (this is
`RoomsExact`, with the handlers' places), and an uncommitted row carries the
next number. *Display*: what is on a wire, in a replay or shown was sent, each
page shows a message once, and a cursor that passes the log is the number of a
REST message without COMMIT that the client shows. *Arrival*: for each synced
connection and each message its sync has to cover, the message is shown, on the
wire, or due: in the replay being prepared or in a broadcast that will take, or
took, a copy of a room with the socket in it. Registration precedes the read of
the history, so a message that the read misses is committed later, its broadcast
begins later, and the copy has the socket. `ReplayHasNoHoles` needs that numbers
are only ever added at the end (`Grows`) and that a replay is closed downwards
above its cursor, which the limit of `get_history` keeps since it takes the
oldest.

**Sessions** (`Sessions_proof`). `IInv` follows the life of a call: what is named
by a call that has not committed does not exist (`Unborn`), flushed writes are
those of the call's own kind (`WritesOwn`, `Owed`), sessions that are spoken of
exist (`Present`), a committed call has had its effect (`Effects`), and what was
answered has committed, unless FastAPI answers first (`AckedLate`,
`BeforeFinished`). A revoked session and a used token stay so
(`CommitStable`); so a request sent after the answer finds them. For the
revocation of a device, a session whose login was answered before is in the
table, so the call finds it; no later COMMIT can open it (`EarlierStays`), and
what a call revokes depends on requests that are not changed once they are sent
(`RevokesFrame`).
`DeviceKnows` says what a device's step tells of its credential: a terminal that
confirms was served once with it.

**Sessions_tables**. *Audit*: a call's changes and its audit row are one COMMIT
(`Unsent`, `RevokesOwn` say what the flushed changes are). *Windows*: an entry is
added when the last `Window` readings hold fewer than `MaxLogins`; the clock does
not run back, so a window that contains the new entry ends at it or is counted
in that check. *Read positions*: where the row is below the position of a call
that is done, a call that overlapped it undid it (`StandingHolds`). The lowering
call may itself have loaded a row that was lowered already, and so been sent
after the other was done; then what it loaded was undone by a call that was not
(`LoadedHolds`), and that call is the witness.
*Ledger* (`LedgerImplemented`): the COMMIT is the one step of a call that touches
the tables; what it flushed is owed by its own request (`Owed`), what it creates
does not exist yet (`Unborn`) and it has no audit row yet (`Unrecorded`), so the
COMMIT is one change of the ledger, or none for the calls that only read.

Only model-checked: the liveness properties `EveryCallEnds`,
`EveryEventSettles` and `PresenceRecovers`; fairness is out of this prover's
reach.

## 6. Not modelled

* Attachments and storage: upload and signed links are I/O around one insert of
  a row that nothing else changes, and nothing links it to a message.
* Crypto and SSRF checks (`packages/shared`): pure functions over cryptography,
  URLs and DNS.
* Integration adapters: only what the router sees of them. Formatting and
  signing are left out.
* `search_messages`, `get_unread_count`, listing and creating conversations, the
  admin's read endpoints: they read, or insert a row that nothing here concerns.
* The admin's webhook endpoints: configuration, fixed during a run.
* `get_user_presence` and `expire_stale_sessions`: nothing calls them, so a user
  whose worker died stays online until a later socket closes.
* `create_user`: called by the seed script only.
* Forms, rendering, the terminal's input loop; health, launchers, migrations.
  `scripts/verify_integrity.py` recomputes from a stored table what `Gapless` and
  `OutboxComplete` say of every reachable one.
* The outbox together with SQLite's single writer: that a claim holds the
  database's write lock across HTTP calls appears as a possible busy timeout
  (`FlushBusy`, `Abandon`), not as one composed state space.
