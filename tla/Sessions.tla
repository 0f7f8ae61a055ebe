------------------------------- MODULE Sessions -------------------------------
(***************************************************************************)
(* Logins, enrollment tokens, sessions, their revocation and read          *)
(* positions: the requests that routers/auth, routers/admin and the read   *)
(* endpoints serve, and the devices that keep a credential.  One element   *)
(* of Calls is one request; it awaits between the steps below.  Its writes *)
(* are flushed, then committed: explicitly by revoke_session and the       *)
(* WebSocket, by get_db for every other endpoint.                          *)
(*                                                                         *)
(* The session a call opens and the enrollment token it issues are named   *)
(* by the call.  Expiry, inactive users, wrong passwords and roles are a   *)
(* choice to refuse.                                                       *)
(***************************************************************************)
EXTENDS Naturals, FiniteSets

CONSTANTS
  Calls,     \* requests
  Workers,   \* uvicorn worker processes
  Devices,   \* client installations, each with one device name
  Seeds,     \* sessions open at the start: the administrator's
  Tokens,    \* enrollment tokens issued before the start
  Positions, \* the read positions clients send
  MaxLogins, \* RATE_LIMIT_LOGIN_PER_MINUTE
  Window,    \* window_seconds
  MaxTime,   \* bound: the last clock reading
  None       \* "no device", "no session", "no request"

ASSUME LimitsAssumption == {MaxLogins, Window, MaxTime} \subseteq Nat
ASSUME PositionsAssumption == Positions \subseteq Nat \ {0}
ASSUME NamesAssumption ==
  None \notin Calls \cup Devices \cup Seeds \cup Tokens /\ Calls \cap (Seeds \cup Tokens) = {}

VARIABLES
  respondFirst, \* TRUE: FastAPI sends a response before get_db's COMMIT
  web,          \* the devices that are browsers; the others are terminals
  clock,        \* time.time()
  logins,       \* logins[w]: <<time, call>> of the logins worker w let through
  pc,           \* pc[c]: the step call c awaits next, or how it ended
  req,          \* req[c]: the request of call c
  before,       \* before[c]: the calls answered or finished when c was sent
  saw,          \* saw[c]: last_read_sequence in the row call c loaded
  writes,       \* writes[c]: what call c has flushed and not committed
  acked,        \* the calls whose client may have received a success
  sessions,     \* sessions[s]: absent, open or revoked, as committed
  tokens,       \* tokens[t]: absent, fresh or used, as committed
  position,     \* last_read_sequence of the participant, as committed
  audit,        \* the calls with a committed row in audit_events
  stage,        \* stage[d]: what device d is doing
  call,         \* call[d]: the request device d waits for
  holds,        \* holds[d]: the session of the token in device d's memory
  saved         \* saved[d]: that of credentials.json or localStorage

server == <<clock, logins, pc, req, before, saw, writes, acked>>
tables == <<sessions, tokens, position, audit>>
device == <<stage, call, holds, saved>>
config == <<respondFirst, web>>
vars == <<config, server, tables, device>>

Sess == Seeds \cup Calls
Toks == Tokens \cup Calls
Kinds == {"login", "enroll", "me", "logout", "issue", "revoke", "revokeDevice",
          "read", "wsread"}
\* The administrator's calls.
AdminKinds == {"issue", "revoke", "revokeDevice"}
\* The calls that commit before they answer, whatever FastAPI does.
Explicit == {"logout", "revoke", "wsread"}
\* A request: by a device (None: the administrator), with the credential of a
\* session, about a session, token, device or position.
Request == [kind : Kinds, worker : Workers, by : Devices \cup {None},
            sess : Sess \cup {None},
            target : Sess \cup Toks \cup Devices \cup Positions \cup {None}]
Writes == [open : SUBSET Sess, revoke : SUBSET Sess, issue : SUBSET Toks,
           use : SUBSET Toks, pos : Positions \cup {0}]
NoWrites == [open |-> {}, revoke |-> {}, issue |-> {}, use |-> {}, pos |-> 0]

Running == {"limiting", "checking", "reading", "writing", "ending", "committing"}
\* Served; or refused, limited or rolled back: an error answer, or none.
Ended == {"done", "failed"}

TypeOK ==
  /\ respondFirst \in BOOLEAN /\ web \subseteq Devices
  /\ clock \in 0..MaxTime
  /\ logins \in [Workers -> SUBSET ((0..MaxTime) \X Calls)]
  /\ pc \in [Calls -> {"idle"} \cup Running \cup Ended]
  /\ req \in [Calls -> Request \cup {None}]
  /\ before \in [Calls -> SUBSET Calls]
  /\ saw \in [Calls -> Positions \cup {0}]
  /\ writes \in [Calls -> Writes]
  /\ acked \subseteq Calls
  /\ sessions \in [Sess -> {"absent", "open", "revoked"}]
  /\ tokens \in [Toks -> {"absent", "fresh", "used"}]
  /\ position \in Positions \cup {0}
  /\ audit \subseteq Calls
  /\ stage \in [Devices -> {"off", "entering", "entered", "confirming", "resuming",
                            "on", "leaving"}]
  /\ call \in [Devices -> Calls \cup {None}]
  /\ holds \in [Devices -> Sess \cup {None}]
  /\ saved \in [Devices -> Sess \cup {None}]

Init ==
  /\ respondFirst \in BOOLEAN /\ web \in SUBSET Devices
  /\ clock = 0
  /\ logins = [w \in Workers |-> {}]
  /\ pc = [c \in Calls |-> "idle"]
  /\ req = [c \in Calls |-> None]
  /\ before = [c \in Calls |-> {}]
  /\ saw = [c \in Calls |-> 0]
  /\ writes = [c \in Calls |-> NoWrites]
  /\ acked = {}
  /\ sessions = [s \in Sess |-> IF s \in Seeds THEN "open" ELSE "absent"]
  /\ tokens = [t \in Toks |-> IF t \in Tokens THEN "fresh" ELSE "absent"]
  /\ position = 0
  /\ audit = {}
  /\ stage = [d \in Devices |-> "off"]
  /\ call = [d \in Devices |-> None]
  /\ holds = [d \in Devices |-> None]
  /\ saved = [d \in Devices |-> None]

-------------------------------------------------------------------------------
Goto(c, step) == pc' = [pc EXCEPT ![c] = step]

\* A client sends request r as call c.
Send(c, r) ==
  /\ pc[c] = "idle"
  /\ req' = [req EXCEPT ![c] = r]
  /\ before' = [before EXCEPT ![c] = acked \cup {d \in Calls : pc[d] = "done"}]
  /\ Goto(c, CASE r.kind = "login" -> "limiting"
               [] r.kind \in {"enroll", "wsread"} -> "reading"
               [] OTHER -> "checking")

\* Mutant of Limited: one login more than the limit is let through.
LimitedLate(w) ==
  Cardinality({x \in logins[w] : x[1] + Window > clock}) > MaxLogins

\* is_rate_limited for the one address that all logins of the model come from:
\* the entries a call prunes are those no window counts again.
Limited(w) ==
  Cardinality({x \in logins[w] : x[1] + Window > clock}) >= MaxLogins

\* RateLimitMiddleware, before the endpoint.
LimitLogin(c) ==
  /\ pc[c] = "limiting"
  /\ LET w == req[c].worker IN
     IF Limited(w)
     THEN Goto(c, "failed") /\ UNCHANGED logins
     ELSE Goto(c, "reading") /\ logins' = [logins EXCEPT ![w] = @ \cup {<<clock, c>>}]
  /\ UNCHANGED <<config, clock, req, before, saw, writes, acked, tables, device>>

\* get_current_user_and_session and require_roles: the session of the token is
\* not revoked, or the call ends here; it may do so for other reasons.
CheckSession(c) ==
  /\ pc[c] = "checking"
  /\ \/ sessions[req[c].sess] = "open" /\ Goto(c, "reading")
     \/ Goto(c, "failed")
  /\ UNCHANGED <<config, clock, logins, req, before, saw, writes, acked, tables, device>>

\* Mutant of TokenRedeemable: is_used is not looked at.
TokenExists(t) == tokens[t] # "absent"
TokenRedeemable(t) == tokens[t] = "fresh"

\* The rows the endpoint loads.  A failed login or redemption raises: its audit
\* row is rolled back with the rest.
ReadRows(c) ==
  /\ pc[c] = "reading"
  /\ saw' = [saw EXCEPT ![c] = IF req[c].kind \in {"read", "wsread"} THEN position ELSE 0]
  /\ \/ /\ req[c].kind = "enroll" => TokenRedeemable(req[c].target)
        /\ req[c].kind = "revoke" => sessions[req[c].target] # "absent"
        /\ Goto(c, "writing")
     \/ req[c].kind \in {"login", "enroll", "revoke"} /\ Goto(c, "failed")
  /\ UNCHANGED <<config, clock, logins, req, before, writes, acked, tables, device>>

-------------------------------------------------------------------------------
\* authenticate_user and create_session.
LoginWrites(c) == [NoWrites EXCEPT !.open = {c}]
\* redeem_enrollment_token.
EnrollWrites(c) == [NoWrites EXCEPT !.open = {c}, !.use = {req[c].target}]
\* create_enrollment_token.
IssueWrites(c) == [NoWrites EXCEPT !.issue = {c}]
\* revoke_session, by logout on the caller's own session.
RevokeWrites(s) == [NoWrites EXCEPT !.revoke = {s}]
OpenedBy(s, d) == s \in Calls /\ req[s] # None /\ req[s].by = d
\* Mutant of RevokeDeviceWrites: the UPDATE selects the revoked sessions.
RevokeDeviceWritesRevoked(d) ==
  [NoWrites EXCEPT !.revoke = {s \in Sess : sessions[s] = "revoked" /\ OpenedBy(s, d)}]
\* revoke_device: the open sessions of the device's name.
RevokeDeviceWrites(d) ==
  [NoWrites EXCEPT !.revoke = {s \in Sess : sessions[s] = "open" /\ OpenedBy(s, d)}]

\* Mutants of ReadWrites: the position after the one sent; the row takes whatever position was sent.
ReadWritesNext(c) == [NoWrites EXCEPT !.pos = req[c].target + 1]
ReadWritesAny(c) == [NoWrites EXCEPT !.pos = req[c].target]
\* mark_read: only beyond the position in the row this call loaded.
ReadWrites(c) == IF req[c].target > saw[c] THEN [NoWrites EXCEPT !.pos = req[c].target]
                                           ELSE NoWrites

\* Mutant of TouchWrites: the whole row of the session is written back.
TouchWritesRow(c) == [NoWrites EXCEPT !.open = {req[c].sess}]
\* get_current_user_and_session sets last_seen_at of the session it has loaded:
\* the UPDATE leaves out is_revoked, whatever it has become since.
TouchWrites(c) == NoWrites

WritesOf(c) ==
  LET r == req[c] IN
  CASE r.kind = "login" -> LoginWrites(c)
    [] r.kind = "enroll" -> EnrollWrites(c)
    [] r.kind = "issue" -> IssueWrites(c)
    [] r.kind = "logout" -> RevokeWrites(r.sess)
    [] r.kind = "revoke" -> RevokeWrites(r.target)
    [] r.kind = "revokeDevice" -> RevokeDeviceWrites(r.target)
    [] r.kind \in {"read", "wsread"} -> ReadWrites(c)
    [] OTHER -> TouchWrites(c)

\* Two transactions that update one row: the second waits for the first.
SameRow(v, w) ==
  \/ v.revoke \cap w.revoke # {}
  \/ v.use \cap w.use # {}
  \/ v.pos # 0 /\ w.pos # 0

\* Mutant of RespondsFirst: revoke_session leaves the COMMIT to get_db.
RespondsFirstImplicit(c) == respondFirst

\* The answer leaves before the COMMIT.
RespondsFirst(c) == respondFirst /\ req[c].kind \notin Explicit

\* The endpoint's statements are flushed.
Flush(c) ==
  /\ pc[c] = "writing"
  /\ \A d \in Calls \ {c} : ~SameRow(WritesOf(c), writes[d])
  /\ writes' = [writes EXCEPT ![c] = WritesOf(c)]
  /\ Goto(c, IF RespondsFirst(c) THEN "ending" ELSE "committing")
  /\ UNCHANGED <<config, clock, logins, req, before, saw, acked, tables, device>>

Audited == {"login", "enroll", "issue", "logout", "revoke", "revokeDevice"}

\* record_audit adds a row to the call's own transaction.
AuditRows(c) == IF req[c].kind \in Audited THEN {c} ELSE {}

\* COMMIT: the flushed rows take effect together.
Commit(c) ==
  LET w == writes[c] IN
  /\ pc[c] = "committing"
  /\ Goto(c, IF RespondsFirst(c) THEN "done" ELSE "ending")
  /\ sessions' = [s \in Sess |-> IF s \in w.revoke THEN "revoked"
                                 ELSE IF s \in w.open THEN "open" ELSE sessions[s]]
  /\ tokens' = [t \in Toks |-> IF t \in w.use THEN "used"
                               ELSE IF t \in w.issue THEN "fresh" ELSE tokens[t]]
  /\ position' = IF w.pos = 0 THEN position ELSE w.pos
  /\ audit' = audit \cup AuditRows(c)
  /\ writes' = [writes EXCEPT ![c] = NoWrites]
  /\ UNCHANGED <<config, clock, logins, req, before, saw, acked, device>>

\* The success is sent; the WebSocket's read action answers nothing.
Answer(c) ==
  /\ pc[c] = "ending"
  /\ Goto(c, IF RespondsFirst(c) THEN "committing" ELSE "done")
  /\ acked' = IF req[c].kind = "wsread" THEN acked ELSE acked \cup {c}
  /\ UNCHANGED <<config, clock, logins, req, before, saw, writes, tables, device>>

\* An exception, a deadlock or a failed COMMIT: the transaction is rolled back.
Rollback(c) ==
  /\ pc[c] \in Running \ {"ending"}
  /\ Goto(c, "failed")
  /\ writes' = [writes EXCEPT ![c] = NoWrites]
  /\ UNCHANGED <<config, clock, logins, req, before, saw, acked, tables, device>>

\* A worker dies: its calls are rolled back, its limiter starts empty.
CrashWorker(w) ==
  LET mine == {c \in Calls : pc[c] \in Running /\ req[c].worker = w} IN
  /\ mine # {} \/ logins[w] # {}
  /\ pc' = [c \in Calls |-> IF c \in mine THEN "failed" ELSE pc[c]]
  /\ writes' = [c \in Calls |-> IF c \in mine THEN NoWrites ELSE writes[c]]
  /\ logins' = [logins EXCEPT ![w] = {}]
  /\ UNCHANGED <<config, clock, req, before, saw, acked, tables, device>>

\* Only the limiter reads the clock: time passes while a login waits for it.
Tick ==
  /\ clock < MaxTime /\ \E c \in Calls : pc[c] = "limiting"
  /\ clock' = clock + 1
  /\ UNCHANGED <<config, logins, pc, req, before, saw, writes, acked, tables, device>>

-------------------------------------------------------------------------------
\* Device d sends a request and waits for its answer in step `step`.
Ask(d, c, kind, sess, target, step) ==
  /\ \E w \in Workers :
       Send(c, [kind |-> kind, worker |-> w, by |-> d, sess |-> sess, target |-> target])
  /\ stage' = [stage EXCEPT ![d] = step]
  /\ call' = [call EXCEPT ![d] = c]
  /\ UNCHANGED <<config, clock, logins, saw, writes, acked, tables>>

\* The device reaches step `step` and keeps credential h in memory, s on disk.
Settle(d, step, h, s) ==
  /\ stage' = [stage EXCEPT ![d] = step]
  /\ call' = [call EXCEPT ![d] = None]
  /\ holds' = [holds EXCEPT ![d] = h]
  /\ saved' = [saved EXCEPT ![d] = s]
  /\ UNCHANGED <<config, server, tables>>

\* A token somebody was given: issued before the start, or by an answered call.
Known(t) == t \in Tokens \/ (t \in acked /\ req[t].kind = "issue")
Answered(d) == call[d] # None /\ call[d] \in acked

\* The terminal enrolls when it is told to, and logs in when it has nothing saved.
CliEnter(d, c) ==
  /\ d \notin web /\ stage[d] = "off"
  /\ \/ \E t \in Toks : Known(t) /\ Ask(d, c, "enroll", None, t, "entering")
     \/ saved[d] = None /\ Ask(d, c, "login", None, None, "entering")
  /\ UNCHANGED <<holds, saved>>

\* Mutant of CliEntered: the credential is saved before it has been used.
CliEnteredEager(d) ==
  d \notin web /\ stage[d] = "entering" /\ Answered(d) /\ Settle(d, "entered", call[d], call[d])

CliEntered(d) ==
  d \notin web /\ stage[d] = "entering" /\ Answered(d) /\ Settle(d, "entered", call[d], saved[d])

\* The terminal fetches its conversations before it saves the credential.
CliConfirm(d, c) ==
  /\ stage[d] = "entered"
  /\ Ask(d, c, "me", holds[d], None, "confirming")
  /\ UNCHANGED <<holds, saved>>
CliConfirmed(d) ==
  stage[d] = "confirming" /\ Answered(d) /\ Settle(d, "on", holds[d], holds[d])

\* The page logs in or enrolls, and stores the token at once.
WebEnter(d, c) ==
  /\ d \in web /\ stage[d] = "off" /\ saved[d] = None
  /\ \/ \E t \in Toks : Known(t) /\ Ask(d, c, "enroll", None, t, "entering")
     \/ Ask(d, c, "login", None, None, "entering")
  /\ UNCHANGED <<holds, saved>>
WebEntered(d) ==
  d \in web /\ stage[d] = "entering" /\ Answered(d) /\ Settle(d, "on", call[d], call[d])

\* Entering fails, for an error answer or for none in time.
EnterFails(d) ==
  stage[d] \in {"entering", "entered", "confirming"} /\ Settle(d, "off", None, saved[d])

\* A device that has a credential saved tries it, and drops it on any error.
Resume(d, c) ==
  /\ stage[d] = "off" /\ saved[d] # None
  /\ Ask(d, c, "me", saved[d], None, "resuming")
  /\ holds' = [holds EXCEPT ![d] = saved[d]]
  /\ UNCHANGED saved
Resumed(d) == stage[d] = "resuming" /\ Answered(d) /\ Settle(d, "on", holds[d], saved[d])
ResumeFails(d) == stage[d] = "resuming" /\ Settle(d, "off", None, None)

\* The page logs out at the server and forgets the token whatever comes back;
\* the terminal only forgets it.  Either may be closed and keep it.
WebLogout(d, c) ==
  /\ d \in web /\ stage[d] = "on"
  /\ Ask(d, c, "logout", holds[d], None, "leaving")
  /\ UNCHANGED <<holds, saved>>
WebLoggedOut(d) == stage[d] = "leaving" /\ Settle(d, "off", None, None)
CliLogout(d) == d \notin web /\ stage[d] \in {"on", "off"} /\ Settle(d, "off", None, None)
Close(d) == stage[d] = "on" /\ Settle(d, "off", None, saved[d])

\* A device in use marks a position as read, through REST or over its socket,
\* whose session was checked when the socket was opened.
MarkRead(d, c) ==
  /\ stage[d] = "on"
  /\ \E kind \in {"read", "wsread"}, n \in Positions, w \in Workers :
       Send(c, [kind |-> kind, worker |-> w, by |-> d, sess |-> holds[d], target |-> n])
  /\ UNCHANGED <<config, clock, logins, saw, writes, acked, tables, device>>

\* The administrator issues a token or revokes a listed session or a device.
Administer(c) ==
  /\ \E kind \in AdminKinds, s \in Seeds, w \in Workers :
       \E target \in CASE kind = "issue" -> {None}
                       [] kind = "revoke" -> {t \in Sess : sessions[t] # "absent"}
                       [] OTHER -> Devices :
         Send(c, [kind |-> kind, worker |-> w, by |-> None, sess |-> s, target |-> target])
  /\ UNCHANGED <<config, clock, logins, saw, writes, acked, tables, device>>

Next ==
  \/ \E c \in Calls :
       \/ LimitLogin(c) \/ CheckSession(c) \/ ReadRows(c) \/ Flush(c)
       \/ Commit(c) \/ Answer(c) \/ Rollback(c) \/ Administer(c)
       \/ \E d \in Devices : \/ CliEnter(d, c) \/ CliConfirm(d, c) \/ WebEnter(d, c)
                             \/ Resume(d, c) \/ WebLogout(d, c) \/ MarkRead(d, c)
  \/ \E d \in Devices :
       \/ CliEntered(d) \/ CliConfirmed(d) \/ WebEntered(d) \/ EnterFails(d)
       \/ Resumed(d) \/ ResumeFails(d) \/ WebLoggedOut(d) \/ CliLogout(d) \/ Close(d)
  \/ \E w \in Workers : CrashWorker(w)
  \/ Tick

Spec == Init /\ [][Next]_vars

-------------------------------------------------------------------------------
Revokes(c, s) ==
  \/ req[c].kind = "logout" /\ req[c].sess = s
  \/ req[c].kind = "revoke" /\ req[c].target = s
RevokesDeviceOf(c, s) == req[c].kind = "revokeDevice" /\ OpenedBy(s, req[c].target)
\* Where answers follow COMMITs: a session whose login had been answered when
\* the revocation of its device was sent.
RevokesEarlierOf(c, s) == ~respondFirst /\ RevokesDeviceOf(c, s) /\ s \in before[c]

\* API.md: logout "revokes the current session token immediately".  No REST
\* call sent after a logout or the revocation of a session was answered is
\* served for that session, whatever other requests of the session are
\* committing meanwhile; nor one sent after the revocation of a device was
\* answered, if answers follow COMMITs: only get_db commits revoke_device.  A
\* socket that is open stays open and is served: nothing closes it.
RevokedIsRefused ==
  \A c \in Calls : \A d \in before[c] : \A s \in Sess :
    /\ d \in acked /\ (Revokes(d, s) \/ RevokesEarlierOf(d, s))
    /\ req[c].sess = s /\ req[c].kind # "wsread"
    => pc[c] \in {"checking", "failed"}

\* An enrollment token is one-time: no call sent after a redemption was answered
\* redeems it again.  Redemptions that overlap may both succeed, and so may one
\* that follows an answer sent before its COMMIT.
OneTimeAfterAnswer ==
  \A c \in Calls : \A d \in before[c] :
    ~respondFirst /\ req[d].kind = "enroll" /\ req[c].kind = "enroll"
      /\ req[c].target = req[d].target
    => pc[c] \in {"reading", "failed"}

\* A saved credential names a session the database holds: the terminal has used
\* it once before it saves it; the page relies on the COMMIT preceding the answer.
SavedIsCommitted ==
  \A d \in Devices :
    saved[d] # None /\ (d \in web => ~respondFirst) => sessions[saved[d]] # "absent"

Reads == {c \in Calls : pc[c] # "idle" /\ req[c].kind \in {"read", "wsread"}}

\* A read position is undone only by calls that overlap it: where the row is
\* below a position whose call is done, a call for a smaller one, sent before
\* that call was done, had loaded the row before.  Read receipts sent one after
\* the other never move backwards.
ReceiptLostOnlyInRace ==
  \A c \in Reads :
    pc[c] = "done" /\ ~respondFirst /\ position < req[c].target =>
      \E d \in Reads : /\ pc[d] \in {"ending", "done", "failed"}
                       /\ saw[d] < req[d].target /\ req[d].target <= position
                       /\ c \notin before[d]

\* RATE_LIMIT_LOGIN_PER_MINUTE bounds the logins of every window of a worker's
\* life, wherever the window begins.
AdmittedPerWindow ==
  \A w \in Workers, t \in 0..MaxTime :
    Cardinality({x \in logins[w] : t <= x[1] /\ x[1] < t + Window}) <= MaxLogins

\* RUNBOOK.md: audit_events records logins, token redemptions and revocations.
\* Sessions and tokens change only together with the audit row of a call that
\* changes them, and no row tells of a change that did not happen: what it says
\* is opened, issued or used is so, what it says is revoked stays revoked.
EveryChangeAudited ==
  /\ \A s \in Sess :
       /\ s \in Calls /\ sessions[s] # "absent" => s \in audit
       /\ sessions[s] = "revoked" =>
            \E c \in audit : Revokes(c, s) \/ RevokesDeviceOf(c, s)
  /\ \A t \in Toks :
       /\ t \in Calls /\ tokens[t] # "absent" => t \in audit
       /\ tokens[t] = "used" => \E c \in audit : req[c].kind = "enroll" /\ req[c].target = t
  /\ \A c \in audit :
       /\ req[c].kind \in {"login", "enroll"} => sessions[c] # "absent"
       /\ req[c].kind = "enroll" => tokens[req[c].target] = "used"
       /\ req[c].kind = "issue" => tokens[c] # "absent"
       /\ \A s \in Sess : /\ Revokes(c, s) => sessions[s] = "revoked"
                          /\ RevokesEarlierOf(c, s) => sessions[s] # "open"

Accounts == INSTANCE Ledger

\* Requests that overlap, roll back, commit after their answers or die with
\* their worker change sessions, tokens and the audit log as if each were one
\* step of the ledger: no stale row brings back what another call has revoked
\* or used, and no change is half done.
ImplementsLedger == Accounts!Spec
===============================================================================
