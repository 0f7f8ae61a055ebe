---------------------------- MODULE Sessions_proof ----------------------------
(***************************************************************************)
(* Proofs about Sessions for every set of calls, workers, devices, seeds   *)
(* and tokens, and for both orders of answer and COMMIT.                   *)
(*                                                                         *)
(* The argument follows one call's life.  Until its COMMIT the session and *)
(* the token named by it do not exist, so that its COMMIT brings back      *)
(* nothing that was revoked or used meanwhile; what it has flushed is what *)
(* its request asks for; after its COMMIT the effect is there, for good.   *)
(* The properties then compare two calls: the one that was answered first  *)
(* has committed when the other looks.                                     *)
(***************************************************************************)
EXTENDS Sessions, TLAPS

\* The fields a request of each kind carries.
Shaped(r) ==
  /\ r \in Request
  /\ r.kind \in {"login", "enroll"} => r.sess = None
  /\ r.kind = "enroll" => r.target \in Toks
  /\ r.kind \notin {"login", "enroll"} => r.sess \in Sess
  /\ r.kind = "revoke" => r.target \in Sess
  /\ r.kind = "revokeDevice" => r.target \in Devices
  /\ r.kind \in {"read", "wsread"} => r.target \in Positions
ReqShaped ==
  \A c \in Calls : /\ pc[c] # "idle" => Shaped(req[c])
                   /\ pc[c] = "limiting" => req[c].kind = "login"

\* Call c has flushed its statements and not committed them.
Flushed(c) == pc[c] = "committing" \/ (pc[c] = "ending" /\ RespondsFirst(c))
Uncommitted(c) ==
  pc[c] \in {"idle", "limiting", "checking", "reading", "writing"} \/ Flushed(c)
Committed(c) ==
  \/ pc[c] = "done"
  \/ (pc[c] = "ending" \/ c \in acked) /\ ~RespondsFirst(c)

\* What call c has flushed is what its request asks for.
Owed(c, w) ==
  /\ w.open = IF req[c].kind \in {"login", "enroll"} THEN {c} ELSE {}
  /\ w.use = IF req[c].kind = "enroll" THEN {req[c].target} ELSE {}
  /\ w.issue = IF req[c].kind = "issue" THEN {c} ELSE {}
  /\ \A s \in Sess : /\ Revokes(c, s) => s \in w.revoke
                     /\ RevokesEarlierOf(c, s) => s \in w.revoke \/ sessions[s] # "open"
  /\ \A s \in w.revoke : sessions[s] # "absent"
WritesOwn ==
  \A c \in Calls : IF Flushed(c) THEN Owed(c, writes[c]) ELSE writes[c] = NoWrites

\* The session and the token a call names do not exist before its COMMIT.
Unborn ==
  \A c \in Calls : Uncommitted(c) => sessions[c] = "absent" /\ tokens[c] = "absent"

\* A call that was let in speaks for a session that exists, and revokes one or
\* uses a token that does.
Admitted(c) == pc[c] \in {"reading", "writing", "ending", "committing", "done"} \/ c \in acked
Present ==
  \A c \in Calls : pc[c] # "idle" /\ Admitted(c) =>
    /\ req[c].kind \notin {"login", "enroll", "wsread"} => sessions[req[c].sess] # "absent"
    /\ req[c].kind = "revoke" /\ pc[c] # "reading" => sessions[req[c].target] # "absent"
    /\ req[c].kind = "enroll" /\ pc[c] # "reading" => tokens[req[c].target] # "absent"

\* The effect of a committed call is in the tables.
Effects ==
  \A c \in Calls : Committed(c) =>
    /\ req[c].kind \in {"login", "enroll"} => sessions[c] # "absent"
    /\ req[c].kind = "enroll" => tokens[req[c].target] = "used"
    /\ \A s \in Sess : /\ Revokes(c, s) => sessions[s] = "revoked"
                       /\ RevokesEarlierOf(c, s) => sessions[s] # "open"

\* An answered call has committed or is about to.
AckedLate ==
  \A c \in acked : /\ pc[c] \in {"committing", "done", "failed"}
                   /\ pc[c] = "committing" => RespondsFirst(c)
BeforeFinished ==
  \A c \in Calls : \A d \in before[c] : d \in acked \/ pc[d] = "done"

\* A device that waits knows what it asked for, and with which credential.
DeviceKnows ==
  \A d \in Devices :
    /\ stage[d] \in {"entered", "confirming", "resuming", "on", "leaving"} => holds[d] \in Sess
    /\ stage[d] = "entering" =>
         /\ call[d] \in Calls /\ pc[call[d]] # "idle"
         /\ req[call[d]].kind \in {"login", "enroll"}
    /\ stage[d] \in {"confirming", "resuming"} =>
         /\ call[d] \in Calls /\ pc[call[d]] # "idle"
         /\ req[call[d]].kind = "me" /\ req[call[d]].sess = holds[d]

ServerInv ==
  /\ ReqShaped
  /\ WritesOwn
  /\ Unborn
  /\ Present
  /\ Effects
  /\ AckedLate
  /\ BeforeFinished
  /\ RevokedIsRefused
  /\ OneTimeAfterAnswer
IInv == TypeOK /\ ServerInv /\ DeviceKnows /\ SavedIsCommitted

-------------------------------------------------------------------------------
\* Requests: what the actions that send one have in common.
Sent(c, r) ==
  /\ Shaped(r) /\ Send(c, r)
  /\ UNCHANGED <<config, clock, logins, saw, writes, acked, tables>>

LEMMA NoneApart ==
  /\ None \notin Calls /\ None \notin Sess /\ None \notin Toks /\ None \notin Devices
  /\ \A n \in Positions : n \in Nat /\ n > 0
  /\ Calls \subseteq Sess /\ Calls \subseteq Toks
  BY NamesAssumption, PositionsAssumption DEF Sess, Toks

LEMMA AskSent ==
  ASSUME TypeOK, NEW d \in Devices, NEW c \in Calls, NEW kind \in Kinds,
         NEW sess \in Sess \cup {None},
         NEW target \in Sess \cup Toks \cup Devices \cup Positions \cup {None},
         NEW step, Ask(d, c, kind, sess, target, step),
         \A w \in Workers : Shaped([kind |-> kind, worker |-> w, by |-> d,
                                    sess |-> sess, target |-> target])
  PROVE  \E r : Sent(c, r) /\ r.kind = kind /\ r.sess = sess
  BY DEF Ask, Sent

\* Requests that carry a session and no target.
LEMMA AskSession ==
  ASSUME TypeOK, NEW d \in Devices, NEW c \in Calls, NEW kind \in {"me", "logout"},
         NEW sess \in Sess, NEW step, Ask(d, c, kind, sess, None, step)
  PROVE  \E r : Sent(c, r) /\ r.kind = kind /\ r.sess = sess
  <1>1. \A w \in Workers : Shaped([kind |-> kind, worker |-> w, by |-> d,
                                   sess |-> sess, target |-> None])
    BY DEF Shaped, Request, Kinds
  <1>2. QED
    BY <1>1, AskSent DEF Kinds

LEMMA MarkReadSent ==
  ASSUME TypeOK, DeviceKnows, NEW d \in Devices, NEW c \in Calls, MarkRead(d, c)
  PROVE  \E r : Sent(c, r)
  <1>1. PICK kind \in {"read", "wsread"}, n \in Positions, w \in Workers :
          Send(c, [kind |-> kind, worker |-> w, by |-> d, sess |-> holds[d], target |-> n])
    BY DEF MarkRead
  <1>2. holds[d] \in Sess
    BY DEF MarkRead, DeviceKnows
  <1>3. Shaped([kind |-> kind, worker |-> w, by |-> d, sess |-> holds[d], target |-> n])
    BY <1>2 DEF Shaped, Request, Kinds
  <1>4. QED
    BY <1>1, <1>3 DEF MarkRead, Sent

LEMMA AdministerSent ==
  ASSUME TypeOK, NEW c \in Calls, Administer(c)
  PROVE  \E r : Sent(c, r)
  <1>1. PICK kind \in AdminKinds, s \in Seeds, w \in Workers :
          \E target \in CASE kind = "issue" -> {None}
                          [] kind = "revoke" -> {t \in Sess : sessions[t] # "absent"}
                          [] OTHER -> Devices :
            Send(c, [kind |-> kind, worker |-> w, by |-> None, sess |-> s, target |-> target])
    BY DEF Administer
  <1>2. PICK target \in CASE kind = "issue" -> {None}
                          [] kind = "revoke" -> {t \in Sess : sessions[t] # "absent"}
                          [] OTHER -> Devices :
          Send(c, [kind |-> kind, worker |-> w, by |-> None, sess |-> s, target |-> target])
    BY <1>1
  <1>3. /\ kind = "issue" => target = None
        /\ kind = "revoke" => target \in Sess
        /\ kind = "revokeDevice" => target \in Devices
    BY <1>2 DEF AdminKinds
  <1>4. Shaped([kind |-> kind, worker |-> w, by |-> None, sess |-> s, target |-> target])
    BY <1>3 DEF Shaped, Request, Kinds, AdminKinds, Sess
  <1>5. QED
    BY <1>2, <1>4 DEF Administer, Sent

-------------------------------------------------------------------------------
\* Type correctness, action by action.
DeviceType ==
  /\ stage \in [Devices -> {"off", "entering", "entered", "confirming", "resuming",
                            "on", "leaving"}]
  /\ call \in [Devices -> Calls \cup {None}]
  /\ holds \in [Devices -> Sess \cup {None}]
  /\ saved \in [Devices -> Sess \cup {None}]

LEMMA TypeInit == Init => TypeOK
  BY LimitsAssumption DEF Init, TypeOK, NoWrites, Writes, Sess, Toks

LEMMA SentType ==
  ASSUME TypeOK, NEW c \in Calls, NEW r, Sent(c, r), DeviceType'
  PROVE  TypeOK'
  <1>1. pc' \in [Calls -> {"idle"} \cup Running \cup Ended]
    BY DEF TypeOK, Sent, Send, Goto, Running
  <1>2. req' \in [Calls -> Request \cup {None}] /\ before' \in [Calls -> SUBSET Calls]
    BY DEF TypeOK, Sent, Send, Shaped
  <1>3. QED
    BY <1>1, <1>2 DEF TypeOK, Sent, DeviceType, config, tables

LEMMA AskDevice ==
  ASSUME TypeOK, NEW d \in Devices, NEW c \in Calls, NEW kind, NEW sess, NEW target,
         NEW step \in {"entering", "confirming", "resuming", "leaving"},
         Ask(d, c, kind, sess, target, step),
         holds' \in [Devices -> Sess \cup {None}], saved' \in [Devices -> Sess \cup {None}]
  PROVE  DeviceType'
  BY DEF Ask, TypeOK, DeviceType

LEMMA SettleType ==
  ASSUME TypeOK, NEW d \in Devices, NEW step \in {"off", "entered", "on"},
         NEW h \in Sess \cup {None}, NEW s \in Sess \cup {None}, Settle(d, step, h, s)
  PROVE  TypeOK'
  BY DEF Settle, TypeOK, config, server, tables

LEMMA LimitLoginType ==
  ASSUME TypeOK, ReqShaped, NEW c \in Calls, LimitLogin(c)
  PROVE  TypeOK'
  <1>1. req[c].worker \in Workers
    BY DEF ReqShaped, LimitLogin, Shaped, Request
  <1>2. pc' \in [Calls -> {"idle"} \cup Running \cup Ended]
    BY DEF TypeOK, LimitLogin, Goto, Running, Ended
  <1>3. logins' \in [Workers -> SUBSET ((0..MaxTime) \X Calls)]
    <2>1. <<clock, c>> \in (0..MaxTime) \X Calls
      BY DEF TypeOK
    <2>2. QED
      BY <1>1, <2>1 DEF TypeOK, LimitLogin
  <1>4. QED
    BY <1>2, <1>3 DEF TypeOK, LimitLogin, config, tables, device

LEMMA CheckSessionType ==
  ASSUME TypeOK, NEW c \in Calls, CheckSession(c)
  PROVE  TypeOK'
  BY DEF TypeOK, CheckSession, Goto, Running, Ended, config, tables, device

LEMMA ReadRowsType ==
  ASSUME TypeOK, NEW c \in Calls, ReadRows(c)
  PROVE  TypeOK'
  BY DEF TypeOK, ReadRows, Goto, Running, Ended, config, tables, device

LEMMA WritesType ==
  ASSUME TypeOK, ReqShaped, NEW c \in Calls, pc[c] # "idle"
  PROVE  WritesOf(c) \in Writes
  <1>1. Shaped(req[c])
    BY DEF ReqShaped
  <1>2. NoWrites \in Writes
    BY DEF NoWrites, Writes
  <1>3. CASE req[c].kind \in {"login", "enroll", "issue"}
    BY <1>1, <1>3, NoneApart
    DEF WritesOf, LoginWrites, EnrollWrites, IssueWrites, NoWrites, Writes, Shaped
  <1>4. CASE req[c].kind \in {"logout", "revoke"}
    BY <1>1, <1>4 DEF WritesOf, RevokeWrites, NoWrites, Writes, Shaped
  <1>5. CASE req[c].kind = "revokeDevice"
    BY <1>5 DEF WritesOf, RevokeDeviceWrites, NoWrites, Writes
  <1>6. CASE req[c].kind \in {"read", "wsread"}
    BY <1>1, <1>2, <1>6 DEF WritesOf, ReadWrites, NoWrites, Writes, Shaped
  <1>7. CASE req[c].kind = "me"
    BY <1>2, <1>7 DEF WritesOf, TouchWrites
  <1>8. QED
    BY <1>1, <1>3, <1>4, <1>5, <1>6, <1>7 DEF Shaped, Request, Kinds

LEMMA FlushType ==
  ASSUME TypeOK, ReqShaped, NEW c \in Calls, Flush(c)
  PROVE  TypeOK'
  <1>1. WritesOf(c) \in Writes
    BY WritesType DEF Flush
  <1>2. QED
    BY <1>1 DEF TypeOK, Flush, Goto, Running, Ended, config, tables, device

LEMMA CommitType ==
  ASSUME TypeOK, NEW c \in Calls, Commit(c)
  PROVE  TypeOK'
  <1>1. writes[c] \in Writes /\ NoWrites \in Writes
    BY DEF TypeOK, NoWrites, Writes
  <1>2. sessions' \in [Sess -> {"absent", "open", "revoked"}]
    BY DEF TypeOK, Commit
  <1>3. tokens' \in [Toks -> {"absent", "fresh", "used"}]
    BY DEF TypeOK, Commit
  <1>4. position' \in Positions \cup {0}
    BY <1>1 DEF TypeOK, Commit, Writes
  <1>5. audit' \subseteq Calls
    BY DEF TypeOK, Commit, AuditRows
  <1>6. pc' \in [Calls -> {"idle"} \cup Running \cup Ended] /\ writes' \in [Calls -> Writes]
    BY <1>1 DEF TypeOK, Commit, Goto, Running, Ended
  <1>7. QED
    BY <1>2, <1>3, <1>4, <1>5, <1>6 DEF TypeOK, Commit, config, device

LEMMA AnswerType ==
  ASSUME TypeOK, NEW c \in Calls, Answer(c)
  PROVE  TypeOK'
  BY DEF TypeOK, Answer, Goto, Running, Ended, config, tables, device

LEMMA RollbackType ==
  ASSUME TypeOK, NEW c \in Calls, Rollback(c)
  PROVE  TypeOK'
  <1>1. NoWrites \in Writes
    BY DEF NoWrites, Writes
  <1>2. QED
    BY <1>1 DEF TypeOK, Rollback, Goto, Running, Ended, config, tables, device

LEMMA CrashType ==
  ASSUME TypeOK, NEW w \in Workers, CrashWorker(w)
  PROVE  TypeOK'
  <1>1. NoWrites \in Writes
    BY DEF NoWrites, Writes
  <1>2. QED
    BY <1>1 DEF TypeOK, CrashWorker, Running, Ended, config, tables, device

LEMMA TickType == TypeOK /\ Tick => TypeOK'
  BY LimitsAssumption DEF TypeOK, Tick, config, tables, device

-------------------------------------------------------------------------------
\* The steps of one call.  A call that is answered, or done, before another one
\* is sent has committed; nothing it revoked or used is open or fresh.
LEMMA RevokedBefore ==
  ASSUME TypeOK, ServerInv, NEW d \in acked, NEW s \in Sess,
         Revokes(d, s) \/ RevokesEarlierOf(d, s)
  PROVE  sessions[s] # "open"
  <1>1. d \in Calls /\ (req[d].kind \in Explicit \/ ~respondFirst)
    BY DEF TypeOK, Revokes, RevokesEarlierOf, Explicit
  <1>2. Committed(d)
    BY <1>1 DEF Committed, RespondsFirst
  <1>3. /\ Revokes(d, s) => sessions[s] = "revoked"
        /\ RevokesEarlierOf(d, s) => sessions[s] # "open"
    BY <1>1, <1>2 DEF ServerInv, Effects
  <1>4. QED
    BY <1>3

\* What a call revokes depends on its request and on those of earlier calls.
LEMMA RevokesFrame ==
  ASSUME NEW d \in Calls, req'[d] = req[d], before'[d] = before[d],
         respondFirst' = respondFirst,
         \A e \in before[d] : e \in Calls => req'[e] = req[e]
  PROVE  \A s : /\ Revokes(d, s)' <=> Revokes(d, s)
                /\ RevokesEarlierOf(d, s)' <=> RevokesEarlierOf(d, s)
  BY DEF Revokes, RevokesEarlierOf, RevokesDeviceOf, OpenedBy

LEMMA UsedBefore ==
  ASSUME TypeOK, ServerInv, ~respondFirst, NEW c \in Calls, NEW d \in before[c],
         req[d].kind = "enroll"
  PROVE  tokens[req[d].target] = "used"
  <1>1. d \in Calls
    BY DEF TypeOK
  <1>2. Committed(d)
    BY <1>1 DEF ServerInv, BeforeFinished, Committed, RespondsFirst
  <1>3. QED
    BY <1>1, <1>2 DEF ServerInv, Effects

\* What a call owes does not depend on the steps of others.
LEMMA OwedFrame ==
  ASSUME NEW d \in Calls, Owed(d, writes[d]), req'[d] = req[d], writes'[d] = writes[d],
         before'[d] = before[d], respondFirst' = respondFirst,
         \A e \in before[d] : e \in Calls => req'[e] = req[e],
         \A s \in Sess : sessions[s] # "absent" => sessions'[s] # "absent",
         \A s \in Sess : RevokesEarlierOf(d, s) /\ sessions[s] # "open" => sessions'[s] # "open",
         writes[d].revoke \subseteq Sess
  PROVE  Owed(d, writes[d])'
  <1>1. \A s : /\ Revokes(d, s)' <=> Revokes(d, s)
               /\ RevokesEarlierOf(d, s)' <=> RevokesEarlierOf(d, s)
    BY RevokesFrame
  <1>2. ASSUME NEW s \in Sess
        PROVE  /\ Revokes(d, s)' => s \in writes'[d].revoke
               /\ RevokesEarlierOf(d, s)' => s \in writes'[d].revoke \/ sessions'[s] # "open"
    BY <1>1 DEF Owed
  <1>3. \A s \in writes'[d].revoke : sessions'[s] # "absent"
    BY DEF Owed
  <1>4. QED
    BY <1>2, <1>3 DEF Owed

\* No COMMIT opens a session that the revocation of a device met: its call was
\* done or answered before, and has committed.
LEMMA EarlierStays ==
  ASSUME TypeOK, ServerInv, NEW c \in Calls, pc[c] = "committing",
         NEW d \in Calls, NEW s, RevokesEarlierOf(d, s)
  PROVE  s # c
  <1>1. s \in before[d] /\ ~respondFirst
    BY DEF RevokesEarlierOf
  <1>2. s \in acked \/ pc[s] = "done"
    BY <1>1 DEF ServerInv, BeforeFinished
  <1>3. QED
    BY <1>1, <1>2 DEF ServerInv, AckedLate, RespondsFirst

\* Steps before the first flush: call c goes on to step q and writes nothing.
LEMMA QuietServer ==
  ASSUME TypeOK, ServerInv, NEW c \in Calls,
         NEW q \in {"reading", "writing", "failed"}, Goto(c, q),
         pc[c] \in {"limiting", "checking", "reading"},
         q = "reading" => pc[c] # "reading",
         q = "writing" => pc[c] = "reading",
         pc[c] = "checking" /\ q = "reading" => sessions[req[c].sess] = "open",
         q = "writing" /\ req[c].kind = "enroll" => TokenRedeemable(req[c].target),
         q = "writing" /\ req[c].kind = "revoke" => sessions[req[c].target] # "absent",
         UNCHANGED <<respondFirst, req, before, writes, acked, sessions, tokens>>
  PROVE  ServerInv'
  <1>1. pc' = [pc EXCEPT ![c] = q] /\ pc \in [Calls -> {"idle"} \cup Running \cup Ended]
    BY DEF Goto, TypeOK
  <1>2. ReqShaped'
    BY <1>1 DEF ServerInv, ReqShaped
  <1>3. WritesOwn'
    <2>1. SUFFICES ASSUME NEW d \in Calls
                   PROVE  IF Flushed(d)' THEN Owed(d, writes[d])' ELSE writes'[d] = NoWrites
      BY DEF WritesOwn, NoWrites
    <2>2. Flushed(d)' <=> Flushed(d)
      BY <1>1 DEF Flushed, RespondsFirst
    <2>3. writes[d].revoke \subseteq Sess
      BY DEF TypeOK, Writes
    <2>4. IF Flushed(d) THEN Owed(d, writes[d]) ELSE writes[d] = NoWrites
      BY DEF ServerInv, WritesOwn
    <2>5. QED
      BY <2>2, <2>3, <2>4, OwedFrame
  <1>4. Unborn'
    BY <1>1 DEF ServerInv, Unborn, Uncommitted, Flushed, RespondsFirst
  <1>5. Present'
    <2>1. SUFFICES ASSUME NEW d \in Calls, pc'[d] # "idle", Admitted(d)'
                   PROVE  /\ req[d].kind \notin {"login", "enroll", "wsread"}
                               => sessions[req[d].sess] # "absent"
                          /\ req[d].kind = "revoke" /\ pc'[d] # "reading"
                               => sessions[req[d].target] # "absent"
                          /\ req[d].kind = "enroll" /\ pc'[d] # "reading"
                               => tokens[req[d].target] # "absent"
      BY DEF Present
    <2>2. CASE d # c
      BY <1>1, <2>1, <2>2 DEF ServerInv, Present, Admitted
    <2>3. CASE d = c
      <3>1. CASE q = "failed"
        BY <1>1, <2>1, <2>3, <3>1 DEF ServerInv, Present, Admitted, AckedLate
      <3>2. CASE q = "writing"
        BY <1>1, <2>1, <2>3, <3>2 DEF ServerInv, Present, Admitted, TokenRedeemable
      <3>3. CASE q = "reading"
        BY <1>1, <2>1, <2>3, <3>3 DEF ServerInv, ReqShaped
      <3>4. QED
        BY <3>1, <3>2, <3>3
    <2>4. QED
      BY <2>2, <2>3
  <1>6. Effects'
    <2>1. \A d \in Calls : Committed(d)' => Committed(d)
      BY <1>1 DEF Committed, RespondsFirst
    <2>2. QED
      BY <2>1 DEF ServerInv, Effects, Revokes, RevokesEarlierOf, RevokesDeviceOf, OpenedBy
  <1>7. AckedLate'
    BY <1>1 DEF ServerInv, AckedLate, RespondsFirst, TypeOK
  <1>8. BeforeFinished'
    BY <1>1 DEF ServerInv, BeforeFinished, TypeOK
  <1>9. RevokedIsRefused'
    <2>1. SUFFICES ASSUME NEW e \in Calls, NEW d \in before[e], NEW s \in Sess,
                          d \in acked, Revokes(d, s) \/ RevokesEarlierOf(d, s),
                          req[e].sess = s, req[e].kind # "wsread"
                   PROVE  pc'[e] \in {"checking", "failed"}
      BY DEF RevokedIsRefused, Revokes, RevokesEarlierOf, RevokesDeviceOf, OpenedBy
    <2>2. pc[e] \in {"checking", "failed"}
      BY <2>1 DEF ServerInv, RevokedIsRefused
    <2>3. sessions[req[e].sess] # "open"
      BY <2>1, RevokedBefore
    <2>4. QED
      BY <1>1, <2>2, <2>3
  <1>10. OneTimeAfterAnswer'
    <2>1. SUFFICES ASSUME NEW e \in Calls, NEW d \in before[e], ~respondFirst,
                          req[d].kind = "enroll", req[e].kind = "enroll",
                          req[e].target = req[d].target
                   PROVE  pc'[e] \in {"reading", "failed"}
      BY DEF OneTimeAfterAnswer
    <2>2. pc[e] \in {"reading", "failed"}
      BY <2>1 DEF ServerInv, OneTimeAfterAnswer
    <2>3. tokens[req[e].target] = "used"
      BY <2>1, UsedBefore
    <2>4. QED
      BY <1>1, <2>1, <2>2, <2>3 DEF TokenRedeemable
  <1>11. QED
    BY <1>2, <1>3, <1>4, <1>5, <1>6, <1>7, <1>8, <1>9, <1>10 DEF ServerInv

LEMMA LimitLoginServer ==
  ASSUME TypeOK, ServerInv, NEW c \in Calls, LimitLogin(c)
  PROVE  ServerInv'
  <1>1. PICK q \in {"reading", "failed"} : Goto(c, q)
    BY DEF LimitLogin
  <1>2. QED
    BY <1>1, QuietServer DEF LimitLogin, config, tables

LEMMA CheckSessionServer ==
  ASSUME TypeOK, ServerInv, NEW c \in Calls, CheckSession(c)
  PROVE  ServerInv'
  <1>1. PICK q \in {"reading", "failed"} :
          Goto(c, q) /\ (q = "reading" => sessions[req[c].sess] = "open")
    BY DEF CheckSession
  <1>2. QED
    BY <1>1, QuietServer DEF CheckSession, config, tables

LEMMA ReadRowsServer ==
  ASSUME TypeOK, ServerInv, NEW c \in Calls, ReadRows(c)
  PROVE  ServerInv'
  <1>1. PICK q \in {"writing", "failed"} :
          /\ Goto(c, q)
          /\ q = "writing" /\ req[c].kind = "enroll" => TokenRedeemable(req[c].target)
          /\ q = "writing" /\ req[c].kind = "revoke" => sessions[req[c].target] # "absent"
    BY DEF ReadRows
  <1>2. QED
    BY <1>1, QuietServer DEF ReadRows, config, tables

\* Steps that leave the tables, the requests and the answers alone, and take no
\* call into the part of its life that the properties compare with: a rollback,
\* a crash, a flush.  Calls of P go on to pc', with writes'.
LEMMA KeepServer ==
  ASSUME TypeOK, ServerInv,
         pc' \in [Calls -> {"idle"} \cup Running \cup Ended],
         UNCHANGED <<respondFirst, req, before, acked, sessions, tokens>>,
         \A c \in Calls :
           \/ pc'[c] = pc[c] /\ writes'[c] = writes[c]
           \/ pc[c] # "idle" /\ pc[c] # "done" /\ pc'[c] = "failed" /\ writes'[c] = NoWrites
           \/ /\ pc[c] = "writing" /\ c \notin acked /\ Owed(c, writes'[c])
              /\ pc'[c] = IF RespondsFirst(c) THEN "ending" ELSE "committing"
  PROVE  ServerInv'
  <1>1. ReqShaped'
    BY DEF ServerInv, ReqShaped
  <1>2. WritesOwn'
    <2>1. SUFFICES ASSUME NEW c \in Calls
                   PROVE  IF Flushed(c)' THEN Owed(c, writes[c])' ELSE writes'[c] = NoWrites
      BY DEF WritesOwn, NoWrites
    <2>2. CASE pc'[c] = pc[c] /\ writes'[c] = writes[c]
      <3>1. Flushed(c)' <=> Flushed(c)
        BY <2>2 DEF Flushed, RespondsFirst
      <3>2. writes[c].revoke \subseteq Sess
        BY DEF TypeOK, Writes
      <3>3. IF Flushed(c) THEN Owed(c, writes[c]) ELSE writes[c] = NoWrites
        BY DEF ServerInv, WritesOwn
      <3>4. QED
        BY <2>2, <3>1, <3>2, <3>3, OwedFrame
    <2>3. CASE pc'[c] = "failed" /\ writes'[c] = NoWrites
      BY <2>3 DEF Flushed
    <2>4. CASE /\ pc[c] = "writing" /\ c \notin acked /\ Owed(c, writes'[c])
               /\ pc'[c] = IF RespondsFirst(c) THEN "ending" ELSE "committing"
      BY <2>4 DEF Flushed, RespondsFirst, Owed, Revokes, RevokesEarlierOf, RevokesDeviceOf,
             OpenedBy
    <2>5. QED
      BY <2>2, <2>3, <2>4
  <1>3. Unborn'
    BY DEF ServerInv, Unborn, Uncommitted, Flushed, RespondsFirst
  <1>4. Present'
    BY DEF ServerInv, Present, Admitted, AckedLate
  <1>5. Effects'
    <2>1. \A c \in Calls : Committed(c)' => Committed(c)
      BY DEF Committed, RespondsFirst
    <2>2. QED
      BY <2>1 DEF ServerInv, Effects, Revokes, RevokesEarlierOf, RevokesDeviceOf, OpenedBy
  <1>6. AckedLate'
    BY DEF ServerInv, AckedLate, RespondsFirst, TypeOK
  <1>7. BeforeFinished'
    BY DEF ServerInv, BeforeFinished, TypeOK
  <1>8. RevokedIsRefused'
    BY DEF ServerInv, RevokedIsRefused, Revokes, RevokesEarlierOf, RevokesDeviceOf, OpenedBy
  <1>9. OneTimeAfterAnswer'
    BY DEF ServerInv, OneTimeAfterAnswer
  <1>10. QED
    BY <1>1, <1>2, <1>3, <1>4, <1>5, <1>6, <1>7, <1>8, <1>9 DEF ServerInv

\* What the endpoints flush is what is owed.
LEMMA WritesOwed ==
  ASSUME TypeOK, ServerInv, NEW c \in Calls, pc[c] = "writing"
  PROVE  Owed(c, WritesOf(c))
  <1>1. Shaped(req[c]) /\ c \notin acked
    BY DEF ServerInv, ReqShaped, AckedLate
  <1>2. /\ req[c].kind \notin {"login", "enroll", "wsread"} => sessions[req[c].sess] # "absent"
        /\ req[c].kind = "revoke" => sessions[req[c].target] # "absent"
    BY DEF ServerInv, Present, Admitted
  <1>3. CASE req[c].kind \in {"login", "enroll", "issue"}
    BY <1>3 DEF Owed, WritesOf, LoginWrites, EnrollWrites, IssueWrites, NoWrites, Revokes,
           RevokesEarlierOf, RevokesDeviceOf
  <1>4. CASE req[c].kind \in {"logout", "revoke"}
    BY <1>2, <1>4 DEF Owed, WritesOf, RevokeWrites, NoWrites, Revokes, RevokesEarlierOf,
           RevokesDeviceOf
  <1>5. CASE req[c].kind = "revokeDevice"
    BY <1>5 DEF Owed, WritesOf, RevokeDeviceWrites, NoWrites, Revokes, RevokesEarlierOf,
           RevokesDeviceOf
  <1>6. CASE req[c].kind \in {"read", "wsread"}
    BY <1>6 DEF Owed, WritesOf, ReadWrites, NoWrites, Revokes, RevokesEarlierOf,
           RevokesDeviceOf
  <1>7. CASE req[c].kind = "me"
    BY <1>7 DEF Owed, WritesOf, TouchWrites, NoWrites, Revokes, RevokesEarlierOf,
           RevokesDeviceOf
  <1>8. QED
    BY <1>1, <1>3, <1>4, <1>5, <1>6, <1>7 DEF Shaped, Request, Kinds

LEMMA FlushServer ==
  ASSUME TypeOK, ServerInv, NEW c \in Calls, Flush(c)
  PROVE  ServerInv'
  <1>1. pc[c] = "writing" /\ c \notin acked /\ Owed(c, WritesOf(c))
    BY WritesOwed DEF Flush, ServerInv, AckedLate
  <1>2. pc' \in [Calls -> {"idle"} \cup Running \cup Ended]
    BY FlushType DEF ServerInv, TypeOK
  <1>3. pc'[c] = (IF RespondsFirst(c) THEN "ending" ELSE "committing") /\ writes'[c] = WritesOf(c)
    BY DEF Flush, Goto, TypeOK
  <1>4. \A d \in Calls \ {c} : pc'[d] = pc[d] /\ writes'[d] = writes[d]
    BY DEF Flush, Goto, TypeOK
  <1>5. UNCHANGED <<respondFirst, req, before, acked, sessions, tokens>>
    BY DEF Flush, config, tables
  <1>6. QED
    BY <1>1, <1>2, <1>3, <1>4, <1>5, KeepServer

LEMMA RollbackServer ==
  ASSUME TypeOK, ServerInv, NEW c \in Calls, Rollback(c)
  PROVE  ServerInv'
  <1>1. pc[c] # "idle" /\ pc[c] # "done" /\ pc'[c] = "failed" /\ writes'[c] = NoWrites
    BY DEF Rollback, Goto, TypeOK, Running
  <1>2. pc' \in [Calls -> {"idle"} \cup Running \cup Ended]
    BY RollbackType DEF TypeOK
  <1>3. \A d \in Calls \ {c} : pc'[d] = pc[d] /\ writes'[d] = writes[d]
    BY DEF Rollback, Goto, TypeOK
  <1>4. UNCHANGED <<respondFirst, req, before, acked, sessions, tokens>>
    BY DEF Rollback, config, tables
  <1>5. QED
    BY <1>1, <1>2, <1>3, <1>4, KeepServer

LEMMA CrashServer ==
  ASSUME TypeOK, ServerInv, NEW w \in Workers, CrashWorker(w)
  PROVE  ServerInv'
  <1>1. pc' \in [Calls -> {"idle"} \cup Running \cup Ended]
    BY CrashType DEF TypeOK
  <1>2. UNCHANGED <<respondFirst, req, before, acked, sessions, tokens>>
    BY DEF CrashWorker, config, tables
  <1>3. \A d \in Calls :
          \/ pc'[d] = pc[d] /\ writes'[d] = writes[d]
          \/ pc[d] # "idle" /\ pc[d] # "done" /\ pc'[d] = "failed" /\ writes'[d] = NoWrites
    BY DEF CrashWorker, Running
  <1>4. QED
    BY <1>1, <1>2, <1>3, KeepServer

LEMMA TickServer ==
  ASSUME TypeOK, ServerInv, Tick
  PROVE  ServerInv'
  <1>1. UNCHANGED <<pc, writes, respondFirst, req, before, acked, sessions, tokens>>
    BY DEF Tick, config, tables
  <1>2. pc' \in [Calls -> {"idle"} \cup Running \cup Ended]
    BY <1>1 DEF TypeOK
  <1>3. QED
    BY <1>1, <1>2, KeepServer

LEMMA AnswerServer ==
  ASSUME TypeOK, ServerInv, NEW c \in Calls, Answer(c)
  PROVE  ServerInv'
  <1>1. /\ pc[c] = "ending" /\ c \notin acked
        /\ pc' = [pc EXCEPT ![c] = IF RespondsFirst(c) THEN "committing" ELSE "done"]
        /\ pc \in [Calls -> {"idle"} \cup Running \cup Ended]
        /\ acked \subseteq acked' /\ acked' \subseteq acked \cup {c}
        /\ UNCHANGED <<respondFirst, req, before, writes, sessions, tokens>>
    BY DEF Answer, Goto, TypeOK, config, tables, ServerInv, AckedLate
  <1>2. ReqShaped'
    BY <1>1 DEF ServerInv, ReqShaped
  <1>3. WritesOwn'
    <2>1. SUFFICES ASSUME NEW d \in Calls
                   PROVE  IF Flushed(d)' THEN Owed(d, writes[d])' ELSE writes'[d] = NoWrites
      BY DEF WritesOwn, NoWrites
    <2>2. Flushed(d)' <=> Flushed(d)
      BY <1>1 DEF Flushed, RespondsFirst
    <2>3. writes[d].revoke \subseteq Sess
      BY DEF TypeOK, Writes
    <2>4. IF Flushed(d) THEN Owed(d, writes[d]) ELSE writes[d] = NoWrites
      BY DEF ServerInv, WritesOwn
    <2>5. QED
      BY <1>1, <2>2, <2>3, <2>4, OwedFrame
  <1>4. Unborn'
    BY <1>1 DEF ServerInv, Unborn, Uncommitted, Flushed, RespondsFirst
  <1>5. Present'
    BY <1>1 DEF ServerInv, Present, Admitted
  <1>6. Effects'
    <2>1. \A d \in Calls : Committed(d)' => Committed(d)
      BY <1>1 DEF Committed, RespondsFirst
    <2>2. QED
      BY <1>1, <2>1 DEF ServerInv, Effects, Revokes, RevokesEarlierOf, RevokesDeviceOf,
             OpenedBy
  <1>7. AckedLate'
    BY <1>1 DEF ServerInv, AckedLate, RespondsFirst, TypeOK
  <1>8. BeforeFinished'
    BY <1>1 DEF ServerInv, BeforeFinished, TypeOK
  <1>9. RevokedIsRefused'
    <2>1. SUFFICES ASSUME NEW e \in Calls, NEW d \in before[e], NEW s \in Sess,
                          d \in acked', Revokes(d, s) \/ RevokesEarlierOf(d, s),
                          req[e].sess = s, req[e].kind # "wsread"
                   PROVE  pc'[e] \in {"checking", "failed"}
      BY <1>1 DEF RevokedIsRefused, Revokes, RevokesEarlierOf, RevokesDeviceOf, OpenedBy
    <2>2. d \in acked
      BY <1>1, <2>1 DEF ServerInv, BeforeFinished
    <2>3. pc[e] \in {"checking", "failed"}
      BY <2>1, <2>2 DEF ServerInv, RevokedIsRefused
    <2>4. QED
      BY <1>1, <2>3
  <1>10. OneTimeAfterAnswer'
    BY <1>1 DEF ServerInv, OneTimeAfterAnswer
  <1>11. QED
    BY <1>2, <1>3, <1>4, <1>5, <1>6, <1>7, <1>8, <1>9, <1>10 DEF ServerInv

\* A COMMIT brings nothing back: what is there stays, what was revoked or used
\* stays so.
LEMMA CommitStable ==
  ASSUME TypeOK, ServerInv, NEW c \in Calls, Commit(c)
  PROVE  /\ Owed(c, writes[c])
         /\ \A s \in Sess : /\ sessions[s] # "absent" => sessions'[s] # "absent"
                            /\ sessions[s] = "revoked" => sessions'[s] = "revoked"
                            /\ s # c /\ sessions[s] # "open" => sessions'[s] # "open"
                            /\ s # c /\ sessions[s] = "absent" => sessions'[s] = "absent"
         /\ \A t \in Toks : /\ tokens[t] # "absent" => tokens'[t] # "absent"
                            /\ tokens[t] = "used" => tokens'[t] = "used"
                            /\ t # c /\ tokens[t] = "absent" => tokens'[t] = "absent"
  <1>1. pc[c] = "committing" /\ Flushed(c)
    BY DEF Commit, Flushed
  <1>2. Owed(c, writes[c]) /\ sessions[c] = "absent" /\ tokens[c] = "absent"
    BY <1>1 DEF ServerInv, WritesOwn, Unborn, Uncommitted
  <1>3. req[c].kind = "enroll" => tokens[req[c].target] # "absent"
    BY <1>1 DEF ServerInv, Present, Admitted
  <1>4. \A s \in Sess : /\ sessions[s] # "absent" => sessions'[s] # "absent"
                        /\ sessions[s] = "revoked" => sessions'[s] = "revoked"
                        /\ s # c /\ sessions[s] # "open" => sessions'[s] # "open"
                        /\ s # c /\ sessions[s] = "absent" => sessions'[s] = "absent"
    BY <1>2 DEF Commit, Owed
  <1>5. \A t \in Toks : /\ tokens[t] # "absent" => tokens'[t] # "absent"
                        /\ tokens[t] = "used" => tokens'[t] = "used"
                        /\ t # c /\ tokens[t] = "absent" => tokens'[t] = "absent"
    BY <1>2, <1>3 DEF Commit, Owed
  <1>6. QED
    BY <1>2, <1>4, <1>5

LEMMA CommitServer ==
  ASSUME TypeOK, ServerInv, NEW c \in Calls, Commit(c)
  PROVE  ServerInv'
  <1>1. /\ pc[c] = "committing" /\ (c \in acked => RespondsFirst(c))
        /\ pc' = [pc EXCEPT ![c] = IF RespondsFirst(c) THEN "done" ELSE "ending"]
        /\ pc \in [Calls -> {"idle"} \cup Running \cup Ended]
        /\ UNCHANGED <<respondFirst, req, before, acked>>
    BY DEF Commit, Goto, TypeOK, config, ServerInv, AckedLate
  <1>2. writes' = [writes EXCEPT ![c] = NoWrites] /\ writes \in [Calls -> Writes]
    BY DEF Commit, TypeOK
  <1>3. Shaped(req[c]) /\ c \in Sess /\ c \in Toks
    BY <1>1, NoneApart DEF ServerInv, ReqShaped
  <1>4. ReqShaped'
    BY <1>1 DEF ServerInv, ReqShaped
  <1>5. WritesOwn'
    <2>1. SUFFICES ASSUME NEW d \in Calls
                   PROVE  IF Flushed(d)' THEN Owed(d, writes[d])' ELSE writes'[d] = NoWrites
      BY DEF WritesOwn, NoWrites
    <2>2. CASE d = c
      BY <1>1, <1>2, <2>2 DEF Flushed, RespondsFirst
    <2>3. CASE d # c
      <3>1. (Flushed(d)' <=> Flushed(d)) /\ writes'[d] = writes[d]
        BY <1>1, <1>2, <2>3 DEF Flushed, RespondsFirst
      <3>2. writes[d].revoke \subseteq Sess
        BY <1>2 DEF Writes
      <3>3. IF Flushed(d) THEN Owed(d, writes[d]) ELSE writes[d] = NoWrites
        BY DEF ServerInv, WritesOwn
      <3>4. QED
        BY <1>1, <3>1, <3>2, <3>3, OwedFrame, CommitStable, EarlierStays
    <2>4. QED
      BY <2>2, <2>3
  <1>6. Unborn'
    <2>1. \A d \in Calls : Uncommitted(d)' => Uncommitted(d) /\ d # c
      BY <1>1 DEF Uncommitted, Flushed, RespondsFirst
    <2>2. QED
      BY <2>1, NoneApart, CommitStable DEF ServerInv, Unborn
  <1>7. Present'
    <2>1. SUFFICES ASSUME NEW d \in Calls, pc'[d] # "idle", Admitted(d)'
                   PROVE  /\ req[d].kind \notin {"login", "enroll", "wsread"}
                               => sessions'[req[d].sess] # "absent"
                          /\ req[d].kind = "revoke" /\ pc'[d] # "reading"
                               => sessions'[req[d].target] # "absent"
                          /\ req[d].kind = "enroll" /\ pc'[d] # "reading"
                               => tokens'[req[d].target] # "absent"
      BY <1>1 DEF Present
    <2>2. pc[d] # "idle" /\ Admitted(d) /\ (pc'[d] # "reading" => pc[d] # "reading")
      BY <1>1, <2>1 DEF Admitted
    <2>3. Shaped(req[d])
      BY <2>2 DEF ServerInv, ReqShaped
    <2>4. QED
      BY <2>2, <2>3, CommitStable DEF ServerInv, Present, Shaped
  <1>8. Effects'
    <2>1. SUFFICES ASSUME NEW d \in Calls, Committed(d)'
                   PROVE  /\ req[d].kind \in {"login", "enroll"} => sessions'[d] # "absent"
                          /\ req[d].kind = "enroll" => tokens'[req[d].target] = "used"
                          /\ \A s \in Sess :
                               /\ Revokes(d, s) => sessions'[s] = "revoked"
                               /\ RevokesEarlierOf(d, s) => sessions'[s] # "open"
      BY <1>1 DEF Effects, Revokes, RevokesEarlierOf, RevokesDeviceOf, OpenedBy
    <2>2. CASE d = c
      <3>1. Owed(c, writes[c])
        BY CommitStable
      <3>2. req[c].kind \in {"login", "enroll"} => sessions'[c] # "absent"
        BY <1>3, <3>1 DEF Commit, Owed
      <3>3. req[c].kind = "enroll" => tokens'[req[c].target] = "used"
        BY <1>3, <3>1 DEF Commit, Owed, Shaped
      <3>4. \A s \in Sess : /\ Revokes(c, s) => sessions'[s] = "revoked"
                            /\ RevokesEarlierOf(c, s) => sessions'[s] # "open"
        <4>1. ASSUME NEW s \in Sess
              PROVE  /\ Revokes(c, s) => sessions'[s] = "revoked"
                     /\ RevokesEarlierOf(c, s) => sessions'[s] # "open"
          <5>1. /\ Revokes(c, s) => s \in writes[c].revoke
                /\ RevokesEarlierOf(c, s) => s \in writes[c].revoke \/ sessions[s] # "open"
            BY <3>1 DEF Owed
          <5>2. s \in writes[c].revoke => sessions'[s] = "revoked"
            BY DEF Commit
          <5>3. s # c /\ sessions[s] # "open" => sessions'[s] # "open"
            BY CommitStable
          <5>4. RevokesEarlierOf(c, s) => s # c
            BY <1>1, EarlierStays
          <5>5. QED
            BY <5>1, <5>2, <5>3, <5>4
        <4>2. QED
          BY <4>1
      <3>5. QED
        BY <2>2, <3>2, <3>3, <3>4
    <2>3. CASE d # c
      <3>1. Committed(d) /\ pc[d] # "idle"
        BY <1>1, <2>1, <2>3 DEF Committed, RespondsFirst, ServerInv, AckedLate
      <3>2. Shaped(req[d])
        BY <3>1 DEF ServerInv, ReqShaped
      <3>3. QED
        <4>1. /\ req[d].kind \in {"login", "enroll"} => sessions'[d] # "absent"
              /\ req[d].kind = "enroll" => tokens'[req[d].target] = "used"
          BY <3>1, <3>2, NoneApart, CommitStable DEF ServerInv, Effects, Shaped
        <4>2. ASSUME NEW s \in Sess
              PROVE  /\ Revokes(d, s) => sessions'[s] = "revoked"
                     /\ RevokesEarlierOf(d, s) => sessions'[s] # "open"
          <5>1. /\ Revokes(d, s) => sessions[s] = "revoked"
                /\ RevokesEarlierOf(d, s) => sessions[s] # "open"
            BY <3>1 DEF ServerInv, Effects
          <5>2. /\ sessions[s] = "revoked" => sessions'[s] = "revoked"
                /\ s # c /\ sessions[s] # "open" => sessions'[s] # "open"
            BY CommitStable
          <5>3. RevokesEarlierOf(d, s) => s # c
            BY <1>1, EarlierStays
          <5>4. QED
            BY <5>1, <5>2, <5>3
        <4>3. QED
          BY <4>1, <4>2
    <2>4. QED
      BY <2>2, <2>3
  <1>9. AckedLate'
    BY <1>1 DEF ServerInv, AckedLate, RespondsFirst, TypeOK
  <1>10. BeforeFinished'
    BY <1>1 DEF ServerInv, BeforeFinished, TypeOK
  <1>11. RevokedIsRefused'
    <2>1. SUFFICES ASSUME NEW e \in Calls, NEW d \in before[e], NEW s \in Sess,
                          d \in acked, Revokes(d, s) \/ RevokesEarlierOf(d, s),
                          req[e].sess = s, req[e].kind # "wsread"
                   PROVE  pc'[e] \in {"checking", "failed"}
      BY <1>1 DEF RevokedIsRefused, Revokes, RevokesEarlierOf, RevokesDeviceOf, OpenedBy
    <2>2. pc[e] \in {"checking", "failed"}
      BY <2>1 DEF ServerInv, RevokedIsRefused
    <2>3. QED
      BY <1>1, <2>2
  <1>12. OneTimeAfterAnswer'
    BY <1>1 DEF ServerInv, OneTimeAfterAnswer
  <1>13. QED
    BY <1>4, <1>5, <1>6, <1>7, <1>8, <1>9, <1>10, <1>11, <1>12 DEF ServerInv

LEMMA SentServer ==
  ASSUME TypeOK, ServerInv, NEW c \in Calls, NEW r, Sent(c, r)
  PROVE  ServerInv'
  <1>1. /\ pc[c] = "idle" /\ c \notin acked /\ Shaped(r)
        /\ req' = [req EXCEPT ![c] = r]
        /\ UNCHANGED <<respondFirst, writes, acked, sessions, tokens>>
    BY DEF Sent, Send, config, tables, ServerInv, AckedLate
  <1>2. /\ before' = [before EXCEPT ![c] = acked \cup {d \in Calls : pc[d] = "done"}]
        /\ before \in [Calls -> SUBSET Calls]
    BY DEF Sent, Send, TypeOK
  <1>3. PICK q \in {"limiting", "reading", "checking"} :
          /\ pc' = [pc EXCEPT ![c] = q]
          /\ q = "limiting" <=> r.kind = "login"
          /\ q = "reading" <=> r.kind \in {"enroll", "wsread"}
    BY DEF Sent, Send, Goto
  <1>4. /\ pc \in [Calls -> {"idle"} \cup Running \cup Ended]
        /\ req \in [Calls -> Request \cup {None}]
    BY DEF TypeOK
  <1>5. \A d \in Calls \ {c} : pc'[d] = pc[d] /\ req'[d] = req[d] /\ before'[d] = before[d]
    BY <1>1, <1>2, <1>3, <1>4
  <1>6. pc'[c] = q /\ req'[c] = r /\ before'[c] = acked \cup {d \in Calls : pc[d] = "done"}
    BY <1>1, <1>2, <1>3, <1>4
  <1>14. \A e \in Calls : \A d \in before'[e] : d \in Calls \ {c}
    BY <1>1, <1>2, <1>5, <1>6 DEF ServerInv, BeforeFinished, TypeOK
  <1>18. \A d \in Calls \ {c} : \A s :
           /\ Revokes(d, s)' <=> Revokes(d, s)
           /\ RevokesEarlierOf(d, s)' <=> RevokesEarlierOf(d, s)
    <2>1. TAKE d \in Calls \ {c}
    <2>2. \A e \in before[d] : e \in Calls => req'[e] = req[e]
      BY <1>5, <1>14
    <2>3. req'[d] = req[d] /\ before'[d] = before[d] /\ respondFirst' = respondFirst
      BY <1>1, <1>5
    <2>4. QED
      BY <2>2, <2>3, RevokesFrame
  <1>7. ReqShaped'
    BY <1>1, <1>3, <1>5, <1>6 DEF ServerInv, ReqShaped
  <1>8. WritesOwn'
    <2>1. SUFFICES ASSUME NEW d \in Calls
                   PROVE  IF Flushed(d)' THEN Owed(d, writes[d])' ELSE writes'[d] = NoWrites
      BY DEF WritesOwn, NoWrites
    <2>2. IF Flushed(d) THEN Owed(d, writes[d]) ELSE writes[d] = NoWrites
      BY DEF ServerInv, WritesOwn
    <2>3. CASE d = c
      BY <1>1, <1>6, <2>2, <2>3 DEF Flushed
    <2>4. CASE d # c
      <3>1. Flushed(d)' <=> Flushed(d)
        BY <1>1, <1>5, <2>4 DEF Flushed, RespondsFirst
      <3>2. writes[d].revoke \subseteq Sess
        BY DEF TypeOK, Writes
      <3>3. QED
        BY <1>1, <1>5, <1>14, <2>2, <2>4, <3>1, <3>2, OwedFrame
    <2>5. QED
      BY <2>3, <2>4
  <1>9. Unborn'
    BY <1>1, <1>5, <1>6 DEF ServerInv, Unborn, Uncommitted, Flushed, RespondsFirst
  <1>10. Present'
    <2>1. \A d \in Calls \ {c} : Admitted(d)' => Admitted(d)
      BY <1>1, <1>5 DEF Admitted
    <2>2. Admitted(c)' => pc'[c] = "reading" /\ r.kind \in {"enroll", "wsread"}
      BY <1>1, <1>3, <1>6 DEF Admitted
    <2>3. QED
      BY <1>1, <1>5, <1>6, <2>1, <2>2 DEF ServerInv, Present
  <1>11. Effects'
    <2>1. \A d \in Calls : Committed(d)' => Committed(d) /\ d # c
      BY <1>1, <1>5, <1>6 DEF Committed, RespondsFirst
    <2>2. QED
      BY <1>1, <1>5, <1>18, <2>1 DEF ServerInv, Effects
  <1>12. AckedLate'
    BY <1>1, <1>5 DEF ServerInv, AckedLate, RespondsFirst, TypeOK
  <1>13. BeforeFinished'
    BY <1>1, <1>5, <1>6 DEF ServerInv, BeforeFinished, TypeOK
  <1>15. RevokedIsRefused'
    <2>1. SUFFICES ASSUME NEW e \in Calls, NEW d \in before'[e], NEW s \in Sess,
                          d \in acked, (Revokes(d, s) \/ RevokesEarlierOf(d, s))',
                          req'[e].sess = s, req'[e].kind # "wsread"
                   PROVE  pc'[e] \in {"checking", "failed"}
      BY <1>1 DEF RevokedIsRefused
    <2>2. Revokes(d, s) \/ RevokesEarlierOf(d, s)
      BY <1>18, <2>1, <1>14
    <2>3. CASE e = c
      BY <1>1, <1>3, <1>6, <2>1, <2>3, NoneApart DEF Shaped
    <2>4. CASE e # c
      BY <1>5, <2>1, <2>2, <2>4 DEF ServerInv, RevokedIsRefused
    <2>5. QED
      BY <2>3, <2>4
  <1>16. OneTimeAfterAnswer'
    <2>1. SUFFICES ASSUME NEW e \in Calls, NEW d \in before'[e], ~respondFirst,
                          req'[d].kind = "enroll", req'[e].kind = "enroll",
                          req'[e].target = req'[d].target
                   PROVE  pc'[e] \in {"reading", "failed"}
      BY <1>1 DEF OneTimeAfterAnswer
    <2>2. CASE e = c
      BY <1>3, <1>6, <2>1, <2>2
    <2>3. CASE e # c
      BY <1>5, <1>14, <2>1, <2>3 DEF ServerInv, OneTimeAfterAnswer
    <2>4. QED
      BY <2>2, <2>3
  <1>17. QED
    BY <1>7, <1>8, <1>9, <1>10, <1>11, <1>12, <1>13, <1>15, <1>16 DEF ServerInv

-------------------------------------------------------------------------------
\* The devices.
LEMMA ServerDevice ==
  ASSUME TypeOK, DeviceKnows, SavedIsCommitted, UNCHANGED <<config, device>>,
         \A c \in Calls : pc[c] # "idle" => pc'[c] # "idle" /\ req'[c] = req[c],
         \A s \in Sess : sessions[s] # "absent" => sessions'[s] # "absent"
  PROVE  DeviceKnows' /\ SavedIsCommitted'
  <1>1. UNCHANGED <<web, respondFirst, stage, call, holds, saved>>
    BY DEF config, device
  <1>2. DeviceKnows'
    BY <1>1 DEF DeviceKnows
  <1>3. SavedIsCommitted'
    BY <1>1 DEF SavedIsCommitted, TypeOK
  <1>4. QED
    BY <1>2, <1>3

LEMMA AskInv ==
  ASSUME IInv, NEW d \in Devices, NEW c \in Calls, NEW kind, NEW sess, NEW target,
         NEW step \in {"entering", "confirming", "resuming", "leaving"},
         Ask(d, c, kind, sess, target, step), NEW r, Sent(c, r), r.kind = kind, r.sess = sess,
         UNCHANGED saved, holds' \in [Devices -> Sess \cup {None}],
         \A e \in Devices \ {d} : holds'[e] = holds[e],
         step = "entering" => kind \in {"login", "enroll"},
         step \in {"confirming", "resuming"} => kind = "me",
         step # "entering" => holds'[d] = sess /\ sess \in Sess
  PROVE  IInv'
  <1>1. TypeOK'
    BY AskDevice, SentType DEF IInv, TypeOK
  <1>2. ServerInv'
    BY SentServer DEF IInv
  <1>3. /\ stage' = [stage EXCEPT ![d] = step] /\ call' = [call EXCEPT ![d] = c]
        /\ UNCHANGED <<config, sessions>>
    BY DEF Ask, tables
  <1>4. /\ pc[c] = "idle" /\ pc'[c] # "idle" /\ req'[c] = r
        /\ \A e \in Calls \ {c} : pc'[e] = pc[e] /\ req'[e] = req[e]
    BY DEF Sent, Send, Goto, IInv, TypeOK
  <1>5. DeviceKnows'
    <2>1. SUFFICES ASSUME NEW e \in Devices
                   PROVE  /\ stage'[e] \in {"entered", "confirming", "resuming", "on", "leaving"}
                               => holds'[e] \in Sess
                          /\ stage'[e] = "entering" =>
                               /\ call'[e] \in Calls /\ pc'[call'[e]] # "idle"
                               /\ req'[call'[e]].kind \in {"login", "enroll"}
                          /\ stage'[e] \in {"confirming", "resuming"} =>
                               /\ call'[e] \in Calls /\ pc'[call'[e]] # "idle"
                               /\ req'[call'[e]].kind = "me"
                               /\ req'[call'[e]].sess = holds'[e]
      BY DEF DeviceKnows
    <2>2. CASE e = d
      BY <1>3, <1>4, <2>2 DEF IInv, TypeOK
    <2>3. CASE e # d
      <3>1. stage'[e] = stage[e] /\ call'[e] = call[e] /\ holds'[e] = holds[e]
        BY <1>3, <2>3 DEF IInv, TypeOK
      <3>2. QED
        BY <1>4, <3>1 DEF IInv, DeviceKnows
    <2>4. QED
      BY <2>2, <2>3
  <1>6. SavedIsCommitted'
    BY <1>3 DEF IInv, SavedIsCommitted, config
  <1>7. QED
    BY <1>1, <1>2, <1>5, <1>6 DEF IInv

\* A device settles with a credential it may save.
LEMMA SettleInv ==
  ASSUME IInv, NEW d \in Devices, NEW step \in {"off", "entered", "on"},
         NEW h \in Sess \cup {None}, NEW s \in Sess \cup {None}, Settle(d, step, h, s),
         step # "off" => h \in Sess,
         \/ s = None \/ s = saved[d]
         \/ (d \in web => ~respondFirst) => sessions[s] # "absent"
  PROVE  IInv'
  <1>1. TypeOK'
    BY SettleType DEF IInv
  <1>2. /\ stage' = [stage EXCEPT ![d] = step] /\ call' = [call EXCEPT ![d] = None]
        /\ holds' = [holds EXCEPT ![d] = h] /\ saved' = [saved EXCEPT ![d] = s]
        /\ UNCHANGED <<respondFirst, web>>
        /\ UNCHANGED <<pc, req, before, acked, writes, sessions, tokens>>
    BY DEF Settle, config, server, tables
  <1>3. pc' \in [Calls -> {"idle"} \cup Running \cup Ended]
    BY <1>1 DEF TypeOK
  <1>4. ServerInv'
    BY <1>2, <1>3, KeepServer DEF IInv
  <1>5. DeviceKnows'
    BY <1>2 DEF IInv, DeviceKnows, TypeOK
  <1>6. SavedIsCommitted'
    BY <1>2 DEF IInv, SavedIsCommitted, TypeOK
  <1>7. QED
    BY <1>1, <1>4, <1>5, <1>6 DEF IInv

\* The session a device enters with, once it is told of it.
LEMMA EnteredSession ==
  ASSUME IInv, NEW d \in Devices, stage[d] = "entering", Answered(d)
  PROVE  call[d] \in Sess /\ (~respondFirst => sessions[call[d]] # "absent")
  <1>1. call[d] \in Calls /\ call[d] \in acked /\ req[call[d]].kind \in {"login", "enroll"}
    BY DEF IInv, DeviceKnows, Answered
  <1>2. ~respondFirst => Committed(call[d])
    BY <1>1 DEF Committed, RespondsFirst
  <1>3. QED
    BY <1>1, <1>2, NoneApart DEF IInv, ServerInv, Effects

\* An answer to "me" tells that the session was found open.
LEMMA ConfirmedSession ==
  ASSUME IInv, NEW d \in Devices, stage[d] \in {"confirming", "resuming"}, Answered(d)
  PROVE  holds[d] \in Sess /\ sessions[holds[d]] # "absent"
  BY DEF IInv, DeviceKnows, Answered, ServerInv, Present, Admitted

LEMMA SettleSteps ==
  ASSUME IInv, NEW d \in Devices,
         \/ CliEntered(d) \/ CliConfirmed(d) \/ WebEntered(d) \/ EnterFails(d)
         \/ Resumed(d) \/ ResumeFails(d) \/ WebLoggedOut(d) \/ CliLogout(d) \/ Close(d)
  PROVE  IInv'
  <1>1. saved[d] \in Sess \cup {None} /\ holds[d] \in Sess \cup {None}
    BY DEF IInv, TypeOK
  <1>2. CASE CliEntered(d)
    BY <1>1, <1>2, EnteredSession, SettleInv DEF CliEntered
  <1>3. CASE CliConfirmed(d)
    BY <1>3, ConfirmedSession, SettleInv DEF CliConfirmed
  <1>4. CASE WebEntered(d)
    BY <1>4, EnteredSession, SettleInv DEF WebEntered
  <1>5. CASE EnterFails(d)
    BY <1>1, <1>5, SettleInv DEF EnterFails
  <1>6. CASE Resumed(d)
    BY <1>1, <1>6, ConfirmedSession, SettleInv DEF Resumed
  <1>7. CASE ResumeFails(d)
    BY <1>7, SettleInv DEF ResumeFails
  <1>8. CASE WebLoggedOut(d)
    BY <1>8, SettleInv DEF WebLoggedOut
  <1>9. CASE CliLogout(d)
    BY <1>9, SettleInv DEF CliLogout
  <1>10. CASE Close(d)
    BY <1>1, <1>10, SettleInv DEF Close
  <1>11. QED
    BY <1>2, <1>3, <1>4, <1>5, <1>6, <1>7, <1>8, <1>9, <1>10

LEMMA AskSteps ==
  ASSUME IInv, NEW d \in Devices, NEW c \in Calls,
         \/ CliEnter(d, c) \/ CliConfirm(d, c) \/ WebEnter(d, c)
         \/ Resume(d, c) \/ WebLogout(d, c)
  PROVE  IInv'
  <1>1. TypeOK /\ holds \in [Devices -> Sess \cup {None}] /\ saved \in [Devices -> Sess \cup {None}]
    BY DEF IInv, TypeOK
  <1>2. ASSUME NEW t \in Toks, Ask(d, c, "enroll", None, t, "entering"),
               UNCHANGED <<holds, saved>>
        PROVE  IInv'
    <2>1. \A w \in Workers : Shaped([kind |-> "enroll", worker |-> w, by |-> d,
                                     sess |-> None, target |-> t])
      BY DEF Shaped, Request, Kinds
    <2>2. "enroll" \in Kinds /\ None \in Sess \cup {None}
          /\ t \in Sess \cup Toks \cup Devices \cup Positions \cup {None}
      BY DEF Kinds
    <2>3. \E r : Sent(c, r) /\ r.kind = "enroll" /\ r.sess = None
      BY <1>1, <1>2, <2>1, <2>2, AskSent
    <2>4. PICK r : Sent(c, r) /\ r.kind = "enroll" /\ r.sess = None
      BY <2>3
    <2>5. QED
      BY <1>1, <1>2, <2>4, AskInv
  <1>3. ASSUME Ask(d, c, "login", None, None, "entering"), UNCHANGED <<holds, saved>>
        PROVE  IInv'
    <2>1. \A w \in Workers : Shaped([kind |-> "login", worker |-> w, by |-> d,
                                     sess |-> None, target |-> None])
      BY DEF Shaped, Request, Kinds
    <2>2. "login" \in Kinds /\ None \in Sess \cup {None}
          /\ None \in Sess \cup Toks \cup Devices \cup Positions \cup {None}
      BY DEF Kinds
    <2>3. \E r : Sent(c, r) /\ r.kind = "login" /\ r.sess = None
      BY <1>1, <1>3, <2>1, <2>2, AskSent
    <2>4. PICK r : Sent(c, r) /\ r.kind = "login" /\ r.sess = None
      BY <2>3
    <2>5. QED
      BY <1>1, <1>3, <2>4, AskInv
  <1>4. CASE CliEnter(d, c)
    BY <1>2, <1>3, <1>4 DEF CliEnter
  <1>5. CASE WebEnter(d, c)
    BY <1>2, <1>3, <1>5 DEF WebEnter
  <1>6. CASE CliConfirm(d, c)
    <2>1. Ask(d, c, "me", holds[d], None, "confirming") /\ UNCHANGED <<holds, saved>>
          /\ holds[d] \in Sess
      BY <1>6 DEF CliConfirm, IInv, DeviceKnows
    <2>2. PICK r : Sent(c, r) /\ r.kind = "me" /\ r.sess = holds[d]
      BY <1>1, <2>1, AskSession
    <2>3. QED
      BY <1>1, <2>1, <2>2, AskInv
  <1>7. CASE Resume(d, c)
    <2>1. /\ Ask(d, c, "me", saved[d], None, "resuming") /\ saved[d] \in Sess
          /\ UNCHANGED saved /\ holds' = [holds EXCEPT ![d] = saved[d]]
      BY <1>1, <1>7 DEF Resume
    <2>2. PICK r : Sent(c, r) /\ r.kind = "me" /\ r.sess = saved[d]
      BY <1>1, <2>1, AskSession
    <2>3. /\ holds'[d] = saved[d] /\ holds' \in [Devices -> Sess \cup {None}]
          /\ \A e \in Devices \ {d} : holds'[e] = holds[e]
      BY <1>1, <2>1
    <2>4. QED
      BY <2>1, <2>2, <2>3, AskInv
  <1>8. CASE WebLogout(d, c)
    <2>1. Ask(d, c, "logout", holds[d], None, "leaving") /\ UNCHANGED <<holds, saved>>
          /\ holds[d] \in Sess
      BY <1>8 DEF WebLogout, IInv, DeviceKnows
    <2>2. PICK r : Sent(c, r) /\ r.kind = "logout" /\ r.sess = holds[d]
      BY <1>1, <2>1, AskSession
    <2>3. QED
      BY <1>1, <2>1, <2>2, AskInv
  <1>9. QED
    BY <1>4, <1>5, <1>6, <1>7, <1>8

\* A request that no device waits for: a read receipt, or the administrator's.
LEMMA UnwaitedInv ==
  ASSUME IInv, NEW c \in Calls, NEW r, Sent(c, r), UNCHANGED <<config, device>>
  PROVE  IInv'
  <1>1. TypeOK'
    BY SentType DEF IInv, TypeOK, DeviceType, device
  <1>2. ServerInv'
    BY SentServer DEF IInv
  <1>3. \A d \in Calls : pc[d] # "idle" => pc'[d] # "idle" /\ req'[d] = req[d]
    BY DEF Sent, Send, Goto, IInv, TypeOK
  <1>4. UNCHANGED sessions
    BY DEF Sent, tables
  <1>5. DeviceKnows' /\ SavedIsCommitted'
    BY <1>3, <1>4, ServerDevice DEF IInv
  <1>6. QED
    BY <1>1, <1>2, <1>5 DEF IInv

LEMMA CallSteps ==
  ASSUME IInv, NEW c \in Calls,
         \/ LimitLogin(c) \/ CheckSession(c) \/ ReadRows(c) \/ Flush(c)
         \/ Commit(c) \/ Answer(c) \/ Rollback(c)
  PROVE  IInv'
  <1>1. TypeOK /\ ServerInv /\ ReqShaped
    BY DEF IInv, ServerInv
  <1>2. TypeOK'
    BY <1>1, LimitLoginType, CheckSessionType, ReadRowsType, FlushType, CommitType,
       AnswerType, RollbackType
  <1>3. ServerInv'
    BY <1>1, LimitLoginServer, CheckSessionServer, ReadRowsServer, FlushServer, CommitServer,
       AnswerServer, RollbackServer
  <1>4. UNCHANGED <<config, device, req>>
    BY DEF LimitLogin, CheckSession, ReadRows, Flush, Commit, Answer, Rollback
  <1>5. \A d \in Calls : pc[d] # "idle" => pc'[d] # "idle"
    BY <1>1 DEF LimitLogin, CheckSession, ReadRows, Flush, Commit, Answer, Rollback, Goto,
           TypeOK
  <1>6. \A s \in Sess : sessions[s] # "absent" => sessions'[s] # "absent"
    <2>1. CASE Commit(c)
      BY <1>1, <2>1, CommitStable
    <2>2. CASE ~Commit(c)
      BY <2>2 DEF LimitLogin, CheckSession, ReadRows, Flush, Answer, Rollback, tables
    <2>3. QED
      BY <2>1, <2>2
  <1>7. DeviceKnows' /\ SavedIsCommitted'
    BY <1>4, <1>5, <1>6, ServerDevice DEF IInv
  <1>8. QED
    BY <1>2, <1>3, <1>7 DEF IInv

LEMMA OtherSteps ==
  ASSUME IInv, Tick \/ \E w \in Workers : CrashWorker(w)
  PROVE  IInv'
  <1>1. TypeOK' /\ ServerInv'
    BY TickType, CrashType, TickServer, CrashServer DEF IInv
  <1>2. UNCHANGED <<config, device, req, sessions>>
    BY DEF Tick, CrashWorker, tables
  <1>3. \A d \in Calls : pc[d] # "idle" => pc'[d] # "idle"
    BY DEF Tick, CrashWorker
  <1>4. DeviceKnows' /\ SavedIsCommitted'
    BY <1>2, <1>3, ServerDevice DEF IInv
  <1>5. QED
    BY <1>1, <1>4 DEF IInv

LEMMA InitInv == Init => IInv
  <1>1. SUFFICES ASSUME Init PROVE IInv
    OBVIOUS
  <1>2. TypeOK
    BY <1>1, TypeInit
  <1>3. \A c \in Calls : /\ pc[c] = "idle" /\ c \notin acked /\ before[c] = {}
                         /\ writes[c] = NoWrites
                         /\ sessions[c] = "absent" /\ tokens[c] = "absent"
    BY <1>1, NamesAssumption, NoneApart DEF Init
  <1>4. ReqShaped /\ WritesOwn /\ Unborn /\ Present /\ Effects /\ AckedLate
    BY <1>1, <1>3 DEF Init, ReqShaped, WritesOwn, Flushed, Unborn, Present, Effects,
           Committed,
                AckedLate
  <1>5. BeforeFinished /\ RevokedIsRefused /\ OneTimeAfterAnswer
    BY <1>3 DEF BeforeFinished, RevokedIsRefused, OneTimeAfterAnswer
  <1>6. DeviceKnows /\ SavedIsCommitted
    BY <1>1 DEF Init, DeviceKnows, SavedIsCommitted
  <1>7. QED
    BY <1>2, <1>4, <1>5, <1>6 DEF IInv, ServerInv

LEMMA StutterInv == IInv /\ UNCHANGED vars => IInv'
  <1>1. SUFFICES ASSUME IInv, UNCHANGED vars PROVE IInv'
    OBVIOUS
  <1>2. UNCHANGED <<config, server, tables, device>>
    BY <1>1 DEF vars
  <1>3. TypeOK'
    BY <1>1, <1>2 DEF IInv, TypeOK, config, server, tables, device
  <1>4. pc' \in [Calls -> {"idle"} \cup Running \cup Ended]
    BY <1>3 DEF TypeOK
  <1>5. UNCHANGED <<pc, req, before, writes, acked, respondFirst, sessions, tokens>>
    BY <1>2 DEF config, server, tables
  <1>6. ServerInv'
    BY <1>1, <1>4, <1>5, KeepServer DEF IInv
  <1>7. DeviceKnows' /\ SavedIsCommitted'
    BY <1>1, <1>2, <1>5, ServerDevice DEF IInv
  <1>8. QED
    BY <1>3, <1>6, <1>7 DEF IInv

LEMMA NextInv == IInv /\ [Next]_vars => IInv'
  <1>1. SUFFICES ASSUME IInv, [Next]_vars PROVE IInv'
    OBVIOUS
  <1>2. ASSUME NEW c \in Calls, Administer(c) PROVE IInv'
    BY <1>1, <1>2, AdministerSent, UnwaitedInv DEF Administer, IInv
  <1>3. ASSUME NEW c \in Calls, NEW d \in Devices, MarkRead(d, c) PROVE IInv'
    BY <1>1, <1>3, MarkReadSent, UnwaitedInv DEF MarkRead, IInv
  <1>4. QED
    BY <1>1, <1>2, <1>3, CallSteps, AskSteps, SettleSteps, OtherSteps, StutterInv DEF Next

-------------------------------------------------------------------------------
THEOREM Invariance == Spec => []IInv
  BY InitInv, NextInv, PTL DEF Spec

\* Requests, tables and devices keep their types.
THEOREM TypeCorrect == Spec => []TypeOK
  <1>1. IInv => TypeOK
    BY DEF IInv
  <1>2. QED
    BY <1>1, Invariance, PTL

\* After a logout or the revocation of a session was answered no REST call is
\* served for the session, nor after that of its device if answers follow
\* COMMITs: no later COMMIT reopens what they found open.
THEOREM RevokedIsRefusedAlways == Spec => []RevokedIsRefused
  <1>1. IInv => RevokedIsRefused
    BY DEF IInv, ServerInv
  <1>2. QED
    BY <1>1, Invariance, PTL

\* When answers follow COMMITs, an enrollment token redeemed by an answered call
\* is not redeemed by a call sent later.
THEOREM OneTimeAlways == Spec => []OneTimeAfterAnswer
  <1>1. IInv => OneTimeAfterAnswer
    BY DEF IInv, ServerInv
  <1>2. QED
    BY <1>1, Invariance, PTL

\* A credential in credentials.json names a committed session in both orders of
\* answer and COMMIT, one in localStorage when answers follow COMMITs.
THEOREM SavedIsCommittedAlways == Spec => []SavedIsCommitted
  <1>1. IInv => SavedIsCommitted
    BY DEF IInv
  <1>2. QED
    BY <1>1, Invariance, PTL

===============================================================================
