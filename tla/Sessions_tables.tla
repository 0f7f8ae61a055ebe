--------------------------- MODULE Sessions_tables ----------------------------
(***************************************************************************)
(* Proofs about what the calls of Sessions leave behind, for every value   *)
(* of the constants: audit rows, read positions and the limiter's entries. *)
(* They rest on the invariant IInv of Sessions_proof.                      *)
(*                                                                         *)
(* Audit: a COMMIT adds the row of its call with the change itself, and    *)
(* what a call has flushed is what its own request asks for.               *)
(* Positions: a call that overwrites a larger position had loaded a        *)
(* smaller one; the row showed it because an earlier overlapping call had  *)
(* already undone the larger one, or the call overlaps itself.             *)
(***************************************************************************)
EXTENDS Sessions_proof, FiniteSetTheorems

\* A call that is sent keeps its request and the list of earlier calls.
Onward ==
  /\ \A c \in Calls : pc[c] # "idle" =>
       pc'[c] # "idle" /\ req'[c] = req[c] /\ before'[c] = before[c]
  /\ \A c \in Calls : pc'[c] = "idle" => req'[c] = req[c]

\* A request arrives and touches no table.
Arrives(c) ==
  /\ \E r : Send(c, r)
  /\ UNCHANGED <<config, clock, logins, saw, writes, acked, tables>>

LEMMA ArrivesOnward ==
  ASSUME TypeOK, NEW c \in Calls, Arrives(c)
  PROVE  /\ Onward /\ pc[c] = "idle" /\ pc'[c] \in {"limiting", "reading", "checking"}
         /\ \A d \in Calls \ {c} : pc'[d] = pc[d] /\ req'[d] = req[d] /\ before'[d] = before[d]
  BY DEF Arrives, Send, Goto, Onward, TypeOK

\* Every step is one of a device or time, an arrival, or a step of a call.
LEMMA StepCases ==
  ASSUME [Next]_vars
  PROVE  \/ UNCHANGED <<config, server, tables>>
         \/ \E c \in Calls : Arrives(c)
         \/ \E c \in Calls : \/ LimitLogin(c) \/ CheckSession(c) \/ ReadRows(c) \/ Flush(c)
                             \/ Commit(c) \/ Answer(c) \/ Rollback(c)
         \/ \E w \in Workers : CrashWorker(w)
         \/ Tick
  <1>1. ASSUME NEW c \in Calls, Administer(c) PROVE Arrives(c)
    BY <1>1 DEF Administer, Arrives
  <1>2. ASSUME NEW c \in Calls, NEW d \in Devices, NEW kind, NEW sess, NEW target, NEW step,
               Ask(d, c, kind, sess, target, step)
        PROVE  Arrives(c)
    BY <1>2 DEF Ask, Arrives
  <1>3. ASSUME NEW c \in Calls, NEW d \in Devices,
               \/ CliEnter(d, c) \/ CliConfirm(d, c) \/ WebEnter(d, c)
               \/ Resume(d, c) \/ WebLogout(d, c)
        PROVE  Arrives(c)
    BY <1>2, <1>3 DEF CliEnter, CliConfirm, WebEnter, Resume, WebLogout
  <1>4. ASSUME NEW c \in Calls, NEW d \in Devices, MarkRead(d, c) PROVE Arrives(c)
    BY <1>4 DEF MarkRead, Arrives
  <1>5. ASSUME NEW d \in Devices, NEW step, NEW h, NEW s, Settle(d, step, h, s)
        PROVE  UNCHANGED <<config, server, tables>>
    BY <1>5 DEF Settle
  <1>6. ASSUME NEW d \in Devices,
               \/ CliEntered(d) \/ CliConfirmed(d) \/ WebEntered(d) \/ EnterFails(d)
               \/ Resumed(d) \/ ResumeFails(d) \/ WebLoggedOut(d) \/ CliLogout(d) \/ Close(d)
        PROVE  UNCHANGED <<config, server, tables>>
    BY <1>5, <1>6 DEF CliEntered, CliConfirmed, WebEntered, EnterFails, Resumed, ResumeFails,
                      WebLoggedOut, CliLogout, Close
  <1>7. CASE UNCHANGED vars
    BY <1>7 DEF vars
  <1>8. CASE Next
    BY <1>1, <1>3, <1>4, <1>6, <1>8 DEF Next
  <1>9. QED
    BY <1>7, <1>8

-------------------------------------------------------------------------------
\* Audit rows.
Unsent == \A c \in Calls : pc[c] = "idle" => req[c] = None /\ c \notin audit
RevokesOwn ==
  \A c \in Calls : \A s \in writes[c].revoke : Revokes(c, s) \/ RevokesDeviceOf(c, s)
AuditInv == Unsent /\ RevokesOwn /\ EveryChangeAudited

\* A call that was sent goes on revoking the same sessions.
LEMMA SameRevokes ==
  ASSUME Unsent, Onward, NEW c \in Calls, pc[c] # "idle", NEW s
  PROVE  /\ Revokes(c, s) => Revokes(c, s)'
         /\ RevokesDeviceOf(c, s) => RevokesDeviceOf(c, s)'
  BY DEF Unsent, Onward, Revokes, RevokesDeviceOf, OpenedBy

\* ... and revokes nothing else.
LEMMA AuditedRevokes ==
  ASSUME IInv, Onward, respondFirst' = respondFirst, NEW c \in Calls, pc[c] # "idle", NEW s
  PROVE  /\ Revokes(c, s)' <=> Revokes(c, s)
         /\ RevokesEarlierOf(c, s)' <=> RevokesEarlierOf(c, s)
  <1>1. req'[c] = req[c] /\ before'[c] = before[c]
    BY DEF Onward
  <1>2. \A e \in before[c] : e \in Calls => req'[e] = req[e]
    <2>1. \A e \in before[c] : pc[e] # "idle"
      BY DEF IInv, ServerInv, BeforeFinished, AckedLate
    <2>2. QED
      BY <2>1 DEF Onward
  <1>3. QED
    BY <1>1, <1>2, RevokesFrame

LEMMA RevokesStay ==
  ASSUME IInv, AuditInv, Onward,
         \A c \in Calls : \/ writes'[c] = writes[c] \/ writes'[c] = NoWrites
                          \/ pc[c] = "writing" /\ writes'[c] = WritesOf(c)
  PROVE  RevokesOwn'
  <1>1. SUFFICES ASSUME NEW c \in Calls, NEW s \in writes'[c].revoke
                 PROVE  Revokes(c, s)' \/ RevokesDeviceOf(c, s)'
    BY DEF RevokesOwn
  <1>2. writes'[c] # NoWrites
    BY DEF NoWrites
  <1>3. CASE writes'[c] = writes[c]
    <2>1. Flushed(c)
      BY <1>2, <1>3 DEF IInv, ServerInv, WritesOwn
    <2>2. pc[c] # "idle"
      BY <2>1 DEF Flushed
    <2>3. QED
      BY <1>3, <2>2, SameRevokes DEF AuditInv, RevokesOwn
  <1>4. CASE pc[c] = "writing" /\ writes'[c] = WritesOf(c)
    <2>1. Shaped(req[c])
      BY <1>4 DEF IInv, ServerInv, ReqShaped
    <2>2. Revokes(c, s) \/ RevokesDeviceOf(c, s)
      <3>1. CASE req[c].kind \in {"login", "enroll", "issue"}
        BY <1>4, <3>1 DEF WritesOf, LoginWrites, EnrollWrites, IssueWrites, NoWrites
      <3>2. CASE req[c].kind \in {"logout", "revoke"}
        BY <1>4, <3>2 DEF WritesOf, RevokeWrites, NoWrites, Revokes
      <3>3. CASE req[c].kind = "revokeDevice"
        BY <1>4, <3>3 DEF WritesOf, RevokeDeviceWrites, NoWrites, RevokesDeviceOf
      <3>4. CASE req[c].kind \in {"me", "read", "wsread"}
        BY <1>4, <3>4 DEF WritesOf, ReadWrites, TouchWrites, NoWrites
      <3>5. QED
        BY <2>1, <3>1, <3>2, <3>3, <3>4 DEF Shaped, Request, Kinds
    <2>3. QED
      BY <1>4, <2>2, SameRevokes DEF AuditInv
  <1>5. QED
    BY <1>2, <1>3, <1>4

\* Steps other than a COMMIT leave the tables alone.
LEMMA QuietAudit ==
  ASSUME IInv, AuditInv, Onward, UNCHANGED tables, respondFirst' = respondFirst,
         \A c \in Calls : \/ writes'[c] = writes[c] \/ writes'[c] = NoWrites
                          \/ pc[c] = "writing" /\ writes'[c] = WritesOf(c)
  PROVE  AuditInv'
  <1>1. UNCHANGED <<sessions, tokens, audit>>
    BY DEF tables
  <1>2. Unsent'
    BY <1>1 DEF AuditInv, Unsent, Onward
  <1>3. \A c \in audit : c \in Calls /\ pc[c] # "idle" /\ req'[c] = req[c]
    BY DEF AuditInv, Unsent, Onward, IInv, TypeOK
  <1>4. EveryChangeAudited'
    <2>1. ASSUME NEW s \in Sess
          PROVE  /\ s \in Calls /\ sessions'[s] # "absent" => s \in audit'
                 /\ sessions'[s] = "revoked" =>
                      \E c \in audit' : Revokes(c, s)' \/ RevokesDeviceOf(c, s)'
      BY <1>1, <1>3, SameRevokes DEF AuditInv, EveryChangeAudited
    <2>2. ASSUME NEW t \in Toks
          PROVE  /\ t \in Calls /\ tokens'[t] # "absent" => t \in audit'
                 /\ tokens'[t] = "used" =>
                      \E c \in audit' : req'[c].kind = "enroll" /\ req'[c].target = t
      BY <1>1, <1>3 DEF AuditInv, EveryChangeAudited
    <2>3. ASSUME NEW c \in audit'
          PROVE  /\ req'[c].kind \in {"login", "enroll"} => sessions'[c] # "absent"
                 /\ req'[c].kind = "enroll" => tokens'[req'[c].target] = "used"
                 /\ req'[c].kind = "issue" => tokens'[c] # "absent"
      BY <1>1, <1>3 DEF AuditInv, EveryChangeAudited
    <2>4. ASSUME NEW c \in audit', NEW s \in Sess
          PROVE  /\ Revokes(c, s)' => sessions'[s] = "revoked"
                 /\ RevokesEarlierOf(c, s)' => sessions'[s] # "open"
      <3>1. c \in audit /\ c \in Calls /\ pc[c] # "idle"
        BY <1>1, <1>3
      <3>2. /\ Revokes(c, s) => sessions[s] = "revoked"
            /\ RevokesEarlierOf(c, s) => sessions[s] # "open"
        BY <3>1 DEF AuditInv, EveryChangeAudited
      <3>3. QED
        BY <1>1, <3>1, <3>2, AuditedRevokes
    <2>5. QED
      BY <2>1, <2>2, <2>3, <2>4 DEF EveryChangeAudited
  <1>5. QED
    BY <1>2, <1>4, RevokesStay DEF AuditInv

LEMMA CommitAudit ==
  ASSUME IInv, AuditInv, NEW c \in Calls, Commit(c)
  PROVE  AuditInv'
  <1>1. Onward /\ UNCHANGED req /\ pc[c] = "committing"
    BY DEF Commit, Goto, Onward, IInv, TypeOK
  <1>2. Shaped(req[c]) /\ Owed(c, writes[c])
    BY <1>1, CommitStable DEF IInv, ServerInv, ReqShaped
  <1>3. audit' = audit \cup AuditRows(c) /\ audit \subseteq Calls
    BY DEF Commit, IInv, TypeOK
  <1>4. \A d \in audit : pc[d] # "idle"
    BY <1>3 DEF AuditInv, Unsent
  <1>5. Unsent'
    BY <1>1, <1>3 DEF AuditInv, Unsent, Onward, AuditRows
  <1>6. RevokesOwn'
    <2>1. \A d \in Calls : writes'[d] = writes[d] \/ writes'[d] = NoWrites
      BY DEF Commit, IInv, TypeOK
    <2>2. QED
      BY <1>1, <2>1, RevokesStay
  <1>7. /\ sessions' = [s \in Sess |-> IF s \in writes[c].revoke THEN "revoked"
                                       ELSE IF s \in writes[c].open THEN "open" ELSE sessions[s]]
        /\ tokens' = [t \in Toks |-> IF t \in writes[c].use THEN "used"
                                     ELSE IF t \in writes[c].issue THEN "fresh" ELSE tokens[t]]
    BY DEF Commit
  <1>8. ASSUME NEW s \in Sess
        PROVE  /\ s \in Calls /\ sessions'[s] # "absent" => s \in audit'
               /\ sessions'[s] = "revoked" =>
                    \E d \in audit' : Revokes(d, s)' \/ RevokesDeviceOf(d, s)'
    <2>1. CASE s \in writes[c].revoke
      <3>1. sessions[s] # "absent"
        BY <1>2, <2>1 DEF Owed
      <3>2. Revokes(c, s) \/ RevokesDeviceOf(c, s)
        BY <2>1 DEF AuditInv, RevokesOwn
      <3>3. c \in audit'
        BY <1>3, <3>2 DEF Revokes, RevokesDeviceOf, AuditRows, Audited
      <3>4. Revokes(c, s)' \/ RevokesDeviceOf(c, s)'
        BY <1>1, <3>2, SameRevokes DEF AuditInv
      <3>5. QED
        BY <1>3, <3>1, <3>3, <3>4 DEF AuditInv, EveryChangeAudited
    <2>2. CASE s \notin writes[c].revoke /\ s \in writes[c].open
      <3>1. s = c /\ req[c].kind \in {"login", "enroll"}
        BY <1>2, <2>2 DEF Owed
      <3>2. QED
        BY <1>3, <1>7, <2>2, <3>1 DEF AuditRows, Audited
    <2>3. CASE s \notin writes[c].revoke /\ s \notin writes[c].open
      <3>1. sessions'[s] = sessions[s]
        BY <1>7, <2>3
      <3>2. QED
        BY <1>1, <1>3, <1>4, <3>1, SameRevokes DEF AuditInv, EveryChangeAudited
    <2>4. QED
      BY <2>1, <2>2, <2>3
  <1>9. ASSUME NEW t \in Toks
        PROVE  /\ t \in Calls /\ tokens'[t] # "absent" => t \in audit'
               /\ tokens'[t] = "used" =>
                    \E d \in audit' : req'[d].kind = "enroll" /\ req'[d].target = t
    <2>1. CASE t \in writes[c].use
      <3>1. req[c].kind = "enroll" /\ t = req[c].target
        BY <1>2, <2>1 DEF Owed
      <3>2. tokens[t] # "absent"
        BY <1>1, <3>1 DEF IInv, ServerInv, Present, Admitted
      <3>3. c \in audit'
        BY <1>3, <3>1 DEF AuditRows, Audited
      <3>4. QED
        BY <1>1, <1>3, <3>1, <3>2, <3>3 DEF AuditInv, EveryChangeAudited
    <2>2. CASE t \notin writes[c].use /\ t \in writes[c].issue
      <3>1. t = c /\ req[c].kind = "issue"
        BY <1>2, <2>2 DEF Owed
      <3>2. QED
        BY <1>3, <1>7, <2>2, <3>1 DEF AuditRows, Audited
    <2>3. CASE t \notin writes[c].use /\ t \notin writes[c].issue
      <3>1. tokens'[t] = tokens[t]
        BY <1>7, <2>3
      <3>2. QED
        BY <1>1, <1>3, <3>1 DEF AuditInv, EveryChangeAudited
    <2>4. QED
      BY <2>1, <2>2, <2>3
  <1>10. ASSUME NEW d \in audit'
         PROVE  /\ req'[d].kind \in {"login", "enroll"} => sessions'[d] # "absent"
                /\ req'[d].kind = "enroll" => tokens'[req'[d].target] = "used"
                /\ req'[d].kind = "issue" => tokens'[d] # "absent"
    <2>1. CASE d = c
      BY <1>1, <1>2, <1>7, <2>1, NoneApart DEF Owed, Shaped
    <2>2. CASE d # c
      <3>1. d \in audit /\ d \in Sess /\ d \in Toks
        BY <1>3, <2>2, NoneApart DEF AuditRows
      <3>2. Shaped(req[d])
        BY <1>3, <1>4, <3>1 DEF IInv, ServerInv, ReqShaped
      <3>3. TypeOK /\ ServerInv
        BY DEF IInv
      <3>4. QED
        BY <1>1, <3>1, <3>2, <3>3, CommitStable DEF AuditInv, EveryChangeAudited, Shaped
    <2>3. QED
      BY <2>1, <2>2
  <1>13. ASSUME NEW d \in audit', NEW s \in Sess
         PROVE  /\ Revokes(d, s)' => sessions'[s] = "revoked"
                /\ RevokesEarlierOf(d, s)' => sessions'[s] # "open"
    <2>1. d \in Calls /\ pc[d] # "idle" /\ respondFirst' = respondFirst
      BY <1>1, <1>3, <1>4 DEF AuditRows, Commit, config
    <2>2. /\ Revokes(d, s)' <=> Revokes(d, s)
          /\ RevokesEarlierOf(d, s)' <=> RevokesEarlierOf(d, s)
      BY <1>1, <2>1, AuditedRevokes
    <2>3. /\ sessions[s] = "revoked" => sessions'[s] = "revoked"
          /\ s # c /\ sessions[s] # "open" => sessions'[s] # "open"
      BY CommitStable DEF IInv
    <2>4. RevokesEarlierOf(d, s) => s # c
      BY <1>1, <2>1, EarlierStays DEF IInv
    <2>5. CASE d = c
      <3>1. /\ Revokes(c, s) => s \in writes[c].revoke
            /\ RevokesEarlierOf(c, s) => s \in writes[c].revoke \/ sessions[s] # "open"
        BY <1>2 DEF Owed
      <3>2. s \in writes[c].revoke => sessions'[s] = "revoked"
        BY <1>7
      <3>3. QED
        BY <2>2, <2>3, <2>4, <2>5, <3>1, <3>2
    <2>6. CASE d # c
      <3>1. /\ Revokes(d, s) => sessions[s] = "revoked"
            /\ RevokesEarlierOf(d, s) => sessions[s] # "open"
        BY <1>3, <2>6 DEF AuditInv, EveryChangeAudited, AuditRows
      <3>2. QED
        BY <2>2, <2>3, <2>4, <3>1
    <2>7. QED
      BY <2>5, <2>6
  <1>11. EveryChangeAudited'
    BY <1>8, <1>9, <1>10, <1>13 DEF EveryChangeAudited
  <1>12. QED
    BY <1>5, <1>6, <1>11 DEF AuditInv

LEMMA AuditStep == IInv /\ AuditInv /\ [Next]_vars => AuditInv'
  <1>1. SUFFICES ASSUME IInv, AuditInv, [Next]_vars PROVE AuditInv'
    OBVIOUS
  <1>2. TypeOK
    BY <1>1 DEF IInv
  <1>3. CASE UNCHANGED <<config, server, tables>>
    <2>1. Onward /\ UNCHANGED <<tables, writes, respondFirst>>
      BY <1>3 DEF server, config, Onward
    <2>2. QED
      BY <1>1, <2>1, QuietAudit
  <1>4. ASSUME NEW c \in Calls, Arrives(c) PROVE AuditInv'
    <2>1. UNCHANGED <<tables, writes, respondFirst>>
      BY <1>4 DEF Arrives, config
    <2>2. QED
      BY <1>1, <1>2, <1>4, <2>1, ArrivesOnward, QuietAudit
  <1>5. ASSUME NEW c \in Calls,
               \/ LimitLogin(c) \/ CheckSession(c) \/ ReadRows(c) \/ Flush(c)
               \/ Answer(c) \/ Rollback(c)
        PROVE  AuditInv'
    <2>1. Onward
      BY <1>2, <1>5 DEF LimitLogin, CheckSession, ReadRows, Flush, Answer, Rollback, Goto,
                        Onward, TypeOK, Running
    <2>2. UNCHANGED <<tables, respondFirst>>
      BY <1>5 DEF LimitLogin, CheckSession, ReadRows, Flush, Answer, Rollback, config
    <2>3. \A d \in Calls : \/ writes'[d] = writes[d] \/ writes'[d] = NoWrites
                           \/ pc[d] = "writing" /\ writes'[d] = WritesOf(d)
      BY <1>2, <1>5 DEF LimitLogin, CheckSession, ReadRows, Flush, Answer, Rollback, TypeOK
    <2>4. QED
      BY <1>1, <2>1, <2>2, <2>3, QuietAudit
  <1>6. ASSUME NEW w \in Workers, CrashWorker(w) PROVE AuditInv'
    <2>1. Onward /\ UNCHANGED <<tables, respondFirst>>
      BY <1>2, <1>6 DEF CrashWorker, config, Onward, TypeOK, Running
    <2>2. \A d \in Calls : writes'[d] = writes[d] \/ writes'[d] = NoWrites
      BY <1>6 DEF CrashWorker
    <2>3. QED
      BY <1>1, <2>1, <2>2, QuietAudit
  <1>7. CASE Tick
    <2>1. Onward /\ UNCHANGED <<tables, writes, respondFirst>>
      BY <1>7 DEF Tick, config, Onward
    <2>2. QED
      BY <1>1, <2>1, QuietAudit
  <1>8. QED
    BY <1>1, <1>3, <1>4, <1>5, <1>6, <1>7, CommitAudit, StepCases

LEMMA AuditInit == Init => AuditInv
  <1>1. SUFFICES ASSUME Init PROVE AuditInv
    OBVIOUS
  <1>2. Unsent /\ RevokesOwn
    BY <1>1 DEF Init, Unsent, RevokesOwn, NoWrites
  <1>3. EveryChangeAudited
    BY <1>1, NamesAssumption DEF Init, EveryChangeAudited, Sess, Toks
  <1>4. QED
    BY <1>2, <1>3 DEF AuditInv

\* Sessions and tokens change only with the audit row of a call that changes
\* them, and no row of a login, a redemption, an issued token, a logout or a
\* revocation tells of a change that did not happen or was taken back: the row
\* is added to the transaction of the change, and no later COMMIT reopens a
\* session.
THEOREM EveryChangeAuditedAlways == Spec => []EveryChangeAudited
  <1>1. Init => AuditInv
    BY AuditInit
  <1>2. AuditInv => EveryChangeAudited
    BY DEF AuditInv
  <1>3. QED
    BY <1>1, <1>2, AuditStep, Invariance, PTL DEF Spec

-------------------------------------------------------------------------------
\* The limiter.
LoginInv ==
  /\ \A w \in Workers : IsFiniteSet(logins[w]) /\ \A x \in logins[w] : x[1] <= clock
  /\ AdmittedPerWindow

\* A window that holds the present counts what the limiter counts, and at most
\* the login that has just been let through.
LEMMA LimitLoginWindow ==
  ASSUME IInv, LoginInv, NEW c \in Calls, LimitLogin(c)
  PROVE  LoginInv'
  <1>1. clock' = clock /\ clock \in Nat /\ MaxLogins \in Nat /\ Window \in Nat /\ MaxTime \in Nat
    BY LimitsAssumption DEF LimitLogin, IInv, TypeOK
  <1>2. ASSUME NEW w \in Workers
        PROVE  /\ IsFiniteSet(logins'[w])
               /\ \A x \in logins'[w] : x[1] <= clock'
               /\ \A t \in 0..MaxTime :
                    Cardinality({x \in logins'[w] : t <= x[1] /\ x[1] < t + Window}) <= MaxLogins
    <2>1. CASE logins'[w] = logins[w]
      BY <1>1, <2>1 DEF LoginInv, AdmittedPerWindow
    <2>2. CASE logins'[w] # logins[w]
      <3>1. ~Limited(w) /\ logins'[w] = logins[w] \cup {<<clock, c>>}
        BY <2>2 DEF LimitLogin, IInv, TypeOK
      <3>2. IsFiniteSet(logins[w]) /\ logins[w] \subseteq (0..MaxTime) \X Calls
        BY DEF LoginInv, IInv, TypeOK
      <3>3. IsFiniteSet(logins'[w]) /\ \A x \in logins'[w] : x[1] <= clock'
        <4>1. IsFiniteSet(logins'[w])
          BY <3>1, <3>2, FS_AddElement
        <4>2. QED
          BY <1>1, <3>1, <4>1 DEF LoginInv
      <3>4. ASSUME NEW t \in 0..MaxTime
            PROVE  Cardinality({x \in logins'[w] : t <= x[1] /\ x[1] < t + Window}) <= MaxLogins
        <4> DEFINE Old == {x \in logins[w] : t <= x[1] /\ x[1] < t + Window}
                   New == {x \in logins'[w] : t <= x[1] /\ x[1] < t + Window}
                   Recent == {x \in logins[w] : x[1] + Window > clock}
        <4>1. IsFiniteSet(Old) /\ IsFiniteSet(Recent) /\ Old \subseteq logins[w]
          BY <3>2, FS_Subset
        <4>2. Cardinality(Old) \in Nat /\ Cardinality(Recent) \in Nat
          BY <4>1, FS_CardinalityType
        <4>3. CASE t <= clock /\ clock < t + Window
          <5>1. Old \subseteq Recent
            BY <1>1, <3>2, <4>3
          <5>2. Cardinality(Old) <= Cardinality(Recent)
            BY <4>1, <5>1, FS_Subset
          <5>3. Cardinality(Recent) < MaxLogins
            BY <1>1, <3>1, <4>2 DEF Limited
          <5>4. New = Old \cup {<<clock, c>>}
            BY <3>1, <4>3
          <5> HIDE DEF Old, New, Recent
          <5>5. Cardinality(New) = IF <<clock, c>> \in Old THEN Cardinality(Old)
                                                          ELSE Cardinality(Old) + 1
            BY <4>1, <5>4, FS_AddElement
          <5>6. IsFiniteSet(New)
            BY <4>1, <5>4, FS_AddElement
          <5>7. Cardinality(New) \in Nat
            BY <5>6, FS_CardinalityType
          <5>8. Cardinality(New) <= MaxLogins
            BY <1>1, <4>2, <5>2, <5>3, <5>5, <5>7
          <5>9. QED
            BY <5>8 DEF New
        <4>4. CASE ~(t <= clock /\ clock < t + Window)
          <5>1. New = Old
            BY <3>1, <4>4
          <5>2. QED
            BY <5>1 DEF LoginInv, AdmittedPerWindow
        <4>5. QED
          BY <4>3, <4>4
      <3>5. QED
        BY <3>3, <3>4
    <2>3. QED
      BY <2>1, <2>2
  <1>3. QED
    BY <1>2 DEF LoginInv, AdmittedPerWindow

LEMMA LoginStep == IInv /\ LoginInv /\ [Next]_vars => LoginInv'
  <1>1. SUFFICES ASSUME IInv, LoginInv, [Next]_vars PROVE LoginInv'
    OBVIOUS
  <1>2. clock \in Nat /\ MaxLogins \in Nat /\ MaxTime \in Nat
    BY <1>1, LimitsAssumption DEF IInv, TypeOK
  <1>3. ASSUME UNCHANGED <<clock, logins>> PROVE LoginInv'
    BY <1>1, <1>3 DEF LoginInv, AdmittedPerWindow
  <1>4. CASE UNCHANGED <<config, server, tables>>
    BY <1>3, <1>4 DEF server
  <1>5. ASSUME NEW c \in Calls, Arrives(c) PROVE LoginInv'
    BY <1>3, <1>5 DEF Arrives
  <1>6. ASSUME NEW c \in Calls,
               \/ CheckSession(c) \/ ReadRows(c) \/ Flush(c)
               \/ Commit(c) \/ Answer(c) \/ Rollback(c)
        PROVE  LoginInv'
    BY <1>3, <1>6 DEF CheckSession, ReadRows, Flush, Commit, Answer, Rollback
  <1>7. ASSUME NEW w \in Workers, CrashWorker(w) PROVE LoginInv'
    <2>1. clock' = clock /\ logins' = [logins EXCEPT ![w] = {}]
      BY <1>7 DEF CrashWorker
    <2>2. ASSUME NEW v \in Workers, v # w
          PROVE  logins'[v] = logins[v]
      BY <2>1, <2>2
    <2>3. logins'[w] = {}
      BY <1>1, <2>1 DEF IInv, TypeOK
    <2>4. ASSUME NEW v \in Workers
          PROVE  /\ IsFiniteSet(logins'[v])
                 /\ \A x \in logins'[v] : x[1] <= clock'
                 /\ \A t \in 0..MaxTime :
                      Cardinality({x \in logins'[v] : t <= x[1] /\ x[1] < t + Window}) <= MaxLogins
      <3>1. CASE v = w
        <4>1. \A t \in 0..MaxTime : {x \in logins'[v] : t <= x[1] /\ x[1] < t + Window} = {}
          BY <2>3, <3>1
        <4>2. QED
          BY <1>2, <2>3, <3>1, <4>1, FS_EmptySet
      <3>2. CASE v # w
        BY <1>1, <2>1, <2>2, <3>2 DEF LoginInv, AdmittedPerWindow
      <3>3. QED
        BY <3>1, <3>2
    <2>5. QED
      BY <2>4 DEF LoginInv, AdmittedPerWindow
  <1>8. CASE Tick
    <2>1. clock' = clock + 1 /\ logins' = logins
      BY <1>8 DEF Tick
    <2>2. \A w \in Workers : \A x \in logins[w] : x[1] \in Nat
      BY <1>1, <1>2 DEF IInv, TypeOK
    <2>3. QED
      BY <1>1, <1>2, <2>1, <2>2 DEF LoginInv, AdmittedPerWindow
  <1>9. QED
    BY <1>1, <1>4, <1>5, <1>6, <1>7, <1>8, LimitLoginWindow, StepCases

\* No window of the length of the limiter's holds more logins of a worker than
\* the limit, wherever it begins.
THEOREM AdmittedPerWindowAlways == Spec => []AdmittedPerWindow
  <1>1. Init => LoginInv
    <2>1. SUFFICES ASSUME Init PROVE LoginInv
      OBVIOUS
    <2>2. \A w \in Workers : logins[w] = {}
      BY <2>1 DEF Init
    <2>3. \A w \in Workers, t \in 0..MaxTime :
            {x \in logins[w] : t <= x[1] /\ x[1] < t + Window} = {}
      BY <2>2
    <2>4. MaxLogins \in Nat /\ Cardinality({}) = 0 /\ IsFiniteSet({})
      BY FS_EmptySet, LimitsAssumption
    <2>5. \A w \in Workers, t \in 0..MaxTime :
            Cardinality({x \in logins[w] : t <= x[1] /\ x[1] < t + Window}) <= MaxLogins
      <3>1. TAKE w \in Workers, t \in 0..MaxTime
      <3>2. Cardinality({x \in logins[w] : t <= x[1] /\ x[1] < t + Window}) = 0
        BY <2>3, <2>4
      <3>3. QED
        BY <2>4, <3>2
    <2>6. QED
      BY <2>2, <2>4, <2>5 DEF LoginInv, AdmittedPerWindow
  <1>2. LoginInv => AdmittedPerWindow
    BY DEF LoginInv
  <1>3. QED
    BY <1>1, <1>2, LoginStep, Invariance, PTL DEF Spec

-------------------------------------------------------------------------------
\* Read positions, when answers follow COMMITs.
Loaded(c) == pc[c] \in {"writing", "committing"}
Over(c) == pc[c] \in {"ending", "done", "failed"}
\* The row was at c's position or beyond when c looked, or wrote, last.
Standing(c) ==
  pc[c] \in {"ending", "done"} \/ (Loaded(c) /\ req[c].target <= saw[c])
\* A call that overlaps c and loaded less than it sent explains position n.
Undone(c, n) ==
  \E d \in Reads : /\ Over(d) /\ c \notin before[d]
                   /\ saw[d] < req[d].target /\ req[d].target <= n

AckedDone == \A c \in acked : pc[c] = "done"
PosOwn ==
  \A c \in Calls : pc[c] = "committing" =>
    writes[c].pos = IF c \in Reads /\ req[c].target > saw[c] THEN req[c].target ELSE 0
StandingHolds ==
  \A c \in Reads : Standing(c) /\ position < req[c].target => Undone(c, position)
\* A call that loads less than a call before it had sent finds that undone.
LoadedHolds ==
  \A d \in Reads : Loaded(d) =>
    \A c \in Reads : c \in before[d] /\ saw[d] < req[c].target => Undone(c, saw[d])
ReadInv == ~respondFirst => AckedDone /\ PosOwn /\ StandingHolds /\ LoadedHolds

LEMMA PositionTypes ==
  ASSUME IInv
  PROVE  /\ position \in Nat
         /\ \A c \in Calls : saw[c] \in Nat
         /\ \A c \in Reads : c \in Calls /\ pc[c] # "idle" /\ req[c].target \in Nat \ {0}
  <1>1. position \in Nat /\ \A c \in Calls : saw[c] \in Nat
    <2>1. Positions \cup {0} \subseteq Nat
      BY PositionsAssumption
    <2>2. position \in Positions \cup {0} /\ saw \in [Calls -> Positions \cup {0}]
      BY DEF IInv, TypeOK
    <2>3. QED
      BY <2>1, <2>2
  <1>2. ASSUME NEW c \in Reads
        PROVE  c \in Calls /\ pc[c] # "idle" /\ req[c].target \in Nat \ {0}
    <2>1. c \in Calls /\ pc[c] # "idle" /\ req[c].kind \in {"read", "wsread"}
      BY DEF Reads
    <2>2. req[c].target \in Positions
      BY <2>1 DEF IInv, ServerInv, ReqShaped, Shaped
    <2>3. QED
      BY <2>1, <2>2, PositionsAssumption
  <1>3. QED
    BY <1>1, <1>2

\* What mark_read flushes, and what the other endpoints do not.
LEMMA WritesPos ==
  ASSUME IInv, NEW c \in Calls, pc[c] = "writing"
  PROVE  WritesOf(c).pos = IF c \in Reads /\ req[c].target > saw[c] THEN req[c].target ELSE 0
  <1>1. Shaped(req[c])
    BY DEF IInv, ServerInv, ReqShaped
  <1>2. CASE req[c].kind \in {"read", "wsread"}
    BY <1>1, <1>2 DEF WritesOf, ReadWrites, NoWrites, Reads
  <1>3. CASE req[c].kind \in {"login", "enroll", "issue"}
    BY <1>3 DEF WritesOf, LoginWrites, EnrollWrites, IssueWrites, NoWrites, Reads
  <1>4. CASE req[c].kind \in {"logout", "revoke", "revokeDevice"}
    BY <1>4 DEF WritesOf, RevokeWrites, RevokeDeviceWrites, NoWrites, Reads
  <1>5. CASE req[c].kind = "me"
    BY <1>5 DEF WritesOf, TouchWrites, NoWrites, Reads
  <1>6. QED
    BY <1>1, <1>2, <1>3, <1>4, <1>5 DEF Shaped, Request, Kinds

\* Calls sent before another one have answered, or are done.
LEMMA BeforeDone ==
  ASSUME IInv, ReadInv, ~respondFirst, NEW d \in Calls, NEW c \in before[d]
  PROVE  c \in Calls /\ pc[c] = "done"
  BY DEF IInv, TypeOK, ServerInv, BeforeFinished, ReadInv, AckedDone

\* The steps of one call that leave the row alone.
Moves(c) ==
  \/ pc'[c] = pc[c] /\ writes'[c] = writes[c]
  \/ /\ pc[c] \in {"idle", "limiting", "checking"}
     /\ pc'[c] \in {"limiting", "checking", "reading", "failed"}
  \/ pc[c] \in Running /\ pc'[c] = "failed"
  \/ /\ pc[c] = "reading" /\ pc'[c] = "writing"
     /\ c \in Reads => saw'[c] = position
  \/ pc[c] = "writing" /\ pc'[c] = "committing" /\ writes'[c] = WritesOf(c)
  \/ pc[c] = "ending" /\ pc'[c] = "done"

\* What has explained a position goes on explaining it.
LEMMA UndoneStays ==
  ASSUME Onward, NEW c, NEW n, Undone(c, n),
         \A d \in Calls : Over(d) => Over(d)',
         \A d \in Calls : Over(d) => saw'[d] = saw[d]
  PROVE  \E d \in Reads' : /\ Over(d)' /\ c \notin before'[d]
                           /\ saw'[d] < req'[d].target /\ req'[d].target <= n
  <1>1. PICK d \in Reads : /\ Over(d) /\ c \notin before[d]
                           /\ saw[d] < req[d].target /\ req[d].target <= n
    BY DEF Undone
  <1>2. d \in Calls /\ pc[d] # "idle"
    BY <1>1 DEF Reads, Over
  <1>3. d \in Reads' /\ before'[d] = before[d] /\ req'[d] = req[d]
    BY <1>1, <1>2 DEF Onward, Reads
  <1>4. QED
    BY <1>1, <1>2, <1>3

LEMMA QuietReads ==
  ASSUME IInv, ReadInv, Onward, ~respondFirst, respondFirst' = respondFirst,
         position' = position,
         \A c \in Calls : Moves(c) /\ (pc[c] # "reading" => saw'[c] = saw[c]),
         \A c \in acked' : c \in acked \/ pc'[c] = "done"
  PROVE  ReadInv'
  <1>1. AckedDone /\ PosOwn /\ StandingHolds /\ LoadedHolds
    BY DEF ReadInv
  <1>2. \A c \in Calls : pc[c] # "idle" => (c \in Reads' <=> c \in Reads) /\ req'[c] = req[c]
                                           /\ before'[c] = before[c]
    BY DEF Onward, Reads
  <1>3. AckedDone'
    BY <1>1 DEF AckedDone, IInv, TypeOK, Moves, Running
  <1>4. PosOwn'
    <2>1. SUFFICES ASSUME NEW c \in Calls, pc'[c] = "committing"
                   PROVE  writes'[c].pos = IF c \in Reads' /\ req'[c].target > saw'[c]
                                           THEN req'[c].target ELSE 0
      BY DEF PosOwn
    <2>2. CASE pc'[c] = pc[c] /\ writes'[c] = writes[c]
      BY <1>1, <1>2, <2>1, <2>2 DEF PosOwn
    <2>3. CASE pc[c] = "writing" /\ writes'[c] = WritesOf(c)
      BY <1>2, <2>3, WritesPos
    <2>4. QED
      BY <2>1, <2>2, <2>3 DEF Moves
  <1>5. \A c \in Calls : Over(c) => Over(c)' /\ saw'[c] = saw[c]
    BY DEF Over, Moves
  <1>6. StandingHolds'
    <2>1. SUFFICES ASSUME NEW c \in Reads', Standing(c)', position' < req'[c].target
                   PROVE  Undone(c, position)'
      BY DEF StandingHolds
    <2>2. c \in Calls
      BY DEF Reads
    <2>3. pc[c] # "idle"
      BY <2>1, <2>2 DEF Standing, Loaded, Moves
    <2>4. c \in Reads /\ req'[c] = req[c]
      BY <1>2, <2>2, <2>3
    <2>5. Standing(c)
      <3>1. CASE pc[c] = "reading"
        <4>1. saw'[c] = position /\ req'[c].target <= saw'[c]
          BY <2>1, <2>2, <2>4, <3>1 DEF Standing, Loaded, Moves
        <4>2. QED
          BY <2>1, <2>2, <2>3, <2>4, <4>1, PositionTypes
      <3>2. CASE pc[c] # "reading"
        BY <2>1, <2>2, <2>4, <3>2 DEF Standing, Loaded, Moves
      <3>3. QED
        BY <3>1, <3>2
    <2>6. Undone(c, position)
      BY <1>1, <2>1, <2>4, <2>5 DEF StandingHolds
    <2>7. QED
      BY <1>5, <2>6, UndoneStays DEF Undone
  <1>7. LoadedHolds'
    <2>1. SUFFICES ASSUME NEW d \in Reads', Loaded(d)', NEW c \in Reads', c \in before'[d],
                          saw'[d] < req'[c].target
                   PROVE  Undone(c, saw[d])'
      BY DEF LoadedHolds
    <2>2. d \in Calls /\ c \in Calls
      BY DEF Reads
    <2>3. pc[d] # "idle"
      BY <2>1, <2>2 DEF Loaded, Moves
    <2>4. d \in Reads /\ before'[d] = before[d]
      BY <1>2, <2>2, <2>3
    <2>5. pc[c] = "done"
      BY <2>1, <2>2, <2>4, BeforeDone
    <2>6. c \in Reads /\ req'[c] = req[c]
      BY <1>2, <2>2, <2>5
    <2>7. Undone(c, saw'[d])
      <3>1. CASE pc[d] = "reading"
        <4>1. saw'[d] = position
          BY <2>1, <2>2, <2>4, <3>1 DEF Loaded, Moves
        <4>2. Standing(c)
          BY <2>5 DEF Standing
        <4>3. QED
          BY <1>1, <2>1, <2>6, <4>1, <4>2 DEF StandingHolds
      <3>2. CASE pc[d] # "reading"
        <4>1. Loaded(d) /\ saw'[d] = saw[d]
          BY <2>1, <2>2, <3>2 DEF Loaded, Moves
        <4>2. QED
          BY <1>1, <2>1, <2>4, <2>6, <4>1 DEF LoadedHolds
      <3>3. QED
        BY <3>1, <3>2
    <2>8. QED
      BY <1>5, <2>7, UndoneStays DEF Undone
  <1>8. QED
    BY <1>3, <1>4, <1>6, <1>7 DEF ReadInv

\* A COMMIT that lowers the row lowers it below what it loaded, or the call
\* overlaps the one it undoes.
LEMMA CommitReads ==
  ASSUME IInv, ReadInv, ~respondFirst, NEW c \in Calls, Commit(c)
  PROVE  ReadInv'
  <1>1. AckedDone /\ PosOwn /\ StandingHolds /\ LoadedHolds
    BY DEF ReadInv
  <1>2. /\ pc[c] = "committing" /\ pc' = [pc EXCEPT ![c] = "ending"]
        /\ UNCHANGED <<respondFirst, req, before, saw, acked>>
        /\ writes' = [writes EXCEPT ![c] = NoWrites]
        /\ position' = IF writes[c].pos = 0 THEN position ELSE writes[c].pos
    BY DEF Commit, Goto, RespondsFirst, config
  <1>3. \A d \in Calls : pc'[d] = IF d = c THEN "ending" ELSE pc[d]
    BY <1>2 DEF IInv, TypeOK
  <1>4. Reads' = Reads /\ Onward
    BY <1>2, <1>3 DEF Reads, Onward
  <1>5. AckedDone'
    BY <1>1, <1>2, <1>3 DEF AckedDone, IInv, TypeOK
  <1>6. PosOwn'
    <2>1. \A d \in Calls \ {c} : writes'[d] = writes[d]
      BY <1>2 DEF IInv, TypeOK
    <2>2. QED
      BY <1>1, <1>2, <1>3, <1>4, <2>1 DEF PosOwn
  <1>7. \A d \in Calls : Over(d) => Over(d)' /\ saw'[d] = saw[d]
    BY <1>2, <1>3 DEF Over
  <1>8. LoadedHolds'
    <2>1. SUFFICES ASSUME NEW d \in Reads, Loaded(d)', NEW e \in Reads, e \in before[d],
                          saw[d] < req[e].target
                   PROVE  Undone(e, saw[d])'
      BY <1>2, <1>4 DEF LoadedHolds
    <2>2. Loaded(d)
      BY <1>3, <2>1 DEF Loaded, Reads
    <2>3. Undone(e, saw[d])
      BY <1>1, <2>1, <2>2 DEF LoadedHolds
    <2>4. QED
      BY <1>2, <1>4, <1>7, <2>3, UndoneStays DEF Undone
  <1>9. StandingHolds'
    <2>1. SUFFICES ASSUME NEW e \in Reads, Standing(e)', position' < req[e].target
                   PROVE  Undone(e, position)'
      BY <1>2, <1>4 DEF StandingHolds
    <2>2. e \in Calls /\ req[e].target \in Nat
      BY PositionTypes
    <2>3. CASE c \in Reads /\ req[c].target > saw[c]
      <3>1. position' = req[c].target /\ req[c].target \in Nat \ {0} /\ saw[c] \in Nat
        BY <1>1, <1>2, <2>3, PositionTypes DEF PosOwn
      <3>2. e # c
        BY <2>1, <2>2, <3>1
      <3>3. CASE e \notin before[c]
        <4>1. c \in Reads' /\ Over(c)' /\ e \notin before'[c]
              /\ saw'[c] < req'[c].target /\ req'[c].target <= position'
          BY <1>2, <1>3, <1>4, <2>3, <3>1, <3>3 DEF Over
        <4>2. QED
          BY <4>1 DEF Undone
      <3>4. CASE e \in before[c]
        <4>1. saw[c] < req[e].target
          BY <2>1, <2>2, <2>3, <3>1
        <4>2. Undone(e, saw[c])
          BY <1>1, <1>2, <2>1, <2>3, <3>4, <4>1 DEF LoadedHolds, Loaded
        <4>3. PICK d \in Reads : /\ Over(d) /\ e \notin before[d]
                                 /\ saw[d] < req[d].target /\ req[d].target <= saw[c]
          BY <4>2 DEF Undone
        <4>4. d \in Calls /\ req[d].target \in Nat
          BY PositionTypes
        <4>5. req[d].target <= position'
          BY <2>3, <3>1, <4>3, <4>4
        <4>6. d \in Reads' /\ Over(d)' /\ e \notin before'[d] /\ saw'[d] < req'[d].target
              /\ req'[d].target <= position'
          BY <1>2, <1>4, <1>7, <4>3, <4>4, <4>5
        <4>7. QED
          BY <4>6 DEF Undone
      <3>5. QED
        BY <3>3, <3>4
    <2>4. CASE ~(c \in Reads /\ req[c].target > saw[c])
      <3>1. position' = position
        BY <1>1, <1>2, <2>4 DEF PosOwn
      <3>2. Standing(e)
        <4>1. CASE e = c
          BY <1>2, <2>1, <2>2, <2>4, <4>1, PositionTypes DEF Standing, Loaded
        <4>2. CASE e # c
          BY <1>2, <1>3, <2>1, <2>2, <4>2 DEF Standing, Loaded
        <4>3. QED
          BY <4>1, <4>2
      <3>3. Undone(e, position)
        BY <1>1, <2>1, <3>1, <3>2 DEF StandingHolds
      <3>4. QED
        BY <1>4, <1>7, <3>1, <3>3, UndoneStays DEF Undone
    <2>5. QED
      BY <2>3, <2>4
  <1>10. QED
    BY <1>5, <1>6, <1>8, <1>9 DEF ReadInv

\* The order of answer and COMMIT is FastAPI's, for good.
LEMMA OrderStays == [Next]_vars => respondFirst' = respondFirst
  BY StepCases DEF config, Arrives, LimitLogin, CheckSession, ReadRows, Flush, Commit, Answer,
                   Rollback, CrashWorker, Tick

LEMMA ReadStep == IInv /\ ReadInv /\ [Next]_vars => ReadInv'
  <1>1. SUFFICES ASSUME IInv, ReadInv, [Next]_vars, ~respondFirst
                 PROVE  ReadInv'
    BY OrderStays DEF ReadInv
  <1>2. TypeOK
    BY <1>1 DEF IInv
  <1>3. CASE UNCHANGED <<config, server, tables>>
    <2>1. Onward /\ UNCHANGED <<respondFirst, position, pc, writes, saw, acked>>
      BY <1>3 DEF config, server, tables, Onward
    <2>2. \A c \in Calls : Moves(c)
      BY <2>1 DEF Moves
    <2>3. QED
      BY <1>1, <2>1, <2>2, QuietReads
  <1>4. ASSUME NEW c \in Calls, Arrives(c) PROVE ReadInv'
    <2>1. UNCHANGED <<respondFirst, position, writes, saw, acked>>
      BY <1>4 DEF Arrives, config, tables
    <2>2. \A d \in Calls : Moves(d)
      BY <1>2, <1>4, <2>1, ArrivesOnward DEF Moves
    <2>3. Onward
      BY <1>2, <1>4, ArrivesOnward
    <2>4. QED
      BY <1>1, <2>1, <2>2, <2>3, QuietReads
  <1>5. ASSUME NEW c \in Calls,
               \/ LimitLogin(c) \/ CheckSession(c) \/ ReadRows(c) \/ Flush(c)
               \/ Answer(c) \/ Rollback(c)
        PROVE  ReadInv'
    <2>1. Onward
      BY <1>2, <1>5 DEF LimitLogin, CheckSession, ReadRows, Flush, Answer, Rollback, Goto,
                        Onward, TypeOK, Running
    <2>2. UNCHANGED <<respondFirst, position>>
      BY <1>5 DEF LimitLogin, CheckSession, ReadRows, Flush, Answer, Rollback, config, tables
    <2>3. \A d \in Calls \ {c} : pc'[d] = pc[d] /\ writes'[d] = writes[d] /\ saw'[d] = saw[d]
      BY <1>2, <1>5 DEF LimitLogin, CheckSession, ReadRows, Flush, Answer, Rollback, Goto, TypeOK
    <2>4. Moves(c) /\ (pc[c] # "reading" => saw'[c] = saw[c])
      <3>1. CASE LimitLogin(c) \/ CheckSession(c)
        BY <1>2, <3>1 DEF LimitLogin, CheckSession, Goto, TypeOK, Moves, Running
      <3>2. CASE ReadRows(c)
        BY <1>2, <3>2 DEF ReadRows, Goto, TypeOK, Moves, Running, Reads
      <3>3. CASE Flush(c)
        BY <1>1, <1>2, <3>3 DEF Flush, Goto, TypeOK, Moves, RespondsFirst
      <3>4. CASE Answer(c)
        BY <1>1, <1>2, <3>4 DEF Answer, Goto, TypeOK, Moves, RespondsFirst
      <3>5. CASE Rollback(c)
        BY <1>2, <3>5 DEF Rollback, Goto, TypeOK, Moves
      <3>6. QED
        BY <1>5, <3>1, <3>2, <3>3, <3>4, <3>5
    <2>5. \A d \in acked' : d \in acked \/ pc'[d] = "done"
      <3>1. CASE Answer(c)
        BY <1>1, <1>2, <3>1 DEF Answer, Goto, TypeOK, RespondsFirst
      <3>2. CASE ~Answer(c)
        BY <1>5, <3>2 DEF LimitLogin, CheckSession, ReadRows, Flush, Rollback
      <3>3. QED
        BY <3>1, <3>2
    <2>6. \A d \in Calls : Moves(d) /\ (pc[d] # "reading" => saw'[d] = saw[d])
      BY <2>3, <2>4 DEF Moves
    <2>7. QED
      BY <1>1, <2>1, <2>2, <2>5, <2>6, QuietReads
  <1>6. ASSUME NEW w \in Workers, CrashWorker(w) PROVE ReadInv'
    <2>1. Onward
      BY <1>6 DEF CrashWorker, Onward, Running
    <2>2. UNCHANGED <<respondFirst, position, saw, acked>>
      BY <1>6 DEF CrashWorker, config, tables
    <2>3. \A c \in Calls : Moves(c)
      BY <1>6 DEF CrashWorker, Moves
    <2>4. QED
      BY <1>1, <2>1, <2>2, <2>3, QuietReads
  <1>7. CASE Tick
    <2>1. Onward /\ UNCHANGED <<respondFirst, position, pc, writes, saw, acked>>
      BY <1>7 DEF Tick, config, tables, Onward
    <2>2. \A c \in Calls : Moves(c)
      BY <2>1 DEF Moves
    <2>3. QED
      BY <1>1, <2>1, <2>2, QuietReads
  <1>8. QED
    BY <1>1, <1>3, <1>4, <1>5, <1>6, <1>7, CommitReads, StepCases

\* When answers follow COMMITs, a read position is undone only in a race: read
\* receipts sent one after the other never move backwards, though mark_read
\* compares and writes in two statements.
THEOREM ReceiptLostOnlyInRaceAlways == Spec => []ReceiptLostOnlyInRace
  <1>1. Init => ReadInv
    BY DEF Init, ReadInv, AckedDone, PosOwn, StandingHolds, LoadedHolds, Reads
  <1>2. ReadInv => ReceiptLostOnlyInRace
    <2>1. SUFFICES ASSUME ReadInv, NEW c \in Reads, pc[c] = "done", ~respondFirst,
                          position < req[c].target
                   PROVE  \E d \in Reads : /\ pc[d] \in {"ending", "done", "failed"}
                                           /\ saw[d] < req[d].target
                                           /\ req[d].target <= position
                                           /\ c \notin before[d]
      BY DEF ReceiptLostOnlyInRace
    <2>2. Undone(c, position)
      BY <2>1 DEF ReadInv, StandingHolds, Standing
    <2>3. QED
      BY <2>2 DEF Undone, Over
  <1>3. QED
    BY <1>1, <1>2, ReadStep, Invariance, PTL DEF Spec

-------------------------------------------------------------------------------
\* The ledger.  A COMMIT is the one step of its call that touches the tables, and
\* a call without one has no audit row yet.
Unrecorded == \A c \in Calls : Uncommitted(c) => c \notin audit
LedgerInv == AuditInv /\ Unrecorded

LEMMA UnrecordedStep == IInv /\ Unrecorded /\ [Next]_vars => Unrecorded'
  <1> SUFFICES ASSUME IInv, Unrecorded, [Next]_vars, NEW d \in Calls, Uncommitted(d)'
               PROVE  d \notin audit'
    BY DEF Unrecorded
  <1>1. TypeOK
    BY DEF IInv
  <1>a. respondFirst' = respondFirst
    BY OrderStays
  <1>b. ASSUME UNCHANGED tables, Uncommitted(d)  PROVE d \notin audit'
    BY <1>b DEF Unrecorded, tables
  <1>2. CASE UNCHANGED <<config, server, tables>>
    <2>1. Uncommitted(d)
      BY <1>a, <1>2 DEF server, Uncommitted, Flushed, RespondsFirst
    <2>2. QED
      BY <1>2, <1>b, <2>1
  <1>3. ASSUME NEW c \in Calls, Arrives(c)  PROVE d \notin audit'
    <2>1. UNCHANGED tables
      BY <1>3 DEF Arrives
    <2>2. /\ pc[c] = "idle"
          /\ \A x \in Calls \ {c} : pc'[x] = pc[x] /\ req'[x] = req[x]
      BY <1>1, <1>3, ArrivesOnward
    <2>3. Uncommitted(d)
      BY <1>a, <2>2 DEF Uncommitted, Flushed, RespondsFirst
    <2>4. QED
      BY <1>b, <2>1, <2>3
  <1>4. ASSUME NEW c \in Calls,
               \/ LimitLogin(c) \/ CheckSession(c) \/ ReadRows(c) \/ Flush(c)
               \/ Answer(c) \/ Rollback(c)
        PROVE  d \notin audit'
    <2>1. UNCHANGED tables /\ req' = req
      BY <1>4 DEF LimitLogin, CheckSession, ReadRows, Flush, Answer, Rollback
    <2>2. \A x \in Calls \ {c} : pc'[x] = pc[x]
      BY <1>1, <1>4 DEF LimitLogin, CheckSession, ReadRows, Flush, Answer, Rollback, Goto, TypeOK
    <2>3. pc'[c] # "failed" => Uncommitted(c) \/ (pc'[c] = "done" /\ ~RespondsFirst(c))
      BY <1>1, <1>4 DEF LimitLogin, CheckSession, ReadRows, Flush, Answer, Rollback, Goto,
                        TypeOK, Uncommitted, Flushed
    <2>4. Uncommitted(d)
      BY <1>a, <2>1, <2>2, <2>3 DEF Uncommitted, Flushed, RespondsFirst
    <2>5. QED
      BY <1>b, <2>1, <2>4
  <1>5. ASSUME NEW c \in Calls, Commit(c)  PROVE d \notin audit'
    <2>1. /\ pc[c] = "committing" /\ req' = req
          /\ pc' = [pc EXCEPT ![c] = IF RespondsFirst(c) THEN "done" ELSE "ending"]
          /\ audit' = audit \cup AuditRows(c)
      BY <1>5 DEF Commit, Goto
    <2>2. d # c /\ Uncommitted(d)
      BY <1>1, <1>a, <2>1 DEF TypeOK, Uncommitted, Flushed, RespondsFirst
    <2>3. QED
      BY <2>1, <2>2 DEF Unrecorded, AuditRows
  <1>6. ASSUME NEW w \in Workers, CrashWorker(w)  PROVE d \notin audit'
    <2>1. UNCHANGED tables /\ req' = req
      BY <1>6 DEF CrashWorker
    <2>2. pc'[d] = "failed" \/ pc'[d] = pc[d]
      BY <1>1, <1>6 DEF CrashWorker, TypeOK
    <2>3. Uncommitted(d)
      BY <1>a, <2>1, <2>2 DEF Uncommitted, Flushed, RespondsFirst
    <2>4. QED
      BY <1>b, <2>1, <2>3
  <1>7. CASE Tick
    <2>1. UNCHANGED tables /\ Uncommitted(d)
      BY <1>a, <1>7 DEF Tick, Uncommitted, Flushed, RespondsFirst
    <2>2. QED
      BY <1>b, <2>1
  <1>8. QED
    BY <1>2, <1>3, <1>4, <1>5, <1>6, <1>7, StepCases

\* A COMMIT makes the one change its request asks for.
LEMMA CommitLedger ==
  ASSUME IInv, LedgerInv, NEW c \in Calls, Commit(c)
  PROVE  Accounts!Next \/ UNCHANGED Accounts!vars
  <1> DEFINE w == writes[c]
  <1>1. TypeOK /\ ServerInv /\ AuditInv
    BY DEF IInv, LedgerInv
  <1>2. pc[c] = "committing" /\ c \notin audit
    BY DEF Commit, LedgerInv, Unrecorded, Uncommitted, Flushed
  <1>3. /\ Shaped(req[c]) /\ Owed(c, w) /\ c \in Sess /\ c \in Toks
        /\ sessions[c] = "absent" /\ tokens[c] = "absent"
    BY <1>1, <1>2, CommitStable, NoneApart
       DEF ServerInv, ReqShaped, Unborn, Uncommitted, Flushed
  <1>4. /\ sessions' = [s \in Sess |-> IF s \in w.revoke THEN "revoked"
                                       ELSE IF s \in w.open THEN "open" ELSE sessions[s]]
        /\ tokens' = [t \in Toks |-> IF t \in w.use THEN "used"
                                     ELSE IF t \in w.issue THEN "fresh" ELSE tokens[t]]
        /\ audit' = audit \cup AuditRows(c)
    BY DEF Commit
  <1>5. /\ sessions = [s \in Sess |-> sessions[s]]
        /\ tokens = [t \in Toks |-> tokens[t]]
    BY <1>1 DEF TypeOK
  <1>6. /\ w.revoke \in SUBSET Sess
        /\ req[c].kind \notin {"logout", "revoke", "revokeDevice"} => w.revoke = {}
    <2>1. w \in Writes
      BY <1>1 DEF TypeOK
    <2>2. \A s \in w.revoke : req[c].kind \in {"logout", "revoke", "revokeDevice"}
      BY <1>1 DEF AuditInv, RevokesOwn, Revokes, RevokesDeviceOf
    <2>3. QED
      BY <2>1, <2>2 DEF Writes
  <1>7. req[c].kind \in Audited => audit' = audit \cup {c}
    BY <1>4 DEF AuditRows
  <1>8. CASE req[c].kind = "login"
    <2>1. w.open = {c} /\ w.use = {} /\ w.issue = {} /\ w.revoke = {}
      BY <1>3, <1>6, <1>8 DEF Owed
    <2>2. sessions' = [sessions EXCEPT ![c] = "open"] /\ tokens' = tokens
      BY <1>3, <1>4, <1>5, <2>1
    <2>3. Accounts!Open(c)
      BY <1>3, <2>2 DEF Accounts!Open
    <2>4. QED
      BY <1>2, <1>7, <1>8, <2>3 DEF Accounts!Next, Accounts!Change, Audited
  <1>9. CASE req[c].kind = "enroll"
    <2>1. PICK t \in Toks : t = req[c].target /\ tokens[t] # "absent"
      BY <1>1, <1>2, <1>3, <1>9 DEF Shaped, ServerInv, Present, Admitted
    <2>2. w.open = {c} /\ w.use = {t} /\ w.issue = {} /\ w.revoke = {}
      BY <1>3, <1>6, <1>9, <2>1 DEF Owed
    <2>3. /\ sessions' = [sessions EXCEPT ![c] = "open"]
          /\ tokens' = [tokens EXCEPT ![t] = "used"]
      BY <1>3, <1>4, <1>5, <2>2
    <2>4. Accounts!Redeem(c, t) /\ t \in Accounts!Toks
      BY <1>3, <2>1, <2>3 DEF Accounts!Redeem, Accounts!Toks, Toks
    <2>5. QED
      BY <1>2, <1>7, <1>9, <2>4 DEF Accounts!Next, Accounts!Change, Audited
  <1>10. CASE req[c].kind = "issue"
    <2>1. w.open = {} /\ w.use = {} /\ w.issue = {c} /\ w.revoke = {}
      BY <1>3, <1>6, <1>10 DEF Owed
    <2>2. sessions' = sessions /\ tokens' = [tokens EXCEPT ![c] = "fresh"]
      BY <1>3, <1>4, <1>5, <2>1
    <2>3. Accounts!Issue(c)
      BY <1>3, <2>2 DEF Accounts!Issue
    <2>4. QED
      BY <1>2, <1>7, <1>10, <2>3 DEF Accounts!Next, Accounts!Change, Audited
  <1>11. CASE req[c].kind \in {"logout", "revoke", "revokeDevice"}
    <2>1. w.open = {} /\ w.use = {} /\ w.issue = {} /\ \A s \in w.revoke : sessions[s] # "absent"
      BY <1>3, <1>11 DEF Owed
    <2>2. /\ sessions' = [s \in Sess |-> IF s \in w.revoke THEN "revoked" ELSE sessions[s]]
          /\ tokens' = tokens
      BY <1>4, <1>5, <2>1
    <2>3. Accounts!Revoke(w.revoke) /\ w.revoke \in SUBSET Accounts!Sess
      BY <1>6, <2>1, <2>2 DEF Accounts!Revoke, Accounts!Sess, Sess
    <2>4. Accounts!Change(c)
      BY <2>3 DEF Accounts!Change
    <2>5. QED
      BY <1>2, <1>7, <1>11, <2>4 DEF Accounts!Next, Audited
  <1>12. CASE req[c].kind \in {"me", "read", "wsread"}
    <2>1. w.open = {} /\ w.use = {} /\ w.issue = {} /\ w.revoke = {}
      BY <1>3, <1>6, <1>12 DEF Owed
    <2>2. sessions' = sessions /\ tokens' = tokens
      BY <1>4, <1>5, <2>1
    <2>3. audit' = audit
      BY <1>4, <1>12 DEF AuditRows, Audited
    <2>4. QED
      BY <2>2, <2>3 DEF Accounts!vars
  <1>13. QED
    BY <1>3, <1>8, <1>9, <1>10, <1>11, <1>12 DEF Shaped, Request, Kinds

LEMMA LedgerStep ==
  IInv /\ LedgerInv /\ [Next]_vars => [Accounts!Next]_(Accounts!vars)
  <1> SUFFICES ASSUME IInv, LedgerInv, [Next]_vars
               PROVE  Accounts!Next \/ UNCHANGED Accounts!vars
    OBVIOUS
  <1>1. CASE UNCHANGED tables
    BY <1>1 DEF tables, Accounts!vars
  <1>2. ASSUME NEW c \in Calls,
               \/ Arrives(c) \/ LimitLogin(c) \/ CheckSession(c) \/ ReadRows(c) \/ Flush(c)
               \/ Answer(c) \/ Rollback(c)
        PROVE  UNCHANGED tables
    BY <1>2 DEF Arrives, LimitLogin, CheckSession, ReadRows, Flush, Answer, Rollback
  <1>3. ASSUME Tick \/ \E w \in Workers : CrashWorker(w)  PROVE UNCHANGED tables
    BY <1>3 DEF Tick, CrashWorker
  <1>4. QED
    BY <1>1, <1>2, <1>3, CommitLedger, StepCases

\* Sessions, tokens and the audit log change as the ledger lets them, whatever
\* overlaps, rolls back or dies.
THEOREM LedgerImplemented == Spec => ImplementsLedger
  <1>1. Init => Accounts!Init /\ LedgerInv
    <2>1. SUFFICES ASSUME Init PROVE Accounts!Init /\ LedgerInv
      OBVIOUS
    <2>2. Accounts!Init
      BY <2>1 DEF Init, Accounts!Init, Accounts!Sess, Accounts!Toks, Sess, Toks
    <2>3. AuditInv
      BY <2>1, AuditInit
    <2>4. QED
      BY <2>1, <2>2, <2>3 DEF Init, LedgerInv, Unrecorded
  <1>2. IInv /\ LedgerInv /\ [Next]_vars => LedgerInv'
    BY AuditStep, UnrecordedStep DEF LedgerInv
  <1>3. QED
    BY <1>1, <1>2, LedgerStep, Invariance, PTL DEF Spec, ImplementsLedger, Accounts!Spec
===============================================================================
