-------------------------------- MODULE Ledger ---------------------------------
(***************************************************************************)
(* What the calls may do to sessions, enrollment tokens and the audit log, *)
(* without requests, workers, answers or devices: each change is one step, *)
(* is done by one call, and carries the one audit row of that call.  What  *)
(* is revoked or used stays so.  A token may be used again: redemptions    *)
(* that overlap are not told apart.                                        *)
(***************************************************************************)
CONSTANTS Calls,    \* requests; each names the session or token it creates
          Seeds,    \* sessions open at the start
          Tokens    \* tokens issued before the start

VARIABLES sessions, \* sessions[s]: absent, open, revoked
          tokens,   \* tokens[t]: absent, fresh, used
          audit     \* the calls with an audit row

vars == <<sessions, tokens, audit>>

Sess == Seeds \cup Calls
Toks == Tokens \cup Calls

TypeOK ==
  /\ sessions \in [Sess -> {"absent", "open", "revoked"}]
  /\ tokens \in [Toks -> {"absent", "fresh", "used"}]
  /\ audit \subseteq Calls

Init ==
  /\ sessions = [s \in Sess |-> IF s \in Seeds THEN "open" ELSE "absent"]
  /\ tokens = [t \in Toks |-> IF t \in Tokens THEN "fresh" ELSE "absent"]
  /\ audit = {}

\* A login.
Open(c) ==
  /\ sessions[c] = "absent" /\ sessions' = [sessions EXCEPT ![c] = "open"]
  /\ UNCHANGED tokens

\* An enrollment with token t.
Redeem(c, t) ==
  /\ sessions[c] = "absent" /\ sessions' = [sessions EXCEPT ![c] = "open"]
  /\ tokens[t] # "absent" /\ tokens' = [tokens EXCEPT ![t] = "used"]

Issue(c) ==
  /\ tokens[c] = "absent" /\ tokens' = [tokens EXCEPT ![c] = "fresh"]
  /\ UNCHANGED sessions

\* A logout or the revocation of a session or of a device's sessions: none, if
\* the device has none open; its audit row then says that it revoked 0 sessions.
Revoke(ss) ==
  /\ \A s \in ss : sessions[s] # "absent"
  /\ sessions' = [s \in Sess |-> IF s \in ss THEN "revoked" ELSE sessions[s]]
  /\ UNCHANGED tokens

Change(c) ==
  \/ Open(c) \/ Issue(c)
  \/ \E t \in Toks : Redeem(c, t)
  \/ \E ss \in SUBSET Sess : Revoke(ss)

\* A change and its audit row are one step.
Next == \E c \in Calls : c \notin audit /\ audit' = audit \cup {c} /\ Change(c)

Spec == Init /\ [][Next]_vars
===============================================================================
