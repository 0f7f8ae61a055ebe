------------------------- MODULE MessageService_proof -------------------------
(***************************************************************************)
(* Proofs about MessageService for every set of calls, workers,            *)
(* conversations and client ids, on either database backend.               *)
(*                                                                         *)
(* The argument does not use the lock: the unique constraints and          *)
(* MAX(sequence_number) + 1 alone keep the numbers gapless.  The heart of  *)
(* the invariant is that a number computed at some time is never above the *)
(* committed maximum plus one, so the only number that clashes with no     *)
(* committed row is exactly that one; hence two open transactions of one   *)
(* conversation would clash, and there is at most one.                     *)
(***************************************************************************)
EXTENDS MessageService, TLAPS

\* The committed numbers of v are 1..n for a natural number n.
Numbered == \A v \in Convs : MaxSeq(v) \in Nat /\ Seqs(v) = 1..MaxSeq(v)
\* Each number, and each client id, is on one row of its conversation.
UniqueRows == \A m, n \in messages : Clash(m, n) => m = n
\* A call that has been accepted knows its request.
Accepted == \A c \in Calls : pc[c] \in Running \cup {"done"} => req[c] \in Request
\* A computed number is at most one above the committed maximum, for ever.
NextBounded ==
  \A c \in Calls, v \in Convs : pc[c] = "flushing" /\ req[c].conv = v =>
     next[c] \in Nat /\ 1 <= next[c] /\ next[c] <= MaxSeq(v) + 1
\* An open transaction holds the row of its own call; a call that goes on to its
\* session's row is a REST call and has inserted.
StagedOwn ==
  \A c \in Calls :
     /\ \A m \in staged[c] : pc[c] \in {"touching", "epilogue"} /\ m = RowOf(c)
     /\ pc[c] = "touching" => staged[c] # {} /\ req[c].entry = "rest"
\* No row of an open transaction clashes with a committed row.
StagedFresh == \A c \in Calls : \A m \in staged[c], n \in messages : ~Clash(m, n)
\* The calls whose response FastAPI may send before the COMMIT.
AcksFirst(c) == RespondFirst /\ req[c].entry = "rest"
\* A plan that still commits, and does so before it responds unless acksFirst.
CommitsIn(p, acksFirst) ==
  \E i \in DOMAIN p :
     p[i] = "commit" /\ \A j \in 1..(i - 1) : p[j] = "respond" => acksFirst
\* What send_message returned is the message the request asked for.
ReturnedOwn ==
  \A c \in Calls : pc[c] \in {"epilogue", "done", "aborted"} =>
     /\ result[c] \in Message
     /\ result[c].conv = req[c].conv
     /\ result[c].cid = req[c].cid
\* A returned message is stored, or about to be by the call that returned it.
Pending ==
  \A c \in Calls : pc[c] = "epilogue" =>
     /\ todo[c] # <<>>
     /\ staged[c] = {} => result[c] \in messages
     /\ staged[c] # {} => staged[c] = {result[c]} /\ CommitsIn(todo[c], AcksFirst(c))
\* Only a call that has left the lock's block has responded.
AckedLate == \A c \in acked : pc[c] \in {"epilogue"} \cup Ended

IInv ==
  /\ TypeOK
  /\ Numbered
  /\ UniqueRows
  /\ Accepted
  /\ NextBounded
  /\ StagedOwn
  /\ StagedFresh
  /\ CommitsInOrder
  /\ ReturnedOwn
  /\ Pending
  /\ AckedLate
  /\ AnsweredIsStored

\* The maximum of 1..k, as MaxSeq chooses it, is k.
LEMMA MaxOfInterval ==
  ASSUME NEW S, NEW k \in Nat, S = 1..k
  PROVE  (CHOOSE n \in S \cup {0} : \A s \in S : s <= n) = k
  <1>1. k \in S \cup {0} /\ \A s \in S : s <= k
    OBVIOUS
  <1>2. ASSUME NEW n \in S \cup {0}, \A s \in S : s <= n  PROVE n = k
    BY <1>2
  <1>3. QED
    BY <1>1, <1>2

-------------------------------------------------------------------------------
\* Type correctness, action by action; each leaf needs the request's fields.
LEMMA RequestFields ==
  ASSUME NEW c \in Calls, req[c] \in Request
  PROVE  /\ req[c].worker \in Workers /\ req[c].entry \in Entries
         /\ req[c].conv \in Convs /\ req[c].cid \in ClientIds
         /\ LockOf(c) \in Workers \X Convs
  BY DEF Request, LockOf

LEMMA EpilogueValues ==
  ASSUME NEW e \in Entries, NEW b \in BOOLEAN
  PROVE  Epilogue(e, b) \in
           {<<"commit", "announce">>, <<"commit", "announce", "respond">>,
            <<"commit", "respond">>, <<"respond", "commit">>,
            <<"announce", "respond", "commit">>, <<"announce", "commit", "respond">>}
  BY BackendAssumption DEF Epilogue, Entries

LEMMA EpilogueType ==
  ASSUME NEW e \in Entries, NEW b \in BOOLEAN
  PROVE  /\ Epilogue(e, b) \in Seq({"announce", "commit", "respond"})
         /\ Epilogue(e, b) # <<>>
  <1> DEFINE Plan(s) == s \in Seq({"announce", "commit", "respond"}) /\ s # <<>>
  <1>1. Plan(<<"commit", "announce">>)
    OBVIOUS
  <1>2. Plan(<<"commit", "announce", "respond">>)
    OBVIOUS
  <1>3. Plan(<<"commit", "respond">>) /\ Plan(<<"respond", "commit">>)
    OBVIOUS
  <1>4. Plan(<<"announce", "respond", "commit">>)
    OBVIOUS
  <1>5. Plan(<<"announce", "commit", "respond">>)
    OBVIOUS
  <1>6. Plan(Epilogue(e, b))
    <2> HIDE DEF Plan
    <2> QED  BY <1>1, <1>2, <1>3, <1>4, <1>5, EpilogueValues
  <1>7. QED
    BY <1>6

LEMMA TypeInit == Init => TypeOK
  BY DEF Init, TypeOK, Running, Critical

\* The row a flushing call inserts is a row of the table.
LEMMA RowType ==
  ASSUME IInv, NEW c \in Calls, pc[c] = "flushing"
  PROVE  RowOf(c) \in Message /\ req[c] \in Request
  <1>1. req[c] \in Request
    BY DEF IInv, Accepted, Running, Critical
  <1>2. next[c] \in Nat \ {0}
    BY <1>1, RequestFields DEF IInv, NextBounded
  <1>3. QED
    BY <1>1, <1>2, RequestFields DEF RowOf, Message

\* So is the row of a call that has inserted it and goes on.
LEMMA TouchingRow ==
  ASSUME IInv, NEW c \in Calls, pc[c] = "touching"
  PROVE  /\ staged[c] = {RowOf(c)} /\ RowOf(c) \in Message
         /\ req[c] \in Request /\ req[c].entry = "rest"
  <1>1. req[c] \in Request
    BY DEF IInv, Accepted, Running, Critical
  <1>2. PICK m : m \in staged[c] /\ req[c].entry = "rest"
    BY DEF IInv, StagedOwn
  <1>3. m = RowOf(c) /\ m \in Message /\ staged[c] = {RowOf(c)}
    BY <1>2 DEF IInv, TypeOK, StagedOwn
  <1>4. QED
    BY <1>1, <1>2, <1>3

\* Leaving the lock's block with a message, or with an exception, is well typed.
LEMMA ReturnType ==
  ASSUME TypeOK, NEW c \in Calls, NEW m \in Message, req[c] \in Request,
         Return(c, m)
  PROVE  /\ lock' \in [Workers \X Convs -> Calls \cup {None}]
         /\ result' \in [Calls -> Message \cup {None}]
         /\ todo' \in [Calls -> Seq({"announce", "commit", "respond"})]
         /\ pc' \in [Calls -> {"idle"} \cup Running \cup Ended]
  <1>1. Epilogue(req[c].entry, m.id = c) \in Seq({"announce", "commit", "respond"})
    BY RequestFields, EpilogueType
  <1>2. QED
    BY <1>1, RequestFields DEF TypeOK, Return, Release, Running

LEMMA RaiseType ==
  ASSUME TypeOK, NEW c \in Calls, req[c] \in Request, NEW o \in Ended, Raise(c, o)
  PROVE  /\ lock' \in [Workers \X Convs -> Calls \cup {None}]
         /\ result' \in [Calls -> Message \cup {None}]
         /\ todo' \in [Calls -> Seq({"announce", "commit", "respond"})]
         /\ pc' \in [Calls -> {"idle"} \cup Running \cup Ended]
  BY RequestFields DEF TypeOK, Raise, Release, Running

\* The steps of the caller shorten its plan.
LEMMA StepDoneType ==
  ASSUME TypeOK, NEW c \in Calls, todo[c] # <<>>, StepDone(c)
  PROVE  /\ todo' \in [Calls -> Seq({"announce", "commit", "respond"})]
         /\ pc' \in [Calls -> {"idle"} \cup Running \cup Ended]
  <1>1. Tail(todo[c]) \in Seq({"announce", "commit", "respond"})
    BY DEF TypeOK
  <1>2. QED
    BY <1>1 DEF TypeOK, StepDone, Ended

LEMMA TypeStep == IInv /\ [Next]_vars => TypeOK'
  <1> SUFFICES ASSUME IInv, [Next]_vars  PROVE TypeOK'
    OBVIOUS
  <1>0. TypeOK
    BY DEF IInv
  <1>a. ASSUME NEW c \in Calls, pc[c] \in Running  PROVE req[c] \in Request
    BY <1>a DEF IInv, Accepted
  <1>1. ASSUME NEW c \in Calls, Arrive(c)  PROVE TypeOK'
    BY <1>0, <1>1 DEF TypeOK, Arrive, tables, Running, Ended
  <1>2. ASSUME NEW c \in Calls, Acquire(c)  PROVE TypeOK'
    <2>1. LockOf(c) \in Workers \X Convs
      BY <1>2, <1>a, RequestFields DEF Acquire, Running
    <2>2. QED
      BY <2>1, <1>0, <1>2 DEF TypeOK, Acquire, tables, Running, Critical
  <1>3. ASSUME NEW c \in Calls, FindDuplicate(c)  PROVE TypeOK'
    <2>1. PICK m \in Duplicates(c) : Return(c, m)
      BY <1>3 DEF FindDuplicate
    <2>2. m \in Message /\ req[c] \in Request
      BY <1>0, <1>3, <1>a DEF TypeOK, Duplicates, FindDuplicate, Running, Critical
    <2>3. QED
      BY <2>1, <2>2, <1>0, <1>3, ReturnType DEF TypeOK, FindDuplicate, tables
  <1>4. ASSUME NEW c \in Calls, FindNone(c)  PROVE TypeOK'
    BY <1>0, <1>4 DEF TypeOK, FindNone, tables, Running, Critical
  <1>5. ASSUME NEW c \in Calls, Allocate(c)  PROVE TypeOK'
    <2>1. MaxSeq(req[c].conv) \in Nat
      BY <1>5, <1>a, RequestFields DEF IInv, Numbered, Allocate, Running, Critical
    <2>2. QED
      BY <2>1, <1>0, <1>5 DEF TypeOK, Allocate, tables, Running, Critical
  <1>6. ASSUME NEW c \in Calls, Flush(c)  PROVE TypeOK'
    <2>1. RowOf(c) \in Message /\ req[c] \in Request
      BY <1>6, RowType DEF Flush
    <2>2. Inserted(c)
      BY <1>6 DEF Flush
    <2>3. CASE Return(c, RowOf(c))
      BY <2>1, <2>3, <1>0, <1>6, ReturnType DEF TypeOK, Flush, tables
    <2>4. CASE req[c].entry = "rest"
      BY <2>1, <2>2, <2>4, <1>0, <1>6 DEF TypeOK, Flush, Inserted, tables, Running, Critical
    <2>5. QED
      BY <2>2, <2>3, <2>4 DEF Inserted
  <1>c. ASSUME NEW c \in Calls, Touch(c)  PROVE TypeOK'
    <2>1. staged[c] # {} /\ RowOf(c) \in Message /\ req[c] \in Request
      BY <1>c, TouchingRow DEF Touch
    <2>2. Return(c, RowOf(c))
      BY <1>c DEF Touch
    <2>3. QED
      BY <2>1, <2>2, <1>0, <1>c, ReturnType DEF TypeOK, Touch, tables
  <1>7. ASSUME NEW c \in Calls, FlushConflict(c)  PROVE TypeOK'
    BY <1>0, <1>7 DEF TypeOK, FlushConflict, tables, Running, Critical
  <1>8. ASSUME NEW c \in Calls, FlushBusy(c)  PROVE TypeOK'
    <2>1. req[c] \in Request
      BY <1>8, <1>a DEF FlushBusy, Running, Critical
    <2>2. Raise(c, "busy") /\ "busy" \in Ended
      BY <1>8 DEF FlushBusy, Ended
    <2>3. QED
      BY <2>1, <2>2, <1>0, <1>8, RaiseType DEF TypeOK, FlushBusy, tables
  <1>9. ASSUME NEW c \in Calls, RecheckDuplicate(c)  PROVE TypeOK'
    <2>1. req[c] \in Request
      BY <1>9, <1>a DEF RecheckDuplicate, Running, Critical
    <2>2. CASE req[c].entry = "rest"
      <3>1. Raise(c, "expired") /\ "expired" \in Ended
        BY <1>9, <2>2 DEF RecheckDuplicate, Ended
      <3>2. QED
        BY <2>1, <3>1, <1>0, <1>9, RaiseType DEF TypeOK, RecheckDuplicate, tables
    <2>3. CASE req[c].entry # "rest"
      <3>1. PICK m \in Duplicates(c) : Return(c, m)
        BY <1>9, <2>3 DEF RecheckDuplicate
      <3>2. m \in Message
        BY <1>0 DEF TypeOK, Duplicates
      <3>3. QED
        BY <2>1, <3>1, <3>2, <1>0, <1>9, ReturnType DEF TypeOK, RecheckDuplicate, tables
    <2>4. QED
      BY <2>2, <2>3
  <1>10. ASSUME NEW c \in Calls, RecheckNone(c)  PROVE TypeOK'
    <2>1. req[c] \in Request
      BY <1>10, <1>a DEF RecheckNone, Running, Critical
    <2>2. Raise(c, "conflict") /\ "conflict" \in Ended
      BY <1>10 DEF RecheckNone, Ended
    <2>3. QED
      BY <2>1, <2>2, <1>0, <1>10, RaiseType DEF TypeOK, RecheckNone, tables
  <1>b. ASSUME NEW c \in Calls, pc[c] = "epilogue"
        PROVE  todo[c] # <<>> /\ result[c] \in Message /\ req[c] \in Request
    BY <1>b, <1>a DEF IInv, Pending, ReturnedOwn, Running
  <1>11. ASSUME NEW c \in Calls, Announce(c)  PROVE TypeOK'
    <2>1. todo[c] # <<>> /\ StepDone(c)
      BY <1>11, <1>b DEF Announce, AtStep
    <2>2. <<result[c], req[c].worker>> \in Message \X Workers
      BY <1>11, <1>b, RequestFields DEF Announce, AtStep
    <2>3. QED
      BY <2>1, <2>2, <1>0, <1>11, StepDoneType DEF TypeOK, Announce, tables
  <1>12. ASSUME NEW c \in Calls, Respond(c)  PROVE TypeOK'
    <2>1. todo[c] # <<>> /\ StepDone(c)
      BY <1>12, <1>b DEF Respond, AtStep
    <2>2. QED
      BY <2>1, <1>0, <1>12, StepDoneType DEF TypeOK, Respond, tables
  <1>d. ASSUME NEW c \in Calls, Persist(c)
        PROVE  /\ messages' \subseteq Message /\ outbox' \subseteq Calls
               /\ deliveries' \subseteq Calls \X Integrations
               /\ staged' \in [Calls -> SUBSET Message]
    <2>1. staged[c] \subseteq Message /\ {m.id : m \in staged[c]} \subseteq Calls
      BY <1>0 DEF TypeOK, Message
    <2>2. QED
      BY <2>1, <1>0, <1>d DEF TypeOK, Persist
  <1>13. ASSUME NEW c \in Calls, Commit(c)  PROVE TypeOK'
    <2>1. todo[c] # <<>> /\ StepDone(c) /\ Persist(c)
      BY <1>13, <1>b DEF Commit, AtStep
    <2>2. QED
      BY <2>1, <1>d, <1>0, <1>13, StepDoneType DEF TypeOK, Commit
  <1>14. ASSUME NEW c \in Calls, CommitFails(c)  PROVE TypeOK'
    BY <1>0, <1>14 DEF TypeOK, CommitFails, tables, Ended
  <1>e. ASSUME NEW c \in Calls, CommitLost(c)  PROVE TypeOK'
    <2>1. Persist(c)
      BY <1>e DEF CommitLost
    <2>2. QED
      BY <2>1, <1>d, <1>0, <1>e DEF TypeOK, CommitLost, Ended
  <1>15. ASSUME NEW w \in Workers, Crash(w)  PROVE TypeOK'
    BY <1>0, <1>15 DEF TypeOK, Crash, tables, Ended
  <1>16. CASE UNCHANGED vars
    BY <1>0, <1>16 DEF TypeOK, vars, tables
  <1>17. QED
    BY <1>1, <1>2, <1>3, <1>4, <1>5, <1>6, <1>c, <1>7, <1>8, <1>9, <1>10, <1>11,
       <1>12, <1>13, <1>14, <1>e, <1>15, <1>16 DEF Next, Service, Caller

-------------------------------------------------------------------------------
\* The table changes only when a call commits.
LEMMA OnlyCommitWrites ==
  ASSUME [Next]_vars
  PROVE  \/ UNCHANGED tables
         \/ \E c \in Calls : Persist(c) /\ (Commit(c) \/ CommitLost(c))
  BY DEF Next, Service, Caller, Arrive, Acquire, FindDuplicate, FindNone, Allocate,
         Flush, Touch, FlushConflict, FlushBusy, RecheckDuplicate, RecheckNone,
         Announce, Respond, Commit, CommitFails, CommitLost, Crash, vars, tables

LEMMA SameTable ==
  ASSUME messages' = messages, NEW v \in Convs
  PROVE  Seqs(v)' = Seqs(v) /\ MaxSeq(v)' = MaxSeq(v)
  BY DEF Seqs, MaxSeq

\* A transaction holds no row, or its call's row, which follows the committed ones.
LEMMA StagedRow ==
  ASSUME IInv, NEW c \in Calls, staged[c] # {}
  PROVE  /\ staged[c] = {RowOf(c)} /\ pc[c] \in {"touching", "epilogue"}
         /\ RowOf(c) \in Message /\ RowOf(c).conv \in Convs
         /\ RowOf(c).seq = MaxSeq(RowOf(c).conv) + 1
         /\ RowOf(c) \notin messages
  <1>1. PICK m : m \in staged[c]
    OBVIOUS
  <1>2. pc[c] \in {"touching", "epilogue"} /\ m = RowOf(c) /\ staged[c] = {RowOf(c)}
    BY <1>1 DEF IInv, StagedOwn
  <1>3. m \in Message /\ m.conv \in Convs
    BY <1>1 DEF IInv, TypeOK, Message
  <1>4. m.seq = MaxSeq(m.conv) + 1
    BY <1>1 DEF IInv, CommitsInOrder
  <1>5. ASSUME m \in messages  PROVE FALSE
    BY <1>1, <1>5 DEF IInv, StagedFresh, Clash
  <1>6. QED
    BY <1>2, <1>3, <1>4, <1>5

\* COMMIT of a row extends its conversation by one number and no other.
LEMMA CommitExtends ==
  ASSUME IInv, NEW c \in Calls, Persist(c), staged[c] # {}, NEW v \in Convs
  PROVE  /\ messages' = messages \cup {RowOf(c)}
         /\ v = RowOf(c).conv => MaxSeq(v)' = MaxSeq(v) + 1
         /\ v # RowOf(c).conv => MaxSeq(v)' = MaxSeq(v)
         /\ MaxSeq(v)' \in Nat /\ Seqs(v)' = 1..MaxSeq(v)'
  <1> DEFINE r == RowOf(c)
             k == MaxSeq(v)
  <1>1. r.conv \in Convs /\ r.seq = MaxSeq(r.conv) + 1
    BY StagedRow
  <1>2. messages' = messages \cup {r}
    BY StagedRow DEF Persist
  <1>3. k \in Nat /\ Seqs(v) = 1..k
    BY DEF IInv, Numbered
  <1> HIDE DEF r, k
  <1>4. CASE v = r.conv
    <2>1. Seqs(v)' = Seqs(v) \cup {r.seq}
      BY <1>2, <1>4 DEF Seqs
    <2>2. Seqs(v)' = 1..(k + 1)
      BY <2>1, <1>1, <1>3, <1>4 DEF k
    <2>3. MaxSeq(v)' = k + 1
      BY <2>2, <1>3, MaxOfInterval DEF MaxSeq
    <2>4. QED
      BY <2>2, <2>3, <1>2, <1>3, <1>4 DEF k, r
  <1>5. CASE v # r.conv
    <2>1. Seqs(v)' = Seqs(v)
      BY <1>2, <1>5 DEF Seqs
    <2>2. MaxSeq(v)' = k
      BY <2>1 DEF MaxSeq, k
    <2>3. QED
      BY <2>1, <2>2, <1>2, <1>3, <1>5 DEF k, r
  <1>6. QED
    BY <1>4, <1>5

\* A step leaves the maximum of a conversation or adds one to it.
LEMMA MaxSeqGrows ==
  ASSUME IInv, [Next]_vars, NEW v \in Convs
  PROVE  /\ MaxSeq(v)' \in Nat /\ Seqs(v)' = 1..MaxSeq(v)'
         /\ MaxSeq(v) \in Nat /\ MaxSeq(v) <= MaxSeq(v)'
  <1>1. MaxSeq(v) \in Nat /\ Seqs(v) = 1..MaxSeq(v)
    BY DEF IInv, Numbered
  <1>2. CASE messages' = messages
    BY <1>1, <1>2, SameTable
  <1>3. ASSUME NEW c \in Calls, Persist(c)
        PROVE  /\ MaxSeq(v)' \in Nat /\ Seqs(v)' = 1..MaxSeq(v)'
               /\ MaxSeq(v) <= MaxSeq(v)'
    <2>1. CASE staged[c] = {}
      <3>1. messages' = messages
        BY <1>3, <2>1 DEF Persist
      <3>2. QED
        BY <3>1, <1>2, <1>1, SameTable
    <2>2. CASE staged[c] # {}
      BY <1>1, <1>3, <2>2, CommitExtends
    <2>3. QED
      BY <2>1, <2>2
  <1>4. QED
    BY <1>1, <1>2, <1>3, OnlyCommitWrites DEF tables

LEMMA NumberedStep == IInv /\ [Next]_vars => Numbered'
  BY MaxSeqGrows DEF Numbered

LEMMA UniqueRowsStep == IInv /\ [Next]_vars => UniqueRows'
  <1> SUFFICES ASSUME IInv, [Next]_vars  PROVE UniqueRows'
    OBVIOUS
  <1>1. CASE messages' = messages
    BY <1>1 DEF IInv, UniqueRows
  <1>2. ASSUME NEW c \in Calls, Persist(c)  PROVE UniqueRows'
    <2>1. messages' = messages \cup staged[c]
      BY <1>2 DEF Persist
    <2>2. \A m, n \in staged[c] : m = n
      BY DEF IInv, StagedOwn
    <2>3. \A m \in staged[c], n \in messages : ~Clash(m, n) /\ ~Clash(n, m)
      BY DEF IInv, StagedFresh, Clash
    <2>4. QED
      BY <2>1, <2>2, <2>3 DEF IInv, UniqueRows
  <1>3. QED
    BY <1>1, <1>2, OnlyCommitWrites DEF tables

\* A request never changes once its call has arrived.
LEMMA RequestKept ==
  ASSUME TypeOK, [Next]_vars, NEW c \in Calls, pc[c] # "idle"
  PROVE  req'[c] = req[c]
  BY DEF Next, Service, Caller, Arrive, Acquire, FindDuplicate, FindNone, Allocate,
         Flush, Inserted, Touch, FlushConflict, FlushBusy, RecheckDuplicate, RecheckNone,
         Announce,
         Respond, Commit, CommitFails, CommitLost, Persist, Crash, vars, tables, TypeOK

\* A call comes to run by arriving with a request; all else was running before.
LEMMA RunsOn ==
  ASSUME TypeOK, [Next]_vars, NEW c \in Calls, pc'[c] \in Running \cup {"done"}
  PROVE  pc[c] \in Running \cup {"done"} \/ Arrive(c)
  <1>1. ASSUME NEW d \in Calls, Arrive(d)  PROVE pc'[c] = pc[c] \/ c = d
    BY <1>1 DEF Arrive, TypeOK
  <1>2. ASSUME NEW d \in Calls, Acquire(d) \/ Service(d)
        PROVE  pc'[c] = pc[c] \/ (c = d /\ pc[c] \in Running)
    BY <1>2 DEF TypeOK, Service, Acquire, FindDuplicate, FindNone, Allocate, Flush,
           Inserted, Touch,
           FlushConflict, FlushBusy, RecheckDuplicate, RecheckNone, Return, Raise,
           Running, Critical
  <1>3. ASSUME NEW d \in Calls, Caller(d)
        PROVE  pc'[c] = pc[c] \/ (c = d /\ pc[c] \in Running)
    BY <1>3 DEF TypeOK, Caller, Announce, Respond, Commit, CommitFails, CommitLost,
           Persist, AtStep,
           StepDone, Running
  <1>4. ASSUME NEW w \in Workers, Crash(w)  PROVE pc'[c] = pc[c]
    BY <1>4 DEF TypeOK, Crash, Running, Critical
  <1>5. CASE UNCHANGED vars
    BY <1>5 DEF vars
  <1>6. QED
    BY <1>1, <1>2, <1>3, <1>4, <1>5 DEF Next

LEMMA AcceptedStep == IInv /\ [Next]_vars => Accepted'
  <1> SUFFICES ASSUME IInv, [Next]_vars, NEW c \in Calls, pc'[c] \in Running \cup {"done"}
               PROVE  req'[c] \in Request
    BY DEF Accepted
  <1>0. TypeOK
    BY DEF IInv
  <1>1. CASE Arrive(c)
    BY <1>0, <1>1 DEF Arrive, TypeOK
  <1>2. CASE pc[c] \in Running \cup {"done"}
    <2>1. pc[c] # "idle"
      BY <1>2 DEF Running, Critical
    <2>2. QED
      BY <2>1, <1>0, <1>2, RequestKept DEF IInv, Accepted
  <1>3. QED
    BY <1>0, <1>1, <1>2, RunsOn

\* A call that is flushing has just allocated its number, or keeps it.
LEMMA FlushingKeeps ==
  ASSUME TypeOK, [Next]_vars, NEW c \in Calls, pc'[c] = "flushing"
  PROVE  /\ req'[c] = req[c] /\ pc[c] # "idle"
         /\ \/ pc[c] = "flushing" /\ next'[c] = next[c]
            \/ Allocate(c)
  <1>1. ASSUME NEW d \in Calls, Allocate(d)
        PROVE  c = d \/ (pc[c] = "flushing" /\ next'[c] = next[c])
    BY <1>1 DEF Allocate, TypeOK
  <1>2. ASSUME NEW d \in Calls,
               \/ Arrive(d) \/ Acquire(d) \/ FindDuplicate(d) \/ FindNone(d)
               \/ Flush(d) \/ Touch(d) \/ FlushConflict(d) \/ FlushBusy(d) \/ RecheckDuplicate(d) \/ RecheckNone(d)
        PROVE  pc[c] = "flushing" /\ next'[c] = next[c]
    BY <1>2 DEF TypeOK, Arrive, Acquire, FindDuplicate, FindNone, Flush, Inserted, Touch,
           FlushConflict,
           FlushBusy, RecheckDuplicate, RecheckNone, Return, Raise
  <1>3. ASSUME NEW d \in Calls, Caller(d)  PROVE pc[c] = "flushing" /\ next'[c] = next[c]
    BY <1>3 DEF TypeOK, Caller, Announce, Respond, Commit, CommitFails, CommitLost,
           Persist, StepDone
  <1>4. ASSUME NEW w \in Workers, Crash(w)  PROVE pc[c] = "flushing" /\ next'[c] = next[c]
    BY <1>4 DEF TypeOK, Crash
  <1>5. CASE UNCHANGED vars
    BY <1>5 DEF vars
  <1>6. pc[c] # "idle"
    <2>1. "flushing" \in Running /\ "idle" \notin Running
      BY DEF Running, Critical
    <2>2. CASE Arrive(c)
      BY <2>2 DEF Arrive, TypeOK
    <2>3. QED
      BY <2>1, <2>2, RunsOn
  <1>7. QED
    BY <1>1, <1>2, <1>3, <1>4, <1>5, <1>6, RequestKept DEF Next, Service

LEMMA NextBoundedStep == IInv /\ [Next]_vars => NextBounded'
  <1> SUFFICES ASSUME IInv, [Next]_vars, NEW c \in Calls, NEW v \in Convs,
                      pc'[c] = "flushing", req'[c].conv = v
               PROVE  next'[c] \in Nat /\ 1 <= next'[c] /\ next'[c] <= MaxSeq(v)' + 1
    BY DEF NextBounded
  <1>0. TypeOK
    BY DEF IInv
  <1>1. req[c].conv = v
    BY <1>0, FlushingKeeps
  <1>2. MaxSeq(v) \in Nat /\ MaxSeq(v)' \in Nat /\ MaxSeq(v) <= MaxSeq(v)'
    BY MaxSeqGrows
  <1>3. CASE Allocate(c)
    BY <1>0, <1>1, <1>2, <1>3 DEF Allocate, TypeOK
  <1>4. CASE pc[c] = "flushing" /\ next'[c] = next[c]
    BY <1>1, <1>2, <1>4 DEF IInv, NextBounded
  <1>5. QED
    BY <1>0, <1>3, <1>4, FlushingKeeps

-------------------------------------------------------------------------------
\* What a flush inserts follows the committed rows and clashes with none.
LEMMA FlushedRow ==
  ASSUME IInv, NEW c \in Calls, Flush(c)
  PROVE  /\ RowOf(c).seq = MaxSeq(RowOf(c).conv) + 1 /\ RowOf(c).conv \in Convs
         /\ \A m \in messages : ~Clash(RowOf(c), m) /\ ~Clash(m, RowOf(c))
         /\ \A d \in Calls \ {c} : \A m \in staged[d] : m.conv # RowOf(c).conv
  <1>1. PICK v \in Convs : v = req[c].conv
    BY RowType, RequestFields DEF Flush
  <1>2. RowOf(c).conv = v /\ RowOf(c).seq = next[c]
    BY <1>1 DEF RowOf
  <1>3. \A m \in messages : ~Clash(RowOf(c), m) /\ ~Clash(m, RowOf(c))
    BY DEF Flush, Clash
  <1>4. /\ next[c] \in Nat /\ 1 <= next[c] /\ next[c] <= MaxSeq(v) + 1
        /\ MaxSeq(v) \in Nat /\ Seqs(v) = 1..MaxSeq(v)
    BY <1>1 DEF IInv, NextBounded, Numbered, Flush
  <1>5. next[c] \notin Seqs(v)
    BY <1>2, <1>3 DEF Seqs, Clash
  <1>6. RowOf(c).seq = MaxSeq(v) + 1
    BY <1>2, <1>4, <1>5
  <1>7. ASSUME NEW d \in Calls \ {c}, NEW m \in staged[d]  PROVE m.conv # RowOf(c).conv
    <2>1. m.seq = MaxSeq(m.conv) + 1
      BY <1>7 DEF IInv, CommitsInOrder
    <2>2. ~Clash(m, RowOf(c))
      BY <1>7 DEF Flush, Blocked, Blockers
    <2>3. QED
      BY <2>1, <2>2, <1>2, <1>6 DEF Clash
  <1>8. QED
    BY <1>1, <1>2, <1>3, <1>6, <1>7

\* Transactions only lose rows, except that a flush adds its call's row.
LEMMA StagedChange ==
  ASSUME TypeOK, [Next]_vars
  PROVE  \/ \A c \in Calls : staged'[c] \subseteq staged[c]
         \/ \E c \in Calls : Flush(c)
  <1>1. ASSUME NEW c \in Calls, Arrive(c) \/ Acquire(c) \/ FindDuplicate(c) \/ FindNone(c)
                 \/ Allocate(c) \/ Touch(c) \/ FlushConflict(c) \/ FlushBusy(c)
                 \/ RecheckDuplicate(c) \/ RecheckNone(c) \/ Announce(c) \/ Respond(c)
        PROVE  staged' = staged
    BY <1>1 DEF Arrive, Acquire, FindDuplicate, FindNone, Allocate, Touch, FlushConflict,
           FlushBusy, RecheckDuplicate, RecheckNone, Announce, Respond
  <1>2. ASSUME NEW c \in Calls, Commit(c) \/ CommitFails(c) \/ CommitLost(c), NEW d \in Calls
        PROVE  staged'[d] \subseteq staged[d]
    BY <1>2 DEF Commit, CommitFails, CommitLost, Persist, TypeOK
  <1>3. ASSUME NEW w \in Workers, Crash(w), NEW d \in Calls
        PROVE  staged'[d] \subseteq staged[d]
    BY <1>3 DEF Crash, TypeOK
  <1>4. CASE UNCHANGED vars
    BY <1>4 DEF vars
  <1>5. QED
    BY <1>1, <1>2, <1>3, <1>4 DEF Next, Service, Caller

\* After a COMMIT no open transaction holds a row of that conversation.
LEMMA CommittedAlone ==
  ASSUME IInv, NEW c \in Calls, Persist(c), NEW d \in Calls, NEW m \in staged'[d],
         NEW n \in staged[c]
  PROVE  m \in staged[d] /\ d # c /\ m.conv # n.conv
  <1>1. m \in staged[d] /\ d # c
    BY DEF Persist, IInv, TypeOK
  <1>2. QED
    BY <1>1 DEF IInv, CommitsInOrder

LEMMA StagedFreshStep == IInv /\ [Next]_vars => StagedFresh'
  <1> SUFFICES ASSUME IInv, [Next]_vars, NEW d \in Calls, NEW m \in staged'[d],
                      NEW n \in messages'
               PROVE  ~Clash(m, n)
    BY DEF StagedFresh, Clash
  <1>0. TypeOK
    BY DEF IInv
  <1>1. CASE messages' = messages /\ \A c \in Calls : staged'[c] \subseteq staged[c]
    BY <1>1 DEF IInv, StagedFresh
  <1>2. ASSUME NEW c \in Calls, Persist(c)  PROVE ~Clash(m, n)
    <2>1. m \in staged[d]
      BY <1>2 DEF Persist, IInv, TypeOK
    <2>2. CASE n \in messages
      BY <2>1, <2>2 DEF IInv, StagedFresh
    <2>3. CASE n \in staged[c]
      BY <1>2, <2>3, CommittedAlone DEF Clash
    <2>4. QED
      BY <1>2, <2>2, <2>3 DEF Persist
  <1>3. ASSUME NEW c \in Calls, Flush(c)  PROVE ~Clash(m, n)
    <2>1. n \in messages
      BY <1>3 DEF Flush, tables
    <2>2. CASE d = c
      BY <1>0, <1>3, <2>1, <2>2, FlushedRow DEF Flush, TypeOK
    <2>3. CASE d # c
      BY <1>0, <1>3, <2>1, <2>3 DEF Flush, TypeOK, IInv, StagedFresh
    <2>4. QED
      BY <2>2, <2>3
  <1>4. QED
    BY <1>0, <1>1, <1>2, <1>3, OnlyCommitWrites, StagedChange DEF tables

LEMMA CommitsInOrderStep == IInv /\ [Next]_vars => CommitsInOrder'
  <1> SUFFICES ASSUME IInv, [Next]_vars, NEW c \in Calls, NEW d \in Calls,
                      NEW m \in staged'[c], NEW n \in staged'[d]
               PROVE  m.seq = MaxSeq(m.conv)' + 1 /\ (m.conv = n.conv => c = d)
    BY DEF CommitsInOrder
  <1>0. TypeOK /\ CommitsInOrder
    BY DEF IInv
  <1>1. ASSUME NEW e \in Calls, Flush(e)
        PROVE  m.seq = MaxSeq(m.conv)' + 1 /\ (m.conv = n.conv => c = d)
    <2>1. messages' = messages /\ staged' = [staged EXCEPT ![e] = {RowOf(e)}]
      BY <1>1 DEF Flush, tables
    <2>2. m \in staged[c] \/ (c = e /\ m = RowOf(e))
      BY <1>0, <2>1 DEF TypeOK
    <2>3. n \in staged[d] \/ (d = e /\ n = RowOf(e))
      BY <1>0, <2>1 DEF TypeOK
    <2>4. m.seq = MaxSeq(m.conv) + 1 /\ m.conv \in Convs
      BY <1>0, <1>1, <2>2, FlushedRow DEF CommitsInOrder, TypeOK, Message
    <2>5. MaxSeq(m.conv)' = MaxSeq(m.conv)
      BY <2>1, <2>4, SameTable
    <2>6. m.conv = n.conv => c = d
      BY <1>0, <1>1, <2>2, <2>3, FlushedRow DEF CommitsInOrder
    <2>7. QED
      BY <2>4, <2>5, <2>6
  <1>2. CASE \A e \in Calls : staged'[e] \subseteq staged[e]
    <2>1. m \in staged[c] /\ n \in staged[d] /\ m.conv \in Convs
      BY <1>0, <1>2 DEF TypeOK, Message
    <2>2. m.seq = MaxSeq(m.conv) + 1 /\ (m.conv = n.conv => c = d)
      BY <1>0, <2>1 DEF CommitsInOrder
    <2>3. CASE messages' = messages
      BY <2>1, <2>2, <2>3, SameTable
    <2>4. ASSUME NEW e \in Calls, Persist(e)  PROVE MaxSeq(m.conv)' = MaxSeq(m.conv)
      <3>1. CASE staged[e] = {}
        BY <2>1, <2>4, <3>1, SameTable DEF Persist
      <3>2. CASE staged[e] # {}
        <4>1. RowOf(e) \in staged[e]
          BY <3>2, StagedRow
        <4>2. m.conv # RowOf(e).conv
          BY <2>4, <4>1, CommittedAlone
        <4>3. QED
          BY <2>1, <2>4, <3>2, <4>2, CommitExtends
      <3>3. QED
        BY <3>1, <3>2
    <2>5. QED
      BY <2>2, <2>3, <2>4, OnlyCommitWrites DEF tables
  <1>3. QED
    BY <1>0, <1>1, <1>2, StagedChange

-------------------------------------------------------------------------------
\* A caller's plan, one step on: the COMMIT stays ahead until it is the step.
LEMMA PlanTail ==
  ASSUME NEW p \in Seq({"announce", "commit", "respond"}), NEW b \in BOOLEAN,
         CommitsIn(p, b), Head(p) # "commit"
  PROVE  /\ CommitsIn(Tail(p), b) /\ Tail(p) # <<>>
         /\ Head(p) = "respond" => b
  <1>1. PICK i \in DOMAIN p :
           p[i] = "commit" /\ \A j \in 1..(i - 1) : p[j] = "respond" => b
    BY DEF CommitsIn
  <1>2. i \in 2..Len(p)
    BY <1>1
  <1>3. /\ i - 1 \in DOMAIN Tail(p) /\ Tail(p)[i - 1] = "commit"
        /\ \A j \in 1..(i - 2) : Tail(p)[j] = p[j + 1]
    BY <1>1, <1>2
  <1>4. \A j \in 1..((i - 1) - 1) : Tail(p)[j] = "respond" => b
    BY <1>1, <1>2, <1>3
  <1>5. Head(p) = "respond" => b
    BY <1>1, <1>2
  <1>6. QED
    BY <1>3, <1>4, <1>5 DEF CommitsIn

\* Plans that commit before they respond, or at all.
LEMMA CommitFirst ==
  ASSUME NEW p \in {<<"commit", "announce">>, <<"commit", "announce", "respond">>},
         NEW b \in BOOLEAN
  PROVE  CommitsIn(p, b)
  <1>1. 1 \in DOMAIN p /\ p[1] = "commit"
    OBVIOUS
  <1>2. \A j \in 1..(1 - 1) : p[j] = "respond" => b
    OBVIOUS
  <1>3. QED
    BY <1>1, <1>2 DEF CommitsIn

LEMMA CommitSecond ==
  ASSUME NEW b \in BOOLEAN
  PROVE  CommitsIn(<<"announce", "commit", "respond">>, b)
  <1> DEFINE p == <<"announce", "commit", "respond">>
  <1>1. 2 \in DOMAIN p /\ p[2] = "commit" /\ p[1] = "announce"
    OBVIOUS
  <1>2. \A j \in 1..(2 - 1) : j = 1
    OBVIOUS
  <1> HIDE DEF p
  <1>3. CommitsIn(p, b)
    BY <1>1, <1>2 DEF CommitsIn
  <1>4. QED
    BY <1>3 DEF p

LEMMA CommitThird == CommitsIn(<<"announce", "respond", "commit">>, TRUE)
  <1> DEFINE p == <<"announce", "respond", "commit">>
  <1>1. 3 \in DOMAIN p /\ p[3] = "commit"
    OBVIOUS
  <1> HIDE DEF p
  <1>2. CommitsIn(p, TRUE)
    BY <1>1 DEF CommitsIn
  <1>3. QED
    BY <1>2 DEF p

\* Every caller that gets a new message commits it, and before it responds.
LEMMA PlanStarts ==
  ASSUME NEW e \in Entries
  PROVE  CommitsIn(Epilogue(e, TRUE), RespondFirst /\ e = "rest")
  <1> DEFINE b == RespondFirst /\ e = "rest"
  <1>0. b \in BOOLEAN
    BY BackendAssumption
  <1>1. CASE e \in {"ws", "webhook"}
    <2>1. Epilogue(e, TRUE) \in {<<"commit", "announce">>, <<"commit", "announce", "respond">>}
      BY <1>1 DEF Epilogue
    <2> HIDE DEF b
    <2>2. CommitsIn(Epilogue(e, TRUE), b)
      BY <2>1, <1>0, CommitFirst
    <2>3. QED
      BY <2>2 DEF b
  <1>2. CASE e = "rest" /\ ~RespondFirst
    <2>1. Epilogue(e, TRUE) = <<"announce", "commit", "respond">>
      BY <1>2 DEF Epilogue
    <2> HIDE DEF b
    <2>2. CommitsIn(Epilogue(e, TRUE), b)
      BY <2>1, <1>0, CommitSecond
    <2>3. QED
      BY <2>2 DEF b
  <1>3. CASE e = "rest" /\ RespondFirst
    <2>1. Epilogue(e, TRUE) = <<"announce", "respond", "commit">> /\ b = TRUE
      BY <1>3, BackendAssumption DEF Epilogue
    <2> HIDE DEF b
    <2>2. CommitsIn(Epilogue(e, TRUE), b)
      BY <2>1, CommitThird
    <2>3. QED
      BY <2>2 DEF b
  <1>4. QED
    BY <1>1, <1>2, <1>3, BackendAssumption DEF Entries

\* What can befall a call whose send_message has returned.
LEMMA EpilogueKeeps ==
  ASSUME TypeOK, [Next]_vars, NEW c \in Calls, pc[c] = "epilogue"
  PROVE  /\ req'[c] = req[c] /\ next'[c] = next[c] /\ result'[c] = result[c]
         /\ \/ /\ pc'[c] = "epilogue" /\ todo'[c] = todo[c]
               /\ staged'[c] = staged[c]
            \/ Announce(c) \/ Respond(c) \/ Commit(c) \/ CommitFails(c) \/ CommitLost(c)
            \/ pc'[c] = "crashed" /\ staged'[c] = {}
  <1>1. ASSUME NEW d \in Calls, Arrive(d) \/ Acquire(d) \/ Service(d)
        PROVE  /\ req'[c] = req[c] /\ next'[c] = next[c] /\ result'[c] = result[c]
               /\ pc'[c] = "epilogue" /\ todo'[c] = todo[c] /\ staged'[c] = staged[c]
    BY <1>1 DEF TypeOK, Service, Arrive, Acquire, FindDuplicate, FindNone, Allocate,
           Flush, Inserted, Touch, FlushConflict, FlushBusy, RecheckDuplicate, RecheckNone,
           Return, Raise
  <1>2. ASSUME NEW d \in Calls, Caller(d)
        PROVE  /\ req'[c] = req[c] /\ next'[c] = next[c] /\ result'[c] = result[c]
               /\ \/ /\ pc'[c] = "epilogue" /\ todo'[c] = todo[c]
                     /\ staged'[c] = staged[c]
                  \/ c = d
    BY <1>2 DEF TypeOK, Caller, Announce, Respond, Commit, CommitFails, CommitLost,
           Persist, StepDone
  <1>3. ASSUME NEW w \in Workers, Crash(w)
        PROVE  /\ req'[c] = req[c] /\ next'[c] = next[c] /\ result'[c] = result[c]
               /\ \/ /\ pc'[c] = "epilogue" /\ todo'[c] = todo[c]
                     /\ staged'[c] = staged[c]
                  \/ pc'[c] = "crashed" /\ staged'[c] = {}
    BY <1>3 DEF TypeOK, Crash
  <1>4. CASE UNCHANGED vars
    BY <1>4 DEF vars
  <1>5. QED
    BY <1>1, <1>2, <1>3, <1>4 DEF Next, Caller

\* Only send_message's three returns bring a call to its epilogue.
LEMMA EpilogueStarts ==
  ASSUME TypeOK, [Next]_vars, NEW c \in Calls,
         pc'[c] = "epilogue", pc[c] # "epilogue"
  PROVE  /\ pc[c] \in Critical /\ req' = req /\ messages' = messages
         /\ \/ (Flush(c) \/ Touch(c)) /\ Return(c, RowOf(c))
            \/ /\ staged' = staged /\ pc[c] # "touching"
               /\ \E m \in Duplicates(c) : Return(c, m)
  <1>1. ASSUME NEW d \in Calls,
               \/ Arrive(d) \/ Acquire(d) \/ FindNone(d) \/ Allocate(d)
               \/ FlushConflict(d) \/ FlushBusy(d) \/ RecheckNone(d)
        PROVE  FALSE
    BY <1>1 DEF TypeOK, Arrive, Acquire, FindNone, Allocate, FlushConflict, FlushBusy,
           RecheckNone, Raise
  <1>2. ASSUME NEW d \in Calls, Caller(d)  PROVE FALSE
    BY <1>2 DEF TypeOK, Caller, Announce, Respond, Commit, CommitFails, CommitLost,
           Persist, AtStep, StepDone
  <1>3. ASSUME NEW w \in Workers, Crash(w)  PROVE FALSE
    BY <1>3 DEF TypeOK, Crash
  <1>4. CASE UNCHANGED vars
    BY <1>4 DEF vars
  <1>5. ASSUME NEW d \in Calls, Flush(d) \/ Touch(d)
        PROVE  /\ pc[c] \in Critical /\ req' = req /\ messages' = messages
               /\ (Flush(c) \/ Touch(c)) /\ Return(c, RowOf(c))
    BY <1>5 DEF TypeOK, Flush, Touch, Inserted, Return, Critical, tables
  <1>6. ASSUME NEW d \in Calls, FindDuplicate(d)
        PROVE  /\ pc[c] \in Critical /\ req' = req /\ messages' = messages
               /\ staged' = staged /\ pc[c] # "touching" /\ \E m \in Duplicates(c) : Return(c, m)
    BY <1>6 DEF TypeOK, FindDuplicate, Return, Critical, tables
  <1>7. ASSUME NEW d \in Calls, RecheckDuplicate(d)
        PROVE  /\ pc[c] \in Critical /\ req' = req /\ messages' = messages
               /\ staged' = staged /\ pc[c] # "touching" /\ \E m \in Duplicates(c) : Return(c, m)
    BY <1>7 DEF TypeOK, RecheckDuplicate, Return, Raise, Critical, tables
  <1>8. QED
    BY <1>1, <1>2, <1>3, <1>4, <1>5, <1>6, <1>7 DEF Next, Service

\* What can befall a call that goes on to its session's row.
LEMMA TouchingKeeps ==
  ASSUME TypeOK, [Next]_vars, NEW c \in Calls, pc[c] = "touching"
  PROVE  /\ req'[c] = req[c] /\ next'[c] = next[c]
         /\ \/ pc'[c] = "touching" /\ staged'[c] = staged[c]
            \/ Touch(c) /\ pc'[c] = "epilogue" /\ staged'[c] = staged[c]
            \/ pc'[c] = "crashed" /\ staged'[c] = {}
  <1>1. ASSUME NEW d \in Calls, Arrive(d) \/ Acquire(d) \/ Service(d)
        PROVE  /\ req'[c] = req[c] /\ next'[c] = next[c] /\ staged'[c] = staged[c]
               /\ pc'[c] = "touching" \/ (Touch(c) /\ pc'[c] = "epilogue")
    BY <1>1 DEF TypeOK, Service, Arrive, Acquire, FindDuplicate, FindNone, Allocate,
           Flush, Inserted, Touch, FlushConflict, FlushBusy, RecheckDuplicate, RecheckNone,
           Return, Raise
  <1>2. ASSUME NEW d \in Calls, Caller(d)
        PROVE  /\ req'[c] = req[c] /\ next'[c] = next[c] /\ staged'[c] = staged[c]
               /\ pc'[c] = "touching"
    BY <1>2 DEF TypeOK, Caller, Announce, Respond, Commit, CommitFails, CommitLost, Persist,
           StepDone, AtStep
  <1>3. ASSUME NEW w \in Workers, Crash(w)
        PROVE  /\ req'[c] = req[c] /\ next'[c] = next[c]
               /\ \/ pc'[c] = "touching" /\ staged'[c] = staged[c]
                  \/ pc'[c] = "crashed" /\ staged'[c] = {}
    BY <1>3 DEF TypeOK, Crash
  <1>4. CASE UNCHANGED vars
    BY <1>4 DEF vars
  <1>5. QED
    BY <1>1, <1>2, <1>3, <1>4 DEF Next

\* A call comes to its session's row by inserting its own.
LEMMA TouchingStarts ==
  ASSUME TypeOK, [Next]_vars, NEW c \in Calls, pc'[c] = "touching", pc[c] # "touching"
  PROVE  Flush(c) /\ req[c].entry = "rest"
  <1>1. ASSUME NEW d \in Calls, Arrive(d) \/ Acquire(d) \/ Service(d)
        PROVE  Flush(c) /\ req[c].entry = "rest"
    BY <1>1 DEF TypeOK, Service, Arrive, Acquire, FindDuplicate, FindNone, Allocate,
           Flush, Inserted, Touch, FlushConflict, FlushBusy, RecheckDuplicate, RecheckNone,
           Return, Raise
  <1>2. ASSUME NEW d \in Calls, Caller(d)  PROVE FALSE
    BY <1>2 DEF TypeOK, Caller, Announce, Respond, Commit, CommitFails, CommitLost, StepDone
  <1>3. ASSUME NEW w \in Workers, Crash(w)  PROVE FALSE
    BY <1>3 DEF TypeOK, Crash
  <1>4. QED
    BY <1>1, <1>2, <1>3 DEF Next, vars

\* A returned or ended call keeps its request and its result.
LEMMA ReturnedKeeps ==
  ASSUME TypeOK, [Next]_vars, NEW c \in Calls, pc[c] \in {"epilogue"} \cup Ended
  PROVE  /\ req'[c] = req[c] /\ result'[c] = result[c]
         /\ pc'[c] \in {"epilogue"} \cup Ended
         /\ pc[c] \in Ended => pc'[c] = pc[c]
  <1>1. ASSUME NEW d \in Calls, Arrive(d) \/ Acquire(d) \/ Service(d)
        PROVE  pc'[c] = pc[c] /\ req'[c] = req[c] /\ result'[c] = result[c]
    BY <1>1 DEF TypeOK, Service, Arrive, Acquire, FindDuplicate, FindNone, Allocate,
           Flush, Inserted, Touch, FlushConflict, FlushBusy, RecheckDuplicate, RecheckNone,
           Return, Raise,
           Ended
  <1>2. ASSUME NEW d \in Calls, Caller(d)
        PROVE  /\ req'[c] = req[c] /\ result'[c] = result[c]
               /\ pc'[c] = pc[c] \/ (c = d /\ pc[c] = "epilogue" /\ pc'[c] \in Ended)
    BY <1>2 DEF TypeOK, Caller, Announce, Respond, Commit, CommitFails, CommitLost,
           Persist, StepDone, AtStep,
           Ended
  <1>3. ASSUME NEW w \in Workers, Crash(w)
        PROVE  /\ req'[c] = req[c] /\ result'[c] = result[c]
               /\ pc'[c] = pc[c] \/ (pc[c] = "epilogue" /\ pc'[c] = "crashed")
    BY <1>3 DEF TypeOK, Crash, Running, Critical, Ended
  <1>4. CASE UNCHANGED vars
    BY <1>4 DEF vars
  <1>5. "epilogue" \notin Ended /\ "crashed" \in Ended
    BY DEF Ended
  <1>6. QED
    BY <1>1, <1>2, <1>3, <1>4, <1>5 DEF Next

LEMMA AckedLateStep == IInv /\ [Next]_vars => AckedLate'
  <1> SUFFICES ASSUME IInv, [Next]_vars, NEW c \in acked'
               PROVE  pc'[c] \in {"epilogue"} \cup Ended
    BY DEF AckedLate
  <1>0. TypeOK
    BY DEF IInv
  <1>1. c \in acked \/ Respond(c)
    BY DEF Next, Service, Caller, Arrive, Acquire, FindDuplicate, FindNone, Allocate,
           Flush, Inserted, Touch, FlushConflict, FlushBusy, RecheckDuplicate, RecheckNone,
           Announce,
           Respond, Commit, CommitFails, CommitLost, Persist, Crash, vars
  <1>2. CASE c \in acked
    BY <1>0, <1>2, ReturnedKeeps DEF IInv, AckedLate, TypeOK
  <1>3. CASE Respond(c) /\ c \in Calls
    BY <1>0, <1>3, ReturnedKeeps DEF Respond, AtStep
  <1>4. c \in Calls \/ c \in acked
    BY <1>0, TypeStep DEF TypeOK
  <1>5. QED
    BY <1>1, <1>2, <1>3, <1>4

\* A caller's step other than COMMIT, taken with a row still uncommitted.
LEMMA StillOpen ==
  ASSUME IInv, NEW c \in Calls, Announce(c) \/ Respond(c), staged[c] # {}
  PROVE  /\ pc'[c] = "epilogue" /\ todo'[c] = Tail(todo[c]) /\ todo'[c] # <<>>
         /\ CommitsIn(todo'[c], AcksFirst(c))
         /\ Respond(c) => AcksFirst(c)
  <1>1. /\ todo[c] \in Seq({"announce", "commit", "respond"})
        /\ CommitsIn(todo[c], AcksFirst(c)) /\ AcksFirst(c) \in BOOLEAN
    BY BackendAssumption DEF IInv, TypeOK, Pending, Announce, Respond, AtStep, AcksFirst
  <1>2. Head(todo[c]) # "commit" /\ StepDone(c) /\ pc[c] = "epilogue"
    BY DEF Announce, Respond, AtStep
  <1>3. /\ CommitsIn(Tail(todo[c]), AcksFirst(c)) /\ Tail(todo[c]) # <<>>
        /\ Head(todo[c]) = "respond" => AcksFirst(c)
    BY <1>1, <1>2, PlanTail
  <1>4. todo'[c] = Tail(todo[c]) /\ pc' = pc
    BY <1>2, <1>3 DEF StepDone, IInv, TypeOK
  <1>5. QED
    BY <1>2, <1>3, <1>4 DEF Respond, AtStep

LEMMA StagedOwnStep == IInv /\ [Next]_vars => StagedOwn'
  <1> SUFFICES ASSUME IInv, [Next]_vars, NEW c \in Calls
               PROVE  /\ \A m \in staged'[c] :
                            pc'[c] \in {"touching", "epilogue"} /\ m = RowOf(c)'
                      /\ pc'[c] = "touching" => staged'[c] # {} /\ req'[c].entry = "rest"
    BY DEF StagedOwn
  <1>0. TypeOK
    BY DEF IInv
  <1>1. CASE Flush(c)
    <2>1. staged'[c] = {RowOf(c)} /\ RowOf(c)' = RowOf(c) /\ req'[c] = req[c]
      BY <1>0, <1>1 DEF Flush, TypeOK, RowOf
    <2>2. \/ pc'[c] = "touching" /\ req[c].entry = "rest"
          \/ pc'[c] = "epilogue"
      BY <1>0, <1>1 DEF Flush, Inserted, Return, TypeOK
    <2>3. QED
      BY <2>1, <2>2
  <1>2. ASSUME NEW m \in staged'[c], m \in staged[c]
        PROVE  pc'[c] \in {"touching", "epilogue"} /\ m = RowOf(c)'
    <2>1. pc[c] \in {"touching", "epilogue"} /\ m = RowOf(c)
      BY <1>2 DEF IInv, StagedOwn
    <2>2. RowOf(c)' = RowOf(c)
      BY <1>0, <2>1, EpilogueKeeps, TouchingKeeps DEF RowOf
    <2>3. ~Commit(c) /\ ~CommitFails(c) /\ ~CommitLost(c)
      BY <1>0, <1>2 DEF Commit, CommitFails, CommitLost, Persist, TypeOK
    <2>4. CASE pc[c] = "epilogue"
      BY <1>0, <1>2, <2>2, <2>1, <2>3, <2>4, EpilogueKeeps, StillOpen
    <2>5. CASE pc[c] = "touching"
      BY <1>0, <1>2, <2>2, <2>1, <2>5, TouchingKeeps
    <2>6. QED
      BY <2>1, <2>4, <2>5
  <1>3. staged'[c] \subseteq staged[c] \/ Flush(c)
    <2>1. ASSUME NEW d \in Calls, Flush(d)  PROVE staged'[c] \subseteq staged[c] \/ c = d
      BY <1>0, <2>1 DEF Flush, TypeOK
    <2>2. QED
      BY <1>0, <2>1, StagedChange
  <1>4. ASSUME pc'[c] = "touching", ~Flush(c)
        PROVE  staged'[c] # {} /\ req'[c].entry = "rest"
    <2>1. pc[c] = "touching"
      BY <1>0, <1>4, TouchingStarts
    <2>2. staged'[c] = staged[c] /\ req'[c] = req[c]
      BY <1>0, <1>4, <2>1, TouchingKeeps
    <2>3. QED
      BY <2>1, <2>2 DEF IInv, StagedOwn
  <1>5. QED
    BY <1>1, <1>2, <1>3, <1>4

\* A call is done after its epilogue only.
LEMMA DoneStarts ==
  ASSUME TypeOK, [Next]_vars, NEW c \in Calls, pc'[c] = "done", pc[c] # "done"
  PROVE  pc[c] = "epilogue"
  <1>1. ASSUME NEW d \in Calls, Arrive(d) \/ Acquire(d) \/ Service(d)  PROVE FALSE
    BY <1>1 DEF TypeOK, Service, Arrive, Acquire, FindDuplicate, FindNone, Allocate,
       Flush, Inserted, Touch, FlushConflict, FlushBusy, RecheckDuplicate, RecheckNone,
       Return, Raise
  <1>2. ASSUME NEW d \in Calls, Caller(d)  PROVE pc[c] = "epilogue"
    BY <1>2 DEF TypeOK, Caller, Announce, Respond, Commit, CommitFails, CommitLost,
           Persist, AtStep, StepDone
  <1>3. ASSUME NEW w \in Workers, Crash(w)  PROVE FALSE
    BY <1>3 DEF TypeOK, Crash
  <1>4. QED
    BY <1>1, <1>2, <1>3 DEF Next, vars

\* So is one whose COMMIT raised.
LEMMA AbortedStarts ==
  ASSUME TypeOK, [Next]_vars, NEW c \in Calls, pc'[c] = "aborted", pc[c] # "aborted"
  PROVE  pc[c] = "epilogue"
  <1>1. ASSUME NEW d \in Calls, Arrive(d) \/ Acquire(d) \/ Service(d)  PROVE FALSE
    BY <1>1 DEF TypeOK, Service, Arrive, Acquire, FindDuplicate, FindNone, Allocate,
       Flush, Inserted, Touch, FlushConflict, FlushBusy, RecheckDuplicate, RecheckNone,
       Return, Raise
  <1>2. ASSUME NEW d \in Calls, Caller(d)  PROVE pc[c] = "epilogue"
    BY <1>2 DEF TypeOK, Caller, Announce, Respond, Commit, CommitFails, CommitLost, AtStep,
       StepDone
  <1>3. ASSUME NEW w \in Workers, Crash(w)  PROVE FALSE
    BY <1>3 DEF TypeOK, Crash
  <1>4. QED
    BY <1>1, <1>2, <1>3 DEF Next, vars

LEMMA ReturnedOwnStep == IInv /\ [Next]_vars => ReturnedOwn'
  <1> SUFFICES ASSUME IInv, [Next]_vars, NEW c \in Calls,
                      pc'[c] \in {"epilogue", "done", "aborted"}
               PROVE  /\ result'[c] \in Message /\ result'[c].conv = req'[c].conv
                      /\ result'[c].cid = req'[c].cid
    BY DEF ReturnedOwn
  <1>0. TypeOK
    BY DEF IInv
  <1>1. CASE pc[c] \in {"epilogue", "done", "aborted"}
    BY <1>0, <1>1, ReturnedKeeps DEF IInv, ReturnedOwn, Ended
  <1>2. CASE pc[c] \notin {"epilogue", "done", "aborted"}
    <2>1. pc'[c] = "epilogue"
      BY <1>0, <1>2, DoneStarts, AbortedStarts
    <2>2. req'[c] = req[c]
      BY <1>0, <1>2, <2>1, EpilogueStarts
    <2>3. CASE (Flush(c) \/ Touch(c)) /\ Return(c, RowOf(c))
      <3>1. result'[c] = RowOf(c)
        BY <1>0, <2>3 DEF Return, TypeOK
      <3>2. RowOf(c) \in Message
        BY <2>3, RowType, TouchingRow DEF Flush, Touch
      <3>3. QED
        BY <2>2, <3>1, <3>2 DEF RowOf
    <2>4. CASE \E m \in Duplicates(c) : Return(c, m)
      BY <1>0, <2>2, <2>4 DEF Duplicates, Return, TypeOK
    <2>5. QED
      BY <1>0, <1>2, <2>1, <2>3, <2>4, EpilogueStarts
  <1>3. QED
    BY <1>1, <1>2

\* No committed row is ever lost.
LEMMA TableGrows ==
  ASSUME [Next]_vars
  PROVE  messages \subseteq messages'
  BY OnlyCommitWrites DEF Persist, tables

LEMMA PendingStep == IInv /\ [Next]_vars => Pending'
  <1> SUFFICES ASSUME IInv, [Next]_vars, NEW c \in Calls, pc'[c] = "epilogue"
               PROVE  /\ todo'[c] # <<>>
                      /\ staged'[c] = {} => result'[c] \in messages'
                      /\ staged'[c] # {} => /\ staged'[c] = {result'[c]}
                                            /\ CommitsIn(todo'[c], AcksFirst(c)')
    BY DEF Pending
  <1>0. TypeOK
    BY DEF IInv
  <1>1. CASE pc[c] = "epilogue"
    <2>0. /\ todo[c] # <<>>
          /\ staged[c] = {} => result[c] \in messages
          /\ staged[c] # {} => staged[c] = {result[c]} /\ CommitsIn(todo[c], AcksFirst(c))
      BY <1>1 DEF IInv, Pending
    <2>1. AcksFirst(c)' = AcksFirst(c) /\ result'[c] = result[c]
      BY <1>0, <1>1, EpilogueKeeps DEF AcksFirst
    <2>2. CASE todo'[c] = todo[c] /\ staged'[c] = staged[c]
      BY <2>0, <2>1, <2>2, TableGrows
    <2>3. CASE Announce(c) \/ Respond(c)
      <3>1. staged'[c] = staged[c]
        BY <2>3 DEF Announce, Respond
      <3>2. todo'[c] # <<>>
        BY <1>0, <2>3 DEF Announce, Respond, StepDone, TypeOK
      <3>3. staged[c] # {} => CommitsIn(todo'[c], AcksFirst(c))
        BY <2>3, StillOpen
      <3>4. QED
        BY <2>0, <2>1, <3>1, <3>2, <3>3, TableGrows
    <2>4. CASE Commit(c)
      <3>1. todo'[c] # <<>>
        BY <1>0, <2>4 DEF Commit, StepDone, TypeOK
      <3>2. staged'[c] = {} /\ messages' = messages \cup staged[c]
        BY <1>0, <2>4 DEF Commit, Persist, TypeOK
      <3>3. QED
        BY <2>0, <2>1, <3>1, <3>2
    <2>5. QED
      BY <1>0, <1>1, <2>2, <2>3, <2>4, EpilogueKeeps DEF CommitFails, CommitLost, Persist,
             TypeOK
  <1>2. CASE pc[c] # "epilogue"
    <2>1. /\ pc[c] \in Critical /\ req' = req /\ messages' = messages
          /\ \/ (Flush(c) \/ Touch(c)) /\ Return(c, RowOf(c))
             \/ /\ staged' = staged /\ pc[c] # "touching"
                /\ \E m \in Duplicates(c) : Return(c, m)
      BY <1>0, <1>2, EpilogueStarts
    <2>2. req[c] \in Request /\ req[c].entry \in Entries
      BY <2>1, RequestFields DEF IInv, Accepted, Running
    <2>3. CASE (Flush(c) \/ Touch(c)) /\ Return(c, RowOf(c))
      <3>1. /\ result'[c] = RowOf(c)
            /\ todo'[c] = Epilogue(req[c].entry, RowOf(c).id = c)
        BY <1>0, <2>3 DEF Return, TypeOK
      <3>2. staged'[c] = {RowOf(c)}
        BY <1>0, <2>3, TouchingRow DEF Flush, Touch, TypeOK
      <3>3. Epilogue(req[c].entry, RowOf(c).id = c) = Epilogue(req[c].entry, TRUE)
        BY DEF RowOf
      <3>4. CommitsIn(todo'[c], AcksFirst(c)) /\ todo'[c] # <<>>
        BY <2>2, <3>1, <3>3, PlanStarts, EpilogueType DEF AcksFirst
      <3>5. AcksFirst(c)' = AcksFirst(c)
        BY <2>1 DEF AcksFirst
      <3>6. QED
        BY <3>1, <3>2, <3>4, <3>5
    <2>4. ASSUME staged' = staged, pc[c] # "touching", NEW m \in Duplicates(c), Return(c, m)
          PROVE  todo'[c] # <<>> /\ staged'[c] = {} /\ result'[c] \in messages'
      <3>1. todo'[c] = Epilogue(req[c].entry, m.id = c) /\ result'[c] = m
        BY <1>0, <2>4 DEF Return, TypeOK
      <3>2. todo'[c] # <<>>
        BY <2>2, <3>1, EpilogueType
      <3>3. staged[c] = {}
        BY <1>2, <2>4 DEF IInv, StagedOwn
      <3>4. m \in messages
        BY DEF Duplicates
      <3>5. QED
        BY <2>1, <2>4, <3>1, <3>2, <3>3, <3>4
    <2>5. QED
      BY <2>1, <2>3, <2>4
  <1>3. QED
    BY <1>1, <1>2

LEMMA AnsweredStep == IInv /\ [Next]_vars => AnsweredIsStored'
  <1> SUFFICES ASSUME IInv, [Next]_vars, NEW c \in Calls,
                      pc'[c] = "done" \/ (c \in acked' /\ ~AcksFirst(c)')
               PROVE  result'[c] \in messages'
    BY DEF AnsweredIsStored, AcksFirst
  <1>0. TypeOK
    BY DEF IInv
  <1>1. CASE pc[c] = "done" \/ (c \in acked /\ ~AcksFirst(c))
    <2>1. result[c] \in messages
      BY <1>1 DEF IInv, AnsweredIsStored, AcksFirst
    <2>2. pc[c] \in {"epilogue"} \cup Ended
      BY <1>1 DEF IInv, AckedLate, Ended
    <2>3. QED
      BY <1>0, <2>1, <2>2, ReturnedKeeps, TableGrows
  <1>2. ASSUME pc[c] # "done", c \notin acked \/ AcksFirst(c)
        PROVE  result'[c] \in messages'
    <2>1. pc[c] = "epilogue" /\ (Announce(c) \/ Respond(c) \/ Commit(c))
      <3>1. CASE pc'[c] = "done"
        BY <1>0, <1>2, <3>1, DoneStarts, EpilogueKeeps DEF CommitFails, CommitLost,
               Persist, TypeOK
      <3>2. CASE c \in acked' /\ ~AcksFirst(c)' /\ c \in acked
        <4>1. AcksFirst(c)' = AcksFirst(c)
          BY <1>0, <3>2, ReturnedKeeps DEF AcksFirst, IInv, AckedLate
        <4>2. QED
          BY <1>2, <3>2, <4>1
      <3>3. CASE c \in acked' /\ c \notin acked
        BY <1>0, <3>3 DEF Next, Service, Caller, Arrive, Acquire, FindDuplicate,
           FindNone, Allocate, Flush, Inserted, Touch, FlushConflict, FlushBusy,
           RecheckDuplicate,
           RecheckNone, Announce, Respond, Commit, CommitFails, CommitLost, Persist, Crash,
           vars, AtStep
      <3>4. QED
        BY <3>1, <3>2, <3>3
    <2>2. /\ staged[c] = {} => result[c] \in messages
          /\ staged[c] # {} => staged[c] = {result[c]}
          /\ result'[c] = result[c] /\ AcksFirst(c)' = AcksFirst(c)
      BY <1>0, <2>1, EpilogueKeeps DEF IInv, Pending, AcksFirst
    <2>3. CASE Commit(c)
      BY <2>2, <2>3 DEF Commit, Persist
    <2>4. CASE (Announce(c) \/ Respond(c)) /\ staged[c] # {}
      <3>1. pc'[c] = "epilogue" /\ (Respond(c) => AcksFirst(c))
        BY <2>4, StillOpen
      <3>2. Respond(c)
        BY <1>2, <2>2, <2>4, <3>1 DEF Announce
      <3>3. QED
        BY <2>2, <3>1, <3>2
    <2>5. CASE staged[c] = {}
      BY <2>2, <2>5, TableGrows
    <2>6. QED
      BY <2>1, <2>3, <2>4, <2>5
  <1>3. QED
    BY <1>1, <1>2

-------------------------------------------------------------------------------
LEMMA InvInit == Init => IInv
  <1> SUFFICES ASSUME Init  PROVE IInv
    OBVIOUS
  <1>1. TypeOK
    BY TypeInit
  <1>2. Numbered
    <2> SUFFICES ASSUME NEW v \in Convs
                 PROVE  MaxSeq(v) \in Nat /\ Seqs(v) = 1..MaxSeq(v)
      BY DEF Numbered
    <2>1. Seqs(v) = {} /\ {} = 1..0
      BY DEF Init, Seqs
    <2>2. MaxSeq(v) = 0
      BY <2>1, MaxOfInterval DEF MaxSeq
    <2>3. QED
      BY <2>1, <2>2
  <1>3. /\ UniqueRows /\ Accepted /\ NextBounded /\ StagedOwn /\ StagedFresh
        /\ CommitsInOrder /\ ReturnedOwn /\ Pending /\ AckedLate /\ AnsweredIsStored
    BY DEF Init, UniqueRows, Accepted, NextBounded, StagedOwn, StagedFresh,
           CommitsInOrder, ReturnedOwn, Pending, AckedLate, AnsweredIsStored, Running,
           Critical
  <1>4. QED
    BY <1>1, <1>2, <1>3 DEF IInv

LEMMA InvStep == IInv /\ [Next]_vars => IInv'
  BY TypeStep, NumberedStep, UniqueRowsStep, AcceptedStep, NextBoundedStep, StagedOwnStep,
     StagedFreshStep, CommitsInOrderStep, ReturnedOwnStep, PendingStep, AckedLateStep,
     AnsweredStep DEF IInv

THEOREM Invariance == Spec => []IInv
  BY InvInit, InvStep, PTL DEF Spec

\* Every variable keeps its type.
THEOREM TypeCorrect == Spec => []TypeOK
  BY Invariance, PTL DEF IInv

\* The committed numbers of every conversation are 1..n, each on one row.
THEOREM GaplessAlways == Spec => []Gapless
  <1>1. IInv => Gapless
    BY DEF IInv, Gapless, Numbered, UniqueRows, Clash
  <1>2. QED
    BY <1>1, Invariance, PTL

\* At most one transaction per conversation waits to commit, with the next number.
THEOREM CommitsInOrderAlways == Spec => []CommitsInOrder
  BY Invariance, PTL DEF IInv

\* What a completed call returned, and what a response acknowledged, is stored.
THEOREM AnsweredIsStoredAlways == Spec => []AnsweredIsStored
  BY Invariance, PTL DEF IInv

\* Calls with one client id that complete are given one message.
THEOREM SameAnswerAlways == Spec => []SameAnswer
  <1>1. IInv => SameAnswer
    <2> SUFFICES ASSUME IInv, NEW c \in Calls, NEW d \in Calls,
                        pc[c] = "done", pc[d] = "done",
                        req[c].conv = req[d].conv, req[c].cid = req[d].cid
                 PROVE  result[c] = result[d]
      BY DEF SameAnswer
    <2>1. result[c] \in messages /\ result[d] \in messages
      BY DEF IInv, AnsweredIsStored
    <2>2. Clash(result[c], result[d])
      BY DEF IInv, ReturnedOwn, Clash
    <2>3. QED
      BY <2>1, <2>2 DEF IInv, UniqueRows
  <1>2. QED
    BY <1>1, Invariance, PTL

\* A message is stored exactly when its outbox event and its deliveries are.
LEMMA OutboxStep == OutboxComplete /\ [Next]_vars => OutboxComplete'
  <1> SUFFICES ASSUME OutboxComplete, [Next]_vars  PROVE OutboxComplete'
    OBVIOUS
  <1>1. CASE UNCHANGED tables
    BY <1>1 DEF OutboxComplete, tables
  <1>2. ASSUME NEW c \in Calls, Persist(c)  PROVE OutboxComplete'
    <2>1. outbox' = {m.id : m \in messages'}
      BY <1>2 DEF OutboxComplete, Persist
    <2>2. deliveries' = outbox' \X Integrations
      BY <1>2 DEF OutboxComplete, Persist
    <2>3. QED
      BY <2>1, <2>2 DEF OutboxComplete
  <1>3. QED
    BY <1>1, <1>2, OnlyCommitWrites

\* The transactional outbox, whatever commits fail and whatever workers die.
THEOREM OutboxCompleteAlways == Spec => []OutboxComplete
  <1>1. Init => OutboxComplete
    BY DEF Init, OutboxComplete
  <1>2. QED
    BY <1>1, OutboxStep, PTL DEF Spec
-------------------------------------------------------------------------------
NoAnnounce(p) == \A i \in DOMAIN p : p[i] # "announce"
\* Only a REST call that is new announces before its row is stored.
AnnouncePlan ==
  \A c \in Calls : pc[c] = "epilogue" =>
     IF req[c].entry = "rest" THEN result[c].id = c \/ NoAnnounce(todo[c])
                              ELSE staged[c] # {} => Head(todo[c]) = "commit"
\* AnnouncedIsStored, of calls that will not get another request.
Settled ==
  \A a \in announced :
     a[1] \in messages \/ (pc[a[1].id] # "idle" /\ req[a[1].id].entry = "rest")

LEMMA PlanOfNew ==
  ASSUME NEW e \in Entries, e # "rest"
  PROVE  Head(Epilogue(e, TRUE)) = "commit"
  BY DEF Epilogue, Entries

LEMMA PlanOfDuplicate == NoAnnounce(Epilogue("rest", FALSE))
  <1>1. NoAnnounce(<<"respond", "commit">>) /\ NoAnnounce(<<"commit", "respond">>)
    BY DEF NoAnnounce
  <1>2. Epilogue("rest", FALSE) \in {<<"respond", "commit">>, <<"commit", "respond">>}
    BY BackendAssumption DEF Epilogue
  <1>3. QED
    BY <1>1, <1>2

LEMMA NoAnnounceTail ==
  ASSUME NEW p \in Seq({"announce", "commit", "respond"}), p # <<>>, NoAnnounce(p)
  PROVE  NoAnnounce(Tail(p)) /\ Head(p) # "announce"
  <1>1. \A i \in DOMAIN Tail(p) : Tail(p)[i] = p[i + 1] /\ i + 1 \in DOMAIN p
    OBVIOUS
  <1>2. 1 \in DOMAIN p /\ Head(p) = p[1]
    OBVIOUS
  <1>3. QED
    BY <1>1, <1>2 DEF NoAnnounce

LEMMA AnnouncePlanStep == IInv /\ AnnouncePlan /\ [Next]_vars => AnnouncePlan'
  <1> SUFFICES ASSUME IInv, AnnouncePlan, [Next]_vars, NEW c \in Calls, pc'[c] = "epilogue"
               PROVE  IF req'[c].entry = "rest"
                        THEN result'[c].id = c \/ NoAnnounce(todo'[c])
                        ELSE staged'[c] # {} => Head(todo'[c]) = "commit"
    BY DEF AnnouncePlan
  <1>0. TypeOK
    BY DEF IInv
  <1>1. CASE pc[c] = "epilogue"
    <2>1. req'[c] = req[c] /\ result'[c] = result[c]
      BY <1>0, <1>1, EpilogueKeeps
    <2>2. CASE todo'[c] = todo[c] /\ staged'[c] = staged[c]
      BY <1>1, <2>1, <2>2 DEF AnnouncePlan
    <2>3. CASE Announce(c) \/ Respond(c) \/ Commit(c)
      <3>1. todo[c] # <<>> /\ todo[c] \in Seq({"announce", "commit", "respond"})
        BY <1>0, <1>1 DEF IInv, Pending, TypeOK
      <3>2. todo'[c] = Tail(todo[c])
        BY <1>0, <2>3 DEF TypeOK, Announce, Respond, Commit, StepDone
      <3>3. staged'[c] = {} \/ (staged'[c] = staged[c] /\ Head(todo[c]) # "commit")
        BY <1>0, <2>3 DEF TypeOK, Announce, Respond, Commit, Persist, AtStep
      <3>4. QED
        BY <1>1, <2>1, <3>1, <3>2, <3>3, NoAnnounceTail DEF AnnouncePlan
    <2>4. CASE CommitFails(c) \/ CommitLost(c)
      BY <1>0, <2>4 DEF TypeOK, CommitFails, CommitLost, Persist
    <2>5. QED
      BY <1>0, <1>1, <2>2, <2>3, <2>4, EpilogueKeeps
  <1>2. CASE pc[c] # "epilogue"
    <2>1. pc[c] \in Critical /\ req' = req
      BY <1>0, <1>2, EpilogueStarts
    <2>2. req[c] \in Request /\ req[c].entry \in Entries
      BY <2>1, RequestFields DEF IInv, Accepted, Running
    <2>3. CASE Return(c, RowOf(c))
      <3>1. result'[c].id = c /\ todo'[c] = Epilogue(req[c].entry, TRUE)
        BY <1>0, <2>3 DEF TypeOK, Return, RowOf
      <3>2. QED
        BY <2>1, <2>2, <3>1, PlanOfNew
    <2>4. ASSUME staged' = staged, pc[c] # "touching", NEW m \in Duplicates(c), Return(c, m)
          PROVE  IF req'[c].entry = "rest"
                   THEN result'[c].id = c \/ NoAnnounce(todo'[c])
                   ELSE staged'[c] # {} => Head(todo'[c]) = "commit"
      <3>1. staged'[c] = {}
        BY <1>2, <2>4 DEF IInv, StagedOwn
      <3>2. result'[c] = m /\ todo'[c] = Epilogue(req[c].entry, m.id = c)
        BY <1>0, <2>4 DEF TypeOK, Return
      <3>3. CASE m.id = c
        BY <2>1, <3>1, <3>2, <3>3
      <3>4. CASE m.id # c
        <4>1. todo'[c] = Epilogue(req[c].entry, FALSE)
          BY <3>2, <3>4
        <4>2. QED
          BY <2>1, <3>1, <4>1, PlanOfDuplicate
      <3>5. QED
        BY <3>3, <3>4
    <2>5. QED
      BY <1>0, <1>2, <2>3, <2>4, EpilogueStarts
  <1>3. QED
    BY <1>1, <1>2

\* A call never goes back to where it could get a request.
LEMMA NeverIdleAgain ==
  ASSUME TypeOK, [Next]_vars, NEW c \in Calls, pc[c] # "idle"
  PROVE  pc'[c] # "idle"
  BY DEF Next, Service, Caller, Arrive, Acquire, FindDuplicate, FindNone, Allocate,
         Flush, Inserted, Touch, FlushConflict, FlushBusy, RecheckDuplicate, RecheckNone,
         Return, Raise,
         Announce, Respond, Commit, CommitFails, CommitLost, Persist, StepDone, Crash,
         vars, TypeOK

LEMMA OnlyAnnounceBroadcasts ==
  ASSUME [Next]_vars
  PROVE  announced' = announced \/ \E c \in Calls : Announce(c)
  BY DEF Next, Service, Caller, Arrive, Acquire, FindDuplicate, FindNone, Allocate,
         Flush, Inserted, Touch, FlushConflict, FlushBusy, RecheckDuplicate, RecheckNone,
         Respond, Commit,
         CommitFails, CommitLost, Persist, Crash, vars

LEMMA SettledStep == IInv /\ AnnouncePlan /\ Settled /\ [Next]_vars => Settled'
  <1> SUFFICES ASSUME IInv, AnnouncePlan, Settled, [Next]_vars, NEW a \in announced'
               PROVE  \/ a[1] \in messages'
                      \/ pc'[a[1].id] # "idle" /\ req'[a[1].id].entry = "rest"
    BY DEF Settled
  <1>0. TypeOK
    BY DEF IInv
  <1>1. messages \subseteq messages'
    BY <1>0, TableGrows
  <1>2. CASE a \in announced
    <2>1. a[1].id \in Calls
      BY <1>0, <1>2 DEF TypeOK, Message
    <2>2. QED
      BY <1>0, <1>1, <1>2, <2>1, NeverIdleAgain, RequestKept DEF Settled
  <1>3. ASSUME NEW c \in Calls, Announce(c), a \notin announced
        PROVE  a[1] \in messages \/ (a[1].id = c /\ req[c].entry = "rest" /\ pc[c] # "idle")
    <2>1. a[1] = result[c] /\ pc[c] = "epilogue" /\ Head(todo[c]) = "announce"
      BY <1>3 DEF Announce, AtStep
    <2>2. todo[c] # <<>> /\ todo[c] \in Seq({"announce", "commit", "respond"})
      BY <1>0, <2>1 DEF IInv, Pending, TypeOK
    <2>3. CASE req[c].entry = "rest"
      BY <2>1, <2>2, <2>3, NoAnnounceTail DEF AnnouncePlan
    <2>4. CASE req[c].entry # "rest"
      BY <2>1, <2>4 DEF AnnouncePlan, IInv, Pending
    <2>5. QED
      BY <2>3, <2>4
  <1>4. QED
    BY <1>0, <1>1, <1>2, <1>3, OnlyAnnounceBroadcasts, NeverIdleAgain, RequestKept

\* Whatever is broadcast is stored, unless a REST call is still to commit it.
THEOREM AnnouncedIsStoredAlways == Spec => []AnnouncedIsStored
  <1>1. Init => AnnouncePlan /\ Settled
    BY DEF Init, AnnouncePlan, Settled
  <1>2. IInv /\ AnnouncePlan /\ Settled /\ [Next]_vars => (AnnouncePlan /\ Settled)'
    BY AnnouncePlanStep, SettledStep
  <1>3. Settled => AnnouncedIsStored
    BY DEF Settled, AnnouncedIsStored
  <1>4. QED
    BY <1>1, <1>2, <1>3, Invariance, PTL DEF Spec
===============================================================================
