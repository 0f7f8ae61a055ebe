------------------------- MODULE MessageService_waits -------------------------
(***************************************************************************)
(* Who holds what, who waits for whom, and what an error tells: proofs     *)
(* about the locks of the workers and the ways a call of send_message      *)
(* fails, for every set of calls, workers and conversations.               *)
(***************************************************************************)
EXTENDS MessageService_refinement

\* A lock is held by a call inside its block, and by one of its own key.
LockHeld ==
  \A p \in Workers \X Convs : lock[p] # None =>
     pc[lock[p]] \in Critical /\ LockOf(lock[p]) = p
\* A call inside the block holds the lock.
Holds == \A c \in Calls : pc[c] \in Critical => lock[LockOf(c)] = c
LockInv == LockHeld /\ Holds

\* A step of a call that is in the block, and stays in it with the lock.
LEMMA StaysInside ==
  ASSUME TypeOK, LockInv, NEW c \in Calls, NEW s \in Critical, pc[c] \in Critical,
         pc' = [pc EXCEPT ![c] = s], lock' = lock, req' = req
  PROVE  LockInv'
  BY DEF LockInv, LockHeld, Holds, LockOf, TypeOK

\* A step that leaves the block, with a result or an exception.
LEMMA LeavesBlock ==
  ASSUME TypeOK, LockInv, NEW c \in Calls, NEW s, s \notin Critical, pc[c] \in Critical,
         pc' = [pc EXCEPT ![c] = s], req[c] \in Request, Release(c), req' = req
  PROVE  LockInv'
  <1>1. LockOf(c) \in Workers \X Convs /\ lock[LockOf(c)] = c
    BY RequestFields DEF LockInv, Holds
  <1>2. ASSUME NEW p \in Workers \X Convs, lock'[p] # None
        PROVE  pc'[lock'[p]] \in Critical /\ (LockOf(lock[p]) = p)'
    <2>1. p # LockOf(c) /\ lock'[p] = lock[p]
      BY <1>1, <1>2 DEF Release, TypeOK
    <2>2. pc[lock[p]] \in Critical /\ LockOf(lock[p]) = p /\ lock[p] \in Calls
      BY <1>2, <2>1 DEF LockInv, LockHeld, TypeOK
    <2>3. lock[p] # c
      BY <2>1, <2>2
    <2>4. QED
      BY <2>1, <2>2, <2>3 DEF TypeOK, LockOf
  <1>3. ASSUME NEW d \in Calls, pc'[d] \in Critical  PROVE (lock[LockOf(d)] = d)'
    <2>1. d # c /\ pc[d] = pc'[d]
      BY <1>3 DEF TypeOK
    <2>2. lock[LockOf(d)] = d
      BY <1>3, <2>1 DEF LockInv, Holds
    <2>3. LockOf(d) # LockOf(c)
      BY <1>1, <2>1, <2>2
    <2>4. LockOf(d)' = LockOf(d)
      BY DEF LockOf
    <2>5. lock'[LockOf(d)] = lock[LockOf(d)]
      BY <2>3 DEF Release, TypeOK
    <2>6. QED
      BY <2>2, <2>4, <2>5
  <1>4. QED
    BY <1>2, <1>3 DEF LockInv, LockHeld, Holds

\* A step of a call outside the block that takes no lock.
LEMMA StaysOutside ==
  ASSUME TypeOK, LockInv, NEW c \in Calls, pc[c] \notin Critical, pc'[c] \notin Critical,
         \A d \in Calls \ {c} : pc'[d] = pc[d] /\ req'[d] = req[d], lock' = lock
  PROVE  LockInv'
  <1>1. ASSUME NEW d \in Calls \ {c}  PROVE pc'[d] = pc[d] /\ LockOf(d)' = LockOf(d)
    BY DEF LockOf
  <1>2. ASSUME NEW p \in Workers \X Convs, lock'[p] # None
        PROVE  pc'[lock'[p]] \in Critical /\ (LockOf(lock[p]) = p)'
    <2>1. pc[lock[p]] \in Critical /\ LockOf(lock[p]) = p /\ lock[p] \in Calls
      BY <1>2 DEF LockInv, LockHeld, TypeOK
    <2>2. lock[p] # c
      BY <2>1
    <2>3. pc'[lock[p]] = pc[lock[p]] /\ req'[lock[p]] = req[lock[p]]
      BY <2>1, <2>2
    <2>4. QED
      BY <2>1, <2>3 DEF LockOf
  <1>3. ASSUME NEW d \in Calls, pc'[d] \in Critical  PROVE (lock[LockOf(d)] = d)'
    BY <1>1, <1>3 DEF LockInv, Holds
  <1>4. QED
    BY <1>2, <1>3 DEF LockInv, LockHeld, Holds

LEMMA LockStep == IInv /\ LockInv /\ [Next]_vars => LockInv'
  <1> SUFFICES ASSUME IInv, LockInv, [Next]_vars  PROVE LockInv'
    OBVIOUS
  <1>0. TypeOK
    BY DEF IInv
  <1>a. ASSUME NEW c \in Calls, pc[c] \in Running  PROVE req[c] \in Request
    BY <1>a DEF IInv, Accepted
  <1>b. Critical \subseteq Running /\ Critical \cap Ended = {}
        /\ Critical \cap {"idle", "locking", "epilogue"} = {}
    BY DEF Running, Critical, Ended
  <1>1. ASSUME NEW c \in Calls, Arrive(c)  PROVE LockInv'
    <2>1. pc[c] \notin Critical /\ pc'[c] \notin Critical
      BY <1>0, <1>1 DEF Arrive, TypeOK, Critical
    <2>2. \A d \in Calls \ {c} : pc'[d] = pc[d] /\ req'[d] = req[d]
      BY <1>0, <1>1 DEF Arrive, TypeOK
    <2>3. QED
      BY <1>0, <1>1, <2>1, <2>2, StaysOutside DEF Arrive
  <1>2. ASSUME NEW c \in Calls, Acquire(c)  PROVE LockInv'
    <2>1. LockOf(c) \in Workers \X Convs
      BY <1>2, <1>a, RequestFields DEF Acquire, Running
    <2>2. /\ pc' = [pc EXCEPT ![c] = "checking"] /\ lock' = [lock EXCEPT ![LockOf(c)] = c]
          /\ lock[LockOf(c)] = None /\ pc[c] = "locking"
      BY <1>2 DEF Acquire
    <2>3. \A d \in Calls : LockOf(d)' = LockOf(d)
      BY <1>2 DEF Acquire, LockOf
    <2>4. ASSUME NEW p \in Workers \X Convs, lock'[p] # None
          PROVE  pc'[lock'[p]] \in Critical /\ (LockOf(lock[p]) = p)'
      <3>1. CASE p = LockOf(c)
        <4>1. lock'[p] = c /\ pc'[c] \in Critical
          BY <1>0, <2>1, <2>2, <3>1 DEF TypeOK, Critical
        <4>2. QED
          BY <2>3, <3>1, <4>1
      <3>2. CASE p # LockOf(c)
        <4>1. lock'[p] = lock[p]
          BY <1>0, <2>1, <2>2, <3>2 DEF TypeOK
        <4>2. pc[lock[p]] \in Critical /\ LockOf(lock[p]) = p /\ lock[p] \in Calls
          BY <1>0, <2>4, <4>1 DEF LockInv, LockHeld, TypeOK
        <4>3. pc'[lock[p]] = pc[lock[p]]
          BY <1>0, <1>b, <2>2, <4>2 DEF TypeOK
        <4>4. QED
          BY <2>3, <4>1, <4>2, <4>3
      <3>3. QED
        BY <3>1, <3>2
    <2>5. ASSUME NEW d \in Calls, pc'[d] \in Critical  PROVE (lock[LockOf(d)] = d)'
      <3>1. CASE d = c
        BY <1>0, <2>1, <2>2, <2>3, <3>1 DEF TypeOK
      <3>2. CASE d # c
        <4>1. lock[LockOf(d)] = d
          BY <1>0, <2>2, <2>5, <3>2 DEF LockInv, Holds, TypeOK
        <4>2. LockOf(d) # LockOf(c)
          BY <2>2, <4>1, NoneAssumption
        <4>3. lock'[LockOf(d)] = lock[LockOf(d)]
          BY <1>0, <2>2, <4>2 DEF TypeOK
        <4>4. QED
          BY <2>3, <4>1, <4>3
      <3>3. QED
        BY <3>1, <3>2
    <2>6. QED
      BY <2>4, <2>5 DEF LockInv, LockHeld, Holds
  <1>3. ASSUME NEW c \in Calls, FindNone(c) \/ Allocate(c) \/ FlushConflict(c)
        PROVE  LockInv'
    <2>1. PICK s \in Critical : pc' = [pc EXCEPT ![c] = s]
      BY <1>3 DEF FindNone, Allocate, FlushConflict, Critical
    <2>2. pc[c] \in Critical /\ lock' = lock /\ req' = req
      BY <1>3 DEF FindNone, Allocate, FlushConflict, Critical
    <2>3. QED
      BY <1>0, <2>1, <2>2, StaysInside
  <1>4. ASSUME NEW c \in Calls, NEW m, Return(c, m), pc[c] \in Critical, req' = req
        PROVE  LockInv'
    BY <1>0, <1>4, <1>a, <1>b, LeavesBlock DEF Return
  <1>5. ASSUME NEW c \in Calls, NEW s \in Ended, Raise(c, s), pc[c] \in Critical, req' = req
        PROVE  LockInv'
    BY <1>0, <1>5, <1>a, <1>b, LeavesBlock DEF Raise
  <1>6. ASSUME NEW c \in Calls, FindDuplicate(c) \/ Flush(c) \/ Touch(c)  PROVE LockInv'
    <2>1. pc[c] \in Critical /\ req' = req
      BY <1>6 DEF FindDuplicate, Flush, Touch, Critical
    <2>2. CASE \E m : Return(c, m)
      BY <2>1, <2>2, <1>4
    <2>3. CASE pc' = [pc EXCEPT ![c] = "touching"] /\ lock' = lock
      <3>1. "touching" \in Critical
        BY DEF Critical
      <3>2. QED
        BY <1>0, <2>1, <2>3, <3>1, StaysInside
    <2>4. QED
      BY <1>6, <2>2, <2>3 DEF FindDuplicate, Flush, Inserted, Touch
  <1>7. ASSUME NEW c \in Calls, RecheckDuplicate(c)  PROVE LockInv'
    <2>1. pc[c] \in Critical /\ req' = req
      BY <1>7 DEF RecheckDuplicate, Critical
    <2>2. Raise(c, "expired") \/ \E m : Return(c, m)
      BY <1>7 DEF RecheckDuplicate
    <2>3. "expired" \in Ended
      BY DEF Ended
    <2>4. QED
      BY <2>1, <2>2, <2>3, <1>4, <1>5
  <1>8. ASSUME NEW c \in Calls, FlushBusy(c) \/ RecheckNone(c)  PROVE LockInv'
    <2>1. pc[c] \in Critical /\ req' = req /\ (Raise(c, "busy") \/ Raise(c, "conflict"))
      BY <1>8 DEF FlushBusy, RecheckNone, Critical
    <2>2. {"busy", "conflict"} \subseteq Ended
      BY DEF Ended
    <2>3. QED
      BY <2>1, <2>2, <1>5
  <1>9. ASSUME NEW c \in Calls, Caller(c)  PROVE LockInv'
    <2>1. pc[c] = "epilogue" /\ lock' = lock /\ req' = req
      BY <1>9 DEF Caller, Announce, Respond, Commit, CommitFails, CommitLost, Persist,
             AtStep
    <2>2. pc'[c] \in {"epilogue", "done", "aborted"} /\ \A d \in Calls \ {c} : pc'[d] = pc[d]
      BY <1>0, <1>9, <2>1 DEF Caller, Announce, Respond, Commit, CommitFails, CommitLost,
             Persist, StepDone, TypeOK
    <2>3. pc[c] \notin Critical /\ pc'[c] \notin Critical
      BY <2>1, <2>2 DEF Critical
    <2>4. QED
      BY <1>0, <2>1, <2>2, <2>3, StaysOutside
  <1>10. ASSUME NEW w \in Workers, Crash(w)  PROVE LockInv'
    <2>1. /\ \A p \in Workers \X Convs : lock'[p] = IF p[1] = w THEN None ELSE lock[p]
          /\ \A d \in Calls : pc'[d] = IF pc[d] \in Running /\ req[d].worker = w
                                         THEN "crashed" ELSE pc[d]
          /\ req' = req
      BY <1>10 DEF Crash
    <2>2. \A d \in Calls : LockOf(d)' = LockOf(d) /\ LockOf(d)[1] = req[d].worker
      BY <2>1 DEF LockOf
    <2>3. ASSUME NEW p \in Workers \X Convs, lock'[p] # None
          PROVE  pc'[lock'[p]] \in Critical /\ (LockOf(lock[p]) = p)'
      <3>1. lock'[p] = lock[p] /\ p[1] # w
        BY <2>1, <2>3
      <3>2. pc[lock[p]] \in Critical /\ LockOf(lock[p]) = p /\ lock[p] \in Calls
        BY <1>0, <2>3, <3>1 DEF LockInv, LockHeld, TypeOK
      <3>3. pc'[lock[p]] = pc[lock[p]]
        BY <2>1, <2>2, <3>1, <3>2
      <3>4. QED
        BY <2>2, <3>1, <3>2, <3>3
    <2>4. ASSUME NEW d \in Calls, pc'[d] \in Critical  PROVE (lock[LockOf(d)] = d)'
      <3>1. "crashed" \notin Critical
        BY DEF Critical
      <3>2. pc[d] \in Critical /\ req[d].worker # w
        BY <1>b, <2>1, <2>4, <3>1
      <3>3. LockOf(d) \in Workers \X Convs /\ lock[LockOf(d)] = d
        BY <1>a, <1>b, <3>2, RequestFields DEF LockInv, Holds
      <3>4. QED
        BY <2>1, <2>2, <3>2, <3>3
    <2>5. QED
      BY <2>3, <2>4 DEF LockInv, LockHeld, Holds
  <1>11. CASE UNCHANGED vars
    BY <1>11 DEF vars, LockInv, LockHeld, Holds, LockOf
  <1>12. QED
    BY <1>1, <1>2, <1>3, <1>6, <1>7, <1>8, <1>9, <1>10, <1>11 DEF Next, Service

\* The locks are sound: whoever is in a lock's block holds it, and it is free
\* otherwise, whatever errors are raised in the block and whatever workers die.
THEOREM LocksSound == Spec => []LockInv
  <1>1. Init => LockInv
    BY DEF Init, LockInv, LockHeld, Holds, Critical
  <1>2. QED
    BY <1>1, LockStep, Invariance, PTL DEF Spec

\* Two calls of one worker are never both between the duplicate check and the
\* flush of one conversation.
THEOREM MutualExclusion ==
  Spec => [](\A c, d \in Calls :
               pc[c] \in Critical /\ pc[d] \in Critical /\ LockOf(c) = LockOf(d) => c = d)
  <1>1. LockInv => \A c, d \in Calls :
               pc[c] \in Critical /\ pc[d] \in Critical /\ LockOf(c) = LockOf(d) => c = d
    BY DEF LockInv, Holds
  <1>2. QED
    BY <1>1, LocksSound, PTL

\* On the single-writer database at most one transaction has written.
OneWriter ==
  SingleWriter => \A c, d \in Calls : staged[c] # {} /\ staged[d] # {} => c = d

LEMMA OneWriterStep == IInv /\ OneWriter /\ [Next]_vars => OneWriter'
  <1> SUFFICES ASSUME IInv, OneWriter, [Next]_vars, SingleWriter,
                      NEW c \in Calls, NEW d \in Calls, staged'[c] # {}, staged'[d] # {}
               PROVE  c = d
    BY DEF OneWriter
  <1>0. TypeOK
    BY DEF IInv
  <1>1. CASE \A e \in Calls : staged'[e] \subseteq staged[e]
    BY <1>1 DEF OneWriter
  <1>2. ASSUME NEW e \in Calls, Flush(e)  PROVE c = d
    <2>1. \A f \in Calls \ {e} : staged[f] = {}
      BY <1>2 DEF Flush, Blocked, Blockers
    <2>2. \A f \in Calls \ {e} : staged'[f] = staged[f]
      BY <1>0, <1>2 DEF Flush, TypeOK
    <2>3. QED
      BY <2>1, <2>2
  <1>3. QED
    BY <1>0, <1>1, <1>2, StagedChange

WInv == IInv /\ LockInv /\ OneWriter

THEOREM WInvariance == Spec => []WInv
  <1>1. Init => WInv
    BY InvInit DEF Init, WInv, LockInv, LockHeld, Holds, Critical, OneWriter
  <1>2. WInv /\ [Next]_vars => WInv'
    BY InvStep, LockStep, OneWriterStep DEF WInv
  <1>3. QED
    BY <1>1, <1>2, PTL DEF Spec

\* A call that has inserted its row, and is past its flush, waits for nobody.
LEMMA WriterFree ==
  ASSUME NEW d \in Calls, pc[d] = "epilogue", staged[d] # {}
  PROVE  WaitsFor(d) = {}
  BY DEF WaitsFor, TouchesLate

\* A call that waits in its flush for its session's row waits for such calls.
LEMMA TouchWaits ==
  ASSUME WInv, NEW c \in Calls, pc[c] = "touching", NEW d \in WaitsFor(c)
  PROVE  d \in Calls /\ pc[d] = "epilogue" /\ WaitsFor(d) = {}
  <1>1. d \in TouchBlockers(c)
    BY DEF WaitsFor, AtStep
  <1>2. d \in Calls /\ d # c
    BY <1>1 DEF TouchBlockers
  <1>3. ~(SingleWriter /\ staged[d] # {})
    <2>1. staged[c] # {}
      BY DEF WInv, IInv, StagedOwn
    <2>2. QED
      BY <1>2, <2>1 DEF WInv, OneWriter
  <1>4. HoldsSession(d)
    BY <1>1, <1>3 DEF TouchBlockers
  <1>5. QED
    BY <1>2, <1>4, WriterFree DEF HoldsSession

\* A call whose flush or late COMMIT waits, waits for calls that have a row.
LEMMA RowWaits ==
  ASSUME WInv, NEW c \in Calls, pc[c] \in {"flushing", "epilogue"}, NEW d \in WaitsFor(c)
  PROVE  /\ d \in Calls /\ pc[d] \in {"touching", "epilogue"}
         /\ pc[d] = "epilogue" => WaitsFor(d) = {}
  <1>1. d \in Blockers(c) \/ d \in TouchBlockers(c)
    BY DEF WaitsFor
  <1>2. d \in Calls /\ staged[d] # {}
    BY <1>1 DEF Blockers, TouchBlockers, HoldsSession
  <1>3. pc[d] \in {"touching", "epilogue"}
    BY <1>2 DEF WInv, IInv, StagedOwn
  <1>4. QED
    BY <1>2, <1>3, WriterFree

\* A call that waits for its worker's lock waits for one in the lock's block.
LEMMA LockWaits ==
  ASSUME WInv, NEW c \in Calls, pc[c] = "locking", NEW d \in WaitsFor(c)
  PROVE  d \in Calls /\ pc[d] \in Critical
  <1>1. d = lock[LockOf(c)] /\ d # None
    BY DEF WaitsFor, AtStep
  <1>2. req[c] \in Request
    BY DEF WInv, IInv, Accepted, Running
  <1>3. LockOf(c) \in Workers \X Convs
    BY <1>2, RequestFields
  <1>4. QED
    BY <1>1, <1>3 DEF WInv, IInv, TypeOK, LockInv, LockHeld

LEMMA OthersFree ==
  ASSUME NEW c \in Calls, pc[c] \notin {"locking", "flushing", "touching", "epilogue"}
  PROVE  WaitsFor(c) = {}
  BY DEF WaitsFor, AtStep

\* Locks, unique keys and session rows make no circle of waiting calls: a set
\* whose members all wait inside it has no member that waits for its session's
\* row in its flush, so none that waits for a row, so none that waits for a lock.
THEOREM NoCircularWaitAlways == Spec => []NoCircularWait
  <1>1. ASSUME WInv, NEW c \in Calls, NEW d \in WaitsFor(c)  PROVE pc[d] \in Running
    BY <1>1, TouchWaits, RowWaits, LockWaits, OthersFree DEF Running, Critical
  <1>2. ASSUME WInv, NEW S \in SUBSET Calls, \A c \in S : WaitsFor(c) \cap S # {}
        PROVE  S = {}
    <2>1. \A c \in S : WaitsFor(c) # {}
      BY <1>2
    <2>2. \A c \in S : pc[c] # "touching"
      BY <1>2, <2>1, TouchWaits
    <2>3. \A c \in S : pc[c] \notin {"flushing", "epilogue"}
      BY <1>2, <2>1, <2>2, RowWaits
    <2>4. \A c \in S : pc[c] # "locking"
      <3>1. \A c \in S : pc[c] \notin Critical
        BY <2>1, <2>2, <2>3, OthersFree DEF Critical
      <3>2. QED
        BY <1>2, <3>1, LockWaits
    <2>5. QED
      BY <2>1, <2>2, <2>3, <2>4, OthersFree
  <1>3. WInv => NoCircularWait
    BY <1>1, <1>2 DEF NoCircularWait
  <1>4. QED
    BY <1>3, WInvariance, PTL

-------------------------------------------------------------------------------
Failed == {"refused", "conflict", "busy", "expired"}
\* No row of a call that failed before its COMMIT is stored.
FailedClean == \A c \in Calls : pc[c] \in Failed => \A m \in messages : m.id # c
\* A call that looks again, or gave up, has met a committed row in its way.
Obstructed ==
  \A c \in Calls : /\ pc[c] = "rechecking" => \E m \in messages : Clash(m, RowOf(c))
                   /\ pc[c] = "expired" => Duplicates(c) # {}
                   /\ pc[c] = "conflict" => \E m \in messages : /\ Clash(m, RowOf(c))
                                                               /\ m.cid # req[c].cid

\* What a commit adds to the table is the row of a call in its epilogue.
LEMMA NewRowOf ==
  ASSUME IInv, [Next]_vars, NEW m \in messages', m \notin messages
  PROVE  m.id \in Calls /\ pc[m.id] = "epilogue"
  <1>1. PICK c \in Calls : /\ Persist(c) /\ (Commit(c) \/ CommitLost(c))
                           /\ m \in staged[c]
    BY OnlyCommitWrites DEF Persist, tables
  <1>2. pc[c] = "epilogue"
    BY <1>1 DEF Commit, CommitLost, AtStep
  <1>3. m.id = c
    BY <1>1, <1>2, StagedResult
  <1>4. QED
    BY <1>2, <1>3

\* A call in its epilogue is answered, or its COMMIT raises, or its worker dies.
LEMMA EpilogueEnds ==
  ASSUME TypeOK, [Next]_vars, NEW c \in Calls, pc[c] = "epilogue"
  PROVE  pc'[c] \in {"epilogue", "done", "aborted", "crashed"}
  <1>1. CASE Announce(c) \/ Respond(c) \/ Commit(c)
    BY <1>1 DEF Announce, Respond, Commit, StepDone, TypeOK
  <1>2. CASE CommitFails(c) \/ CommitLost(c)
    BY <1>2 DEF CommitFails, CommitLost, TypeOK
  <1>3. QED
    BY <1>1, <1>2, EpilogueKeeps

LEMMA FailedCleanStep == FInv /\ FailedClean /\ [Next]_vars => FailedClean'
  <1> SUFFICES ASSUME FInv, FailedClean, [Next]_vars, NEW c \in Calls, pc'[c] \in Failed,
                      NEW m \in messages', m.id = c
               PROVE  FALSE
    BY DEF FailedClean
  <1>0. IInv /\ TypeOK
    BY DEF FInv, IInv
  <1>1. pc[c] # "epilogue"
    BY <1>0, EpilogueEnds DEF Failed
  <1>2. m \in messages
    BY <1>0, <1>1, NewRowOf
  <1>3. pc[c] \in Ended
    BY <1>1, <1>2 DEF FInv, RowsOwn
  <1>4. QED
    BY <1>0, <1>2, <1>3, ReturnedKeeps DEF FailedClean

\* How a call comes to look again, and how it gives up after it; meanwhile its
\* row stays as computed.
LEMMA ObstructedStarts ==
  ASSUME TypeOK, [Next]_vars, NEW c \in Calls, pc'[c] \in {"rechecking", "expired", "conflict"}
  PROVE  /\ pc[c] # "idle" /\ next'[c] = next[c]
         /\ \/ pc'[c] = pc[c]
            \/ FlushConflict(c) /\ pc'[c] = "rechecking"
            \/ RecheckDuplicate(c) /\ pc'[c] = "expired"
            \/ RecheckNone(c) /\ pc'[c] = "conflict"
  <1>1. ASSUME NEW d \in Calls, Arrive(d) \/ Acquire(d)
                 \/ FindDuplicate(d) \/ FindNone(d) \/ Allocate(d) \/ Flush(d) \/ Touch(d)
                 \/ FlushBusy(d)
        PROVE  pc[c] # "idle" /\ next'[c] = next[c] /\ pc'[c] = pc[c]
    BY <1>1 DEF TypeOK, Arrive, Acquire, FindDuplicate, FindNone, Allocate, Flush,
           Inserted, Touch,
           FlushBusy, Return, Raise
  <1>2. ASSUME NEW d \in Calls, FlushConflict(d)
        PROVE  /\ pc[c] # "idle" /\ next'[c] = next[c]
               /\ pc'[c] = pc[c] \/ (FlushConflict(c) /\ pc'[c] = "rechecking")
    BY <1>2 DEF TypeOK, FlushConflict
  <1>3. ASSUME NEW d \in Calls, RecheckDuplicate(d)
        PROVE  /\ pc[c] # "idle" /\ next'[c] = next[c]
               /\ pc'[c] = pc[c] \/ (RecheckDuplicate(c) /\ pc'[c] = "expired")
    BY <1>3 DEF TypeOK, RecheckDuplicate, Return, Raise
  <1>4. ASSUME NEW d \in Calls, RecheckNone(d)
        PROVE  /\ pc[c] # "idle" /\ next'[c] = next[c]
               /\ pc'[c] = pc[c] \/ (RecheckNone(c) /\ pc'[c] = "conflict")
    BY <1>4 DEF TypeOK, RecheckNone, Raise
  <1>5. ASSUME NEW d \in Calls, Caller(d)
        PROVE  pc[c] # "idle" /\ next'[c] = next[c] /\ pc'[c] = pc[c]
    BY <1>5 DEF TypeOK, Caller, Announce, Respond, Commit, CommitFails, CommitLost,
           Persist, StepDone, AtStep
  <1>6. ASSUME NEW w \in Workers, Crash(w)
        PROVE  pc[c] # "idle" /\ next'[c] = next[c] /\ pc'[c] = pc[c]
    BY <1>6 DEF TypeOK, Crash
  <1>7. CASE UNCHANGED vars
    BY <1>7 DEF vars
  <1>8. QED
    BY <1>1, <1>2, <1>3, <1>4, <1>5, <1>6, <1>7 DEF Next, Service

LEMMA ObstructedStep == IInv /\ Obstructed /\ [Next]_vars => Obstructed'
  <1> SUFFICES ASSUME IInv, Obstructed, [Next]_vars, NEW c \in Calls,
                      pc'[c] \in {"rechecking", "expired", "conflict"}
               PROVE  /\ pc'[c] = "rechecking" => \E m \in messages' : Clash(m, RowOf(c)')
                      /\ pc'[c] = "expired" => Duplicates(c)' # {}
                      /\ pc'[c] = "conflict" => \E m \in messages' : /\ Clash(m, RowOf(c)')
                                                                    /\ m.cid # req'[c].cid
    BY DEF Obstructed
  <1>0. TypeOK
    BY DEF IInv
  <1>1. messages \subseteq messages'
    BY TableGrows
  <1>2. pc[c] # "idle" /\ req'[c] = req[c] /\ next'[c] = next[c]
    BY <1>0, ObstructedStarts, RequestKept
  <1>3. RowOf(c)' = RowOf(c)
    BY <1>2 DEF RowOf
  <1>4. Duplicates(c) \subseteq Duplicates(c)'
    BY <1>1, <1>2 DEF Duplicates
  <1>5. CASE pc'[c] = pc[c]
    BY <1>1, <1>2, <1>3, <1>4, <1>5 DEF Obstructed
  <1>6. CASE FlushConflict(c) /\ pc'[c] = "rechecking"
    BY <1>1, <1>3, <1>6 DEF FlushConflict
  <1>7. CASE RecheckDuplicate(c) /\ pc'[c] = "expired"
    BY <1>4, <1>7 DEF RecheckDuplicate
  <1>8. CASE RecheckNone(c) /\ pc'[c] = "conflict"
    <2>1. PICK m \in messages : Clash(m, RowOf(c))
      BY <1>8 DEF RecheckNone, Obstructed
    <2>2. m.conv = req[c].conv
      BY <2>1 DEF Clash, RowOf
    <2>3. m.cid # req[c].cid
      BY <1>8, <2>2 DEF RecheckNone, Duplicates
    <2>4. QED
      BY <1>1, <1>2, <1>3, <1>8, <2>1, <2>3
  <1>9. QED
    BY <1>0, <1>5, <1>6, <1>7, <1>8, ObstructedStarts

\* The row that a COMMIT stored before it raised is the answer of every call
\* that asked for the same message and was answered.
LEMMA AbortedAnswer ==
  ASSUME FInv, NEW c \in Calls, pc[c] = "aborted", NEW m \in messages, m.id = c,
         NEW d \in Calls, pc[d] = "done",
         req[d].conv = req[c].conv, req[d].cid = req[c].cid
  PROVE  result[d] = m
  <1>1. m = result[c] /\ m.conv = req[c].conv /\ m.cid = req[c].cid
    BY DEF FInv, RowsOwn, IInv, ReturnedOwn
  <1>2. result[d] \in messages /\ result[d].conv = req[d].conv /\ result[d].cid = req[d].cid
    BY DEF FInv, IInv, AnsweredIsStored, ReturnedOwn
  <1>3. Clash(result[d], m)
    BY <1>1, <1>2 DEF Clash
  <1>4. QED
    BY <1>2, <1>3 DEF FInv, IInv, UniqueRows

\* An error answer tells the truth: unless a COMMIT raised, nothing of the call
\* is stored, and what it lost against is; a row whose COMMIT raised is not
\* stored twice by a retry.
THEOREM FailuresExplainedAlways == Spec => []FailuresExplained
  <1>1. Init => FailedClean /\ Obstructed
    BY DEF Init, FailedClean, Obstructed, Failed
  <1>2. FInv /\ FailedClean /\ Obstructed /\ [Next]_vars => (FailedClean /\ Obstructed)'
    BY FailedCleanStep, ObstructedStep DEF FInv
  <1>3. FInv /\ FailedClean /\ Obstructed => FailuresExplained
    <2> SUFFICES ASSUME FInv, FailedClean, Obstructed, NEW c \in Calls
                 PROVE  /\ pc[c] \in Failed => staged[c] = {} /\ \A m \in messages : m.id # c
                        /\ pc[c] = "expired" => Duplicates(c) # {}
                        /\ pc[c] = "conflict" =>
                             \E m \in messages : /\ m.conv = req[c].conv /\ m.seq = next[c]
                                                 /\ m.cid # req[c].cid
                        /\ pc[c] = "aborted" =>
                             /\ staged[c] = {}
                             /\ \A m \in messages, d \in Calls :
                                  /\ m.id = c /\ pc[d] = "done"
                                  /\ req[d].conv = req[c].conv /\ req[d].cid = req[c].cid
                                  => result[d] = m
      BY DEF FailuresExplained, Failed
    <2>1. pc[c] \in Failed \cup {"aborted"} => staged[c] = {}
      BY DEF FInv, IInv, StagedOwn, Failed
    <2>2. ASSUME pc[c] = "conflict"
          PROVE  \E m \in messages : /\ m.conv = req[c].conv /\ m.seq = next[c]
                                     /\ m.cid # req[c].cid
      BY <2>2 DEF Obstructed, Clash, RowOf
    <2>3. QED
      BY <2>1, <2>2, AbortedAnswer DEF FailedClean, Obstructed
  <1>4. QED
    BY <1>1, <1>2, <1>3, FInvariance, PTL DEF Spec
===============================================================================
