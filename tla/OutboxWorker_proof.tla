-------------------------- MODULE OutboxWorker_proof --------------------------
(***************************************************************************)
(* Proofs about OutboxWorker for every set of events, workers and          *)
(* integrations, every batch size and retry limit, and any number of       *)
(* faults and administrator's retries.                                     *)
(*                                                                         *)
(* That a dead letter had max_retries dispatches is not plain: workers     *)
(* write counts computed from old snapshots, and a worker that fails to    *)
(* process reads the count again before it adds its own.  Each count, in   *)
(* the table or in a snapshot, plus the number of workers that have        *)
(* dispatched the event and not accounted for it yet, stays within the     *)
(* number of dispatches since the event was opened and of its COMMITs that *)
(* took effect and raised; but for an event opened again in a worker's     *)
(* hands, which that worker may charge with its old count.                 *)
(***************************************************************************)
EXTENDS OutboxWorker, FiniteSetTheorems, TLAPS

\* The workers that have dispatched e and still have to write its outcome.
Busy(e) == {w \in Workers : pc[w] \in {"routing", "raised", "marking"} /\ Current(w) = e}
Bound(e, n) == Charged(e) = MaxRetries \/ n + Cardinality(Busy(e)) <= Charged(e)
Counted ==
  \A e \in Events :
     /\ Bound(e, row[e].retry)
     /\ \A w \in Workers : seen[w][e] # None => Bound(e, seen[w][e].retry)
\* A worker at work has an event in hand.
InHand == \A w \in Workers : pc[w] # "idle" => Batch(w) # {}
\* Only a routing worker has marks, and a success it noted has arrived.
MarksTrue ==
  \A w \in Workers :
     /\ pc[w] # "routing" => marks[w] = {}
     /\ \A t \in Targets : <<t, "delivered">> \in marks[w] => <<Current(w), t>> \in received

OutboxInv ==
  /\ TypeOK /\ InHand /\ MarksTrue /\ Counted
  /\ DeliveredArrived /\ DeadLetterEarned

-------------------------------------------------------------------------------
LEMMA OldestIn ==
  ASSUME NEW S \in SUBSET Events, S # {}
  PROVE  Oldest(S) \in S /\ \A d \in S : Oldest(S) <= d
  BY OldestAssumption DEF Oldest

LEMMA OldestAlone ==
  ASSUME NEW e \in Events
  PROVE  Oldest({e}) = e
  BY OldestIn

LEMMA CurrentIn ==
  ASSUME OutboxInv, NEW w \in Workers, pc[w] # "idle"
  PROVE  /\ Current(w) \in Events /\ Current(w) \in Batch(w)
         /\ seen[w][Current(w)] \in Snapshot /\ seen[w][Current(w)] # None
  <1>1. Batch(w) # {} /\ Batch(w) \in SUBSET Events
    BY DEF OutboxInv, InHand, Batch
  <1>2. Current(w) \in Batch(w)
    BY <1>1, OldestIn DEF Current
  <1>3. QED
    BY <1>2 DEF Batch, OutboxInv, TypeOK

LEMMA SameCurrent ==
  ASSUME NEW w, seen'[w] = seen[w]
  PROVE  Batch(w)' = Batch(w) /\ Current(w)' = Current(w)
  BY DEF Batch, Current

LEMMA BusyFinite ==
  ASSUME NEW e
  PROVE  IsFiniteSet(Busy(e)) /\ Cardinality(Busy(e)) \in Nat
  <1>1. Busy(e) \in SUBSET Workers
    BY DEF Busy
  <1>2. IsFiniteSet(Busy(e))
    BY <1>1, WorkersAssumption, FS_Subset
  <1>3. QED
    BY <1>2, FS_CardinalityType

\* What an event may be charged with: at most MaxRetries, which is what a dead
\* letter needs.
LEMMA ChargedType ==
  ASSUME TypeOK, NEW e \in Events
  PROVE  /\ Charged(e) \in 0..MaxRetries /\ MaxRetries \in Nat
         /\ Charged(e) = MaxRetries <=> tried[e] + lost[e] >= MaxRetries \/ e \in raced
  BY LimitsAssumption DEF TypeOK, Charged

LEMMA ChargedTypeNext ==
  ASSUME TypeOK', NEW e \in Events
  PROVE  Charged(e)' \in 0..MaxRetries
  BY LimitsAssumption DEF TypeOK, Charged

LEMMA ChargeKept ==
  ASSUME UNCHANGED counts
  PROVE  (\A e \in Events : Charged(e)' = Charged(e)) /\ ChargeView' = ChargeView
  BY DEF counts, Charged, ChargeView

\* A dispatch, or a COMMIT that took effect and raised, is charged once.
LEMMA ChargedOnce ==
  ASSUME TypeOK, NEW c \in Events, raced' = raced,
         \/ /\ tried' = [tried EXCEPT ![c] = IF @ < MaxRetries THEN @ + 1 ELSE @]
            /\ lost' = lost
         \/ tried' = tried /\ lost' = [lost EXCEPT ![c] = @ + 1]
  PROVE  /\ Charged(c)' = IF Charged(c) < MaxRetries THEN Charged(c) + 1 ELSE Charged(c)
         /\ \A e \in Events \ {c} : Charged(e)' = Charged(e)
         /\ \A e \in Events : Charged(e) <= Charged(e)'
  <1>1. tried[c] \in 0..MaxRetries /\ lost[c] \in Nat /\ MaxRetries \in Nat
    BY LimitsAssumption DEF TypeOK
  <1>2. \A e \in Events \ {c} : tried'[e] = tried[e] /\ lost'[e] = lost[e]
    BY DEF TypeOK
  <1>3. \/ tried'[c] = (IF tried[c] < MaxRetries THEN tried[c] + 1 ELSE tried[c])
           /\ lost'[c] = lost[c]
        \/ tried'[c] = tried[c] /\ lost'[c] = lost[c] + 1
    BY DEF TypeOK
  <1>4. Charged(c)' = IF Charged(c) < MaxRetries THEN Charged(c) + 1 ELSE Charged(c)
    BY <1>1, <1>3 DEF Charged
  <1>5. \A e \in Events \ {c} : Charged(e)' = Charged(e)
    BY <1>2 DEF Charged
  <1>6. \A e \in Events : Charged(e) \in Nat
    BY ChargedType
  <1>7. QED
    BY <1>4, <1>5, <1>6

\* The poll takes a ready event if there is one.
LEMMA FirstOfSome ==
  ASSUME NEW S \in SUBSET Events, S # {}
  PROVE  FirstOf(S, BatchSize) # {}
  <1>1. PICK e \in S : \A d \in S : e <= d
    BY OldestIn
  <1>2. \A d \in S : ~(d < e)
    BY <1>1, EventsAssumption
  <1>3. Cardinality({d \in S : d < e}) = 0
    <2>1. {d \in S : d < e} = {}
      BY <1>2
    <2>2. QED
      BY <2>1, FS_EmptySet
  <1>4. QED
    BY <1>1, <1>3, LimitsAssumption DEF FirstOf

\* A bound outlives a step after which no new worker is busy with the event.
LEMMA BoundKept ==
  ASSUME TypeOK, TypeOK', NEW e \in Events, NEW m \in Nat, NEW n \in Nat, n <= m, Bound(e, m),
         Charged(e) <= Charged(e)', Busy(e)' \subseteq Busy(e)
  PROVE  Bound(e, n)'
  <1>1. PICK B, C : B = Busy(e) /\ C = Busy(e)' /\ C \in SUBSET B
    OBVIOUS
  <1>2. IsFiniteSet(B) /\ Cardinality(B) \in Nat
    BY <1>1, BusyFinite
  <1>3. IsFiniteSet(C) /\ Cardinality(C) <= Cardinality(B)
    BY <1>1, <1>2, FS_Subset
  <1>4. Cardinality(C) \in Nat
    BY <1>3, FS_CardinalityType
  <1>5. Charged(e) = MaxRetries \/ m + Cardinality(B) <= Charged(e)
    BY <1>1 DEF Bound
  <1>6. Charged(e) \in 0..MaxRetries /\ Charged(e)' \in 0..MaxRetries /\ MaxRetries \in Nat
    BY ChargedType, ChargedTypeNext
  <1>7. Charged(e)' = MaxRetries \/ n + Cardinality(C) <= Charged(e)'
    BY <1>2, <1>3, <1>4, <1>5, <1>6
  <1>8. QED
    BY <1>1, <1>7 DEF Bound

\* A dispatch counts once on each side.
LEMMA BoundClaimed ==
  ASSUME TypeOK, NEW e \in Events, NEW n \in Nat, NEW w, Bound(e, n), w \notin Busy(e),
         Busy(e)' = Busy(e) \cup {w},
         Charged(e)' = IF Charged(e) < MaxRetries THEN Charged(e) + 1 ELSE Charged(e)
  PROVE  Bound(e, n)'
  <1>1. PICK B, C : B = Busy(e) /\ C = Busy(e)' /\ C = B \cup {w}
    OBVIOUS
  <1>2. IsFiniteSet(B) /\ Cardinality(B) \in Nat
    BY <1>1, BusyFinite
  <1>3. Cardinality(C) = Cardinality(B) + 1
    BY <1>1, <1>2, FS_AddElement
  <1>5. Charged(e) = MaxRetries \/ n + Cardinality(B) <= Charged(e)
    BY <1>1 DEF Bound
  <1>6. Charged(e) \in 0..MaxRetries /\ MaxRetries \in Nat
    BY ChargedType
  <1>7. Charged(e)' = MaxRetries \/ n + Cardinality(C) <= Charged(e)'
    BY <1>2, <1>3, <1>5, <1>6
  <1>8. QED
    BY <1>1, <1>7 DEF Bound

\* The worker that has dispatched the event may add its attempt, once.
LEMMA BoundSettled ==
  ASSUME TypeOK, NEW e \in Events, NEW n \in Nat, NEW w \in Busy(e), Bound(e, n),
         Busy(e)' = Busy(e) \ {w}, Charged(e)' = Charged(e)
  PROVE  Bound(e, n + 1)' /\ (n + 1 >= MaxRetries => Charged(e) >= MaxRetries)
  <1>1. PICK B, C : B = Busy(e) /\ C = Busy(e)' /\ C = B \ {w}
    OBVIOUS
  <1>2. IsFiniteSet(B) /\ Cardinality(B) \in Nat
    BY <1>1, BusyFinite
  <1>3. Cardinality(C) = Cardinality(B) - 1 /\ Cardinality(C) \in Nat
    <2>1. Cardinality(C) = Cardinality(B) - 1 /\ IsFiniteSet(C)
      BY <1>1, <1>2, FS_RemoveElement
    <2>2. QED
      BY <2>1, FS_CardinalityType
  <1>5. Charged(e) = MaxRetries \/ n + Cardinality(B) <= Charged(e)
    BY <1>1 DEF Bound
  <1>6. Charged(e) \in 0..MaxRetries /\ MaxRetries \in Nat
    BY ChargedType
  <1>7. /\ Charged(e)' = MaxRetries \/ (n + 1) + Cardinality(C) <= Charged(e)'
        /\ n + 1 >= MaxRetries => Charged(e) >= MaxRetries
    BY <1>2, <1>3, <1>5, <1>6
  <1>8. QED
    BY <1>1, <1>7 DEF Bound

\* One whose COMMIT took effect and raised adds its attempt, and will do so again.
LEMMA BoundLost ==
  ASSUME TypeOK, NEW e \in Events, NEW n \in Nat, Bound(e, n), Busy(e)' = Busy(e),
         Charged(e)' = IF Charged(e) < MaxRetries THEN Charged(e) + 1 ELSE Charged(e)
  PROVE  Bound(e, n + 1)'
  <1>1. PICK k \in Nat : k = Cardinality(Busy(e)) /\ Cardinality(Busy(e)') = k
    BY BusyFinite
  <1>2. Charged(e) = MaxRetries \/ n + k <= Charged(e)
    BY <1>1 DEF Bound
  <1>3. Charged(e) \in 0..MaxRetries /\ MaxRetries \in Nat
    BY ChargedType
  <1>4. Charged(e)' = MaxRetries \/ (n + 1) + k <= Charged(e)'
    BY <1>2, <1>3
  <1>5. QED
    BY <1>1, <1>4 DEF Bound

-------------------------------------------------------------------------------
\* Types, action by action.
LEMMA OutboxTypeInit == Init => TypeOK
  BY LimitsAssumption DEF Init, TypeOK, Row, Statuses, Unseen

LEMMA OutboxTypeStep == OutboxInv /\ [Next]_vars => TypeOK'
  <1> SUFFICES ASSUME OutboxInv, [Next]_vars  PROVE TypeOK'
    OBVIOUS
  <1>0. TypeOK
    BY DEF OutboxInv
  <1>a. ASSUME NEW e \in Events  PROVE row[e] \in Row /\ SnapshotOf(e) \in Snapshot
    BY <1>0 DEF TypeOK, Row, Snapshot, SnapshotOf
  <1>b. MaxRetries \in Nat /\ MaxRetries # 0 /\ MaxFaults \in Nat /\ MaxResets \in Nat
    BY LimitsAssumption
  <1>1. ASSUME NEW e \in Events, Emit(e)  PROVE TypeOK'
    BY <1>0, <1>1 DEF TypeOK, counts, Emit, Row, Statuses
  <1>2. ASSUME NEW e \in Events, Wake(e)  PROVE TypeOK'
    BY <1>0, <1>2 DEF TypeOK, counts, Wake, Row
  <1>3. ASSUME NEW w \in Workers, Poll(w)  PROVE TypeOK'
    BY <1>0, <1>3, <1>a DEF TypeOK, counts, Poll
  <1>4. ASSUME NEW w \in Workers, Claim(w)  PROVE TypeOK'
    <2>1. Current(w) \in Events
      BY <1>4, CurrentIn DEF Claim
    <2>2. tried' \in [Events -> 0..MaxRetries]
      BY <1>0, <1>4, <1>b, <2>1 DEF TypeOK, Claim
    <2>3. QED
      BY <1>0, <1>4, <2>2 DEF TypeOK, Claim
  <1>5. ASSUME NEW w \in Workers, NEW t \in Targets, Deliver(w, t)  PROVE TypeOK'
    <2>1. Current(w) \in Events
      BY <1>5, CurrentIn DEF Deliver
    <2>2. PICK m \in Marks : marks' = [marks EXCEPT ![w] = @ \cup {m}]
      <3>1. PICK success \in BOOLEAN : marks' = [marks EXCEPT ![w] =
                   @ \cup {<<t, IF success THEN "delivered" ELSE "failed">>}]
        BY <1>5 DEF Deliver
      <3>2. <<t, IF success THEN "delivered" ELSE "failed">> \in Marks
        BY DEF Marks
      <3>3. QED
        BY <3>1, <3>2
    <2>3. received' \subseteq Events \X Targets
      BY <1>0, <1>5, <2>1 DEF TypeOK, counts, Deliver
    <2>4. marks' \in [Workers -> SUBSET Marks]
      BY <1>0, <2>2 DEF TypeOK
    <2>5. QED
      BY <1>0, <1>5, <2>3, <2>4 DEF TypeOK, counts, Deliver
  <1>6. ASSUME NEW w \in Workers, Settle(w) \/ SettleLost(w)  PROVE TypeOK'
    <2>1. Current(w) \in Events /\ seen[w][Current(w)].retry \in Nat
      BY <1>6, CurrentIn DEF Settle, SettleLost, Outcome, Snapshot
    <2>2. Retried(row[Current(w)], seen[w][Current(w)].retry + 1) \in Row
      BY <2>1, <1>a DEF Retried, Row, Statuses
    <2>3. [row[Current(w)] EXCEPT !.status = "delivered"] \in Row
      BY <2>1, <1>a DEF Row, Statuses
    <2>0. Outcome(w)
      BY <1>6 DEF Settle, SettleLost
    <2>4. row' \in [Events -> Row]
      BY <1>0, <2>0, <2>1, <2>2, <2>3 DEF TypeOK, Outcome
    <2>5. delivery' \in [Events -> [Rows -> {"none", "queued", "delivered", "failed"}]]
      BY <1>0, <2>0, <2>1 DEF TypeOK, Outcome
    <2>6. CASE Settle(w)
      BY <1>0, <2>1, <2>4, <2>5, <2>6 DEF TypeOK, Settle, counts
    <2>7. CASE SettleLost(w)
      <3>1. faults' \in 0..MaxFaults
        BY <1>0, <1>b, <2>7 DEF TypeOK, SettleLost, Fault
      <3>2. lost' \in [Events -> Nat]
        BY <1>0, <2>1, <2>7 DEF TypeOK, SettleLost
      <3>3. QED
        BY <1>0, <2>4, <2>5, <2>7, <3>1, <3>2 DEF TypeOK, SettleLost
    <2>8. QED
      BY <1>6, <2>6, <2>7
  <1>7. ASSUME NEW w \in Workers, ReadAgain(w)  PROVE TypeOK'
    <2>1. Current(w) \in Events
      BY <1>7, CurrentIn DEF ReadAgain
    <2>2. QED
      BY <1>0, <1>7, <2>1, <1>a DEF TypeOK, counts, ReadAgain, Unseen
  <1>8. ASSUME NEW w \in Workers, MarkError(w)  PROVE TypeOK'
    <2>1. Current(w) \in Events /\ seen[w][Current(w)].retry \in Nat
      BY <1>8, CurrentIn DEF MarkError, Snapshot
    <2>2. row' \in [Events -> Row]
      BY <1>0, <1>8, <2>1, <1>a DEF TypeOK, counts, MarkError, Row, Statuses
    <2>3. QED
      BY <1>0, <1>8, <2>2 DEF TypeOK, counts, MarkError, Idle, Unseen
  <1>9. ASSUME NEW w \in Workers, Raise(w)  PROVE TypeOK'
    BY <1>0, <1>9 DEF TypeOK, counts, Raise
  <1>10. ASSUME NEW w \in Workers, Abandon(w)  PROVE TypeOK'
    BY <1>0, <1>10, <1>b DEF TypeOK, counts, Abandon, Idle, Fault, Unseen
  <1>11. ASSUME NEW e \in Events, NEW t \in Rows, RetryDelivery(e, t)  PROVE TypeOK'
    BY <1>0, <1>11, <1>a, <1>b DEF TypeOK, RetryDelivery, Reopen, Row, Statuses
  <1>12. CASE UNCHANGED vars
    BY <1>0, <1>12 DEF TypeOK, counts, vars
  <1>13. QED
    BY <1>1, <1>2, <1>3, <1>4, <1>5, <1>6, <1>7, <1>8, <1>9, <1>10, <1>11, <1>12
       DEF Next, Step

-------------------------------------------------------------------------------
\* What each step does to the events in hand and to the workers busy with one.

LEMMA IdleEffect ==
  ASSUME OutboxInv, NEW w \in Workers, Idle(w)
  PROVE  /\ pc'[w] = "idle" /\ marks'[w] = {} /\ \A e \in Events : seen'[w][e] = None
         /\ \A x \in Workers \ {w} :
              pc'[x] = pc[x] /\ seen'[x] = seen[x] /\ marks'[x] = marks[x]
         /\ \A e \in Events : Busy(e)' = Busy(e) \ {w}
  <1>1. /\ pc'[w] = "idle" /\ marks'[w] = {} /\ \A e \in Events : seen'[w][e] = None
        /\ \A x \in Workers \ {w} :
             pc'[x] = pc[x] /\ seen'[x] = seen[x] /\ marks'[x] = marks[x]
    BY DEF OutboxInv, TypeOK, Idle, Unseen
  <1>2. \A x \in Workers \ {w} : Current(x)' = Current(x)
    BY <1>1, SameCurrent
  <1>3. QED
    BY <1>1, <1>2 DEF Busy

LEMMA InHandStep == OutboxInv /\ [Next]_vars => InHand'
  <1> SUFFICES ASSUME OutboxInv, [Next]_vars, NEW x \in Workers, pc'[x] # "idle"
               PROVE  Batch(x)' # {}
    BY DEF InHand
  <1>0. TypeOK /\ InHand
    BY DEF OutboxInv
  <1>1. CASE seen'[x] = seen[x] /\ pc[x] # "idle"
    BY <1>0, <1>1, SameCurrent DEF InHand
  <1>2. CASE Poll(x)
    <2>1. FirstOf(Ready, BatchSize) # {}
      BY <1>2, FirstOfSome DEF Poll, Ready
    <2>2. PICK e \in Events : e \in FirstOf(Ready, BatchSize)
      BY <2>1 DEF FirstOf, Ready
    <2>3. seen'[x][e] = SnapshotOf(e) /\ SnapshotOf(e) # None
      BY <1>0, <1>2, <2>2, NoneAssumption DEF TypeOK, Poll, SnapshotOf, Snapshot, Row
    <2>4. QED
      BY <2>3 DEF Batch
  <1>3. CASE Settle(x)
    <2>1. Batch(x) # {Current(x)} /\ Current(x) \in Batch(x)
      BY <1>0, <1>3, CurrentIn DEF Settle, Outcome, TypeOK
    <2>2. PICK e \in Batch(x) : e # Current(x)
      BY <2>1
    <2>3. seen'[x][e] = seen[x][e]
      BY <1>0, <1>3, <2>2 DEF Settle, TypeOK, Batch
    <2>4. QED
      BY <2>2, <2>3 DEF Batch
  <1>4. CASE ReadAgain(x)
    <2>1. Current(x) \in Events
      BY <1>4, CurrentIn DEF ReadAgain
    <2>2. seen'[x][Current(x)] = SnapshotOf(Current(x)) /\ SnapshotOf(Current(x)) # None
      BY <1>0, <1>4, <2>1, NoneAssumption
         DEF TypeOK, ReadAgain, Unseen, SnapshotOf, Snapshot, Row
    <2>3. QED
      BY <2>1, <2>2 DEF Batch
  <1>5. ASSUME NEW w \in Workers, MarkError(w) \/ Abandon(w)
        PROVE  seen'[x] = seen[x] /\ pc[x] # "idle"
    <2>1. Idle(w)
      BY <1>5 DEF MarkError, Abandon
    <2>2. QED
      BY <2>1, IdleEffect
  <1>6. ASSUME NEW w \in Workers, w # x, Poll(w) \/ Settle(w) \/ ReadAgain(w)
        PROVE  seen'[x] = seen[x] /\ pc[x] # "idle"
    BY <1>0, <1>6 DEF TypeOK, Poll, Settle, ReadAgain
  <1>7. ASSUME NEW w \in Workers,
               SettleLost(w) \/ Claim(w) \/ Raise(w) \/ \E t \in Targets : Deliver(w, t)
        PROVE  seen'[x] = seen[x] /\ pc[x] # "idle"
    BY <1>0, <1>7 DEF TypeOK, SettleLost, Outcome, Claim, Raise, Deliver
  <1>8. ASSUME NEW e \in Events, Emit(e) \/ Wake(e) \/ \E t \in Rows : RetryDelivery(e, t)
        PROVE  seen'[x] = seen[x] /\ pc[x] # "idle"
    BY <1>8 DEF Emit, Wake, RetryDelivery
  <1>9. QED
    BY <1>1, <1>2, <1>3, <1>4, <1>5, <1>6, <1>7, <1>8 DEF Next, Step, vars

LEMMA MarksTrueStep == OutboxInv /\ [Next]_vars => MarksTrue'
  <1> SUFFICES ASSUME OutboxInv, [Next]_vars, NEW x \in Workers
               PROVE  /\ pc'[x] # "routing" => marks'[x] = {}
                      /\ \A t \in Targets : <<t, "delivered">> \in marks'[x]
                            => <<Current(x)', t>> \in received'
    BY DEF MarksTrue
  <1>0. TypeOK /\ MarksTrue
    BY DEF OutboxInv
  <1>a. /\ pc[x] # "routing" => marks[x] = {}
        /\ \A t \in Targets : <<t, "delivered">> \in marks[x] => <<Current(x), t>> \in received
    BY <1>0 DEF MarksTrue
  <1>1. CASE /\ seen'[x] = seen[x] /\ marks'[x] = marks[x] /\ pc'[x] = pc[x]
             /\ received \subseteq received'
    BY <1>1, <1>a, SameCurrent
  <1>2. CASE marks'[x] = {}
    BY <1>2
  <1>3. ASSUME NEW t \in Targets, Deliver(x, t)
        PROVE  /\ pc'[x] # "routing" => marks'[x] = {}
               /\ \A u \in Targets : <<u, "delivered">> \in marks'[x]
                     => <<Current(x)', u>> \in received'
    <2>1. PICK arrived \in BOOLEAN, success \in BOOLEAN :
            /\ success => arrived
            /\ received' = IF arrived THEN received \cup {<<Current(x), t>>} ELSE received
            /\ marks' = [marks EXCEPT ![x] =
                 @ \cup {<<t, IF success THEN "delivered" ELSE "failed">>}]
      BY <1>3 DEF Deliver
    <2>2. Current(x)' = Current(x) /\ pc'[x] = "routing"
      BY <1>3, SameCurrent DEF Deliver
    <2>3. marks'[x] = marks[x] \cup {<<t, IF success THEN "delivered" ELSE "failed">>}
      BY <1>0, <2>1 DEF TypeOK
    <2>4. CASE success
      BY <1>a, <2>1, <2>2, <2>3, <2>4
    <2>5. CASE ~success
      BY <1>a, <2>1, <2>2, <2>3, <2>5
    <2>6. QED
      BY <2>4, <2>5
  <1>4. ASSUME NEW w \in Workers, NEW t \in Targets, Deliver(w, t), w # x
        PROVE  /\ seen'[x] = seen[x] /\ marks'[x] = marks[x] /\ pc'[x] = pc[x]
               /\ received \subseteq received'
    BY <1>0, <1>4 DEF TypeOK, Deliver
  <1>5. ASSUME NEW w \in Workers, MarkError(w) \/ Abandon(w)
        PROVE  \/ marks'[x] = {}
               \/ /\ seen'[x] = seen[x] /\ marks'[x] = marks[x] /\ pc'[x] = pc[x]
                  /\ received \subseteq received'
    <2>1. Idle(w) /\ received' = received
      BY <1>5 DEF MarkError, Abandon
    <2>2. QED
      BY <2>1, IdleEffect
  <1>6. ASSUME NEW w \in Workers,
               \/ Poll(w) \/ Claim(w) \/ Settle(w) \/ SettleLost(w)
               \/ ReadAgain(w) \/ Raise(w)
        PROVE  \/ marks'[x] = {}
               \/ /\ seen'[x] = seen[x] /\ marks'[x] = marks[x] /\ pc'[x] = pc[x]
                  /\ received \subseteq received'
    BY <1>0, <1>6, <1>a DEF TypeOK, Poll, Claim, Settle, SettleLost, ReadAgain, Raise
  <1>7. ASSUME NEW e \in Events, Emit(e) \/ Wake(e) \/ \E t \in Rows : RetryDelivery(e, t)
        PROVE  /\ seen'[x] = seen[x] /\ marks'[x] = marks[x] /\ pc'[x] = pc[x]
               /\ received \subseteq received'
    BY <1>7 DEF Emit, Wake, RetryDelivery
  <1>8. QED
    BY <1>1, <1>2, <1>3, <1>4, <1>5, <1>6, <1>7 DEF Next, Step, vars

-------------------------------------------------------------------------------
LEMMA CountType ==
  ASSUME TypeOK, NEW e \in Events
  PROVE  /\ row[e].retry \in Nat
         /\ \A w \in Workers : seen[w][e] # None => seen[w][e].retry \in Nat
  BY DEF TypeOK, Row, Snapshot

\* A step that dispatches nothing, accounts for nothing and raises no count.
LEMMA CountsKept ==
  ASSUME OutboxInv, TypeOK', UNCHANGED counts,
         \A e \in Events : Busy(e)' \subseteq Busy(e) /\ row'[e].retry <= row[e].retry,
         \A w \in Workers, e \in Events :
            seen'[w][e] = None \/ seen'[w][e] = seen[w][e]
              \/ seen'[w][e].retry = row[e].retry
  PROVE  Counted'
  <1>0. TypeOK /\ TypeOK' /\ Counted
    BY DEF OutboxInv
  <1>a. ASSUME NEW e \in Events  PROVE Charged(e)' = Charged(e) /\ Charged(e) <= Charged(e)'
    BY <1>0, ChargeKept, ChargedType
  <1>1. ASSUME NEW e \in Events  PROVE Bound(e, row[e].retry)'
    <2>1. PICK n \in Nat, m \in Nat : n = row'[e].retry /\ m = row[e].retry
      BY <1>0 DEF TypeOK, Row
    <2>2. Bound(e, m)
      BY <1>0, <2>1 DEF Counted
    <2>3. Bound(e, n)'
      BY <1>0, <2>1, <2>2, <1>a, BoundKept
    <2>4. QED
      BY <2>1, <2>3 DEF Bound
  <1>2. ASSUME NEW e \in Events, NEW w \in Workers, seen'[w][e] # None
        PROVE  Bound(e, seen[w][e].retry)'
    <2>1. PICK n \in Nat : n = seen'[w][e].retry
      BY <1>2 DEF TypeOK, Snapshot
    <2>2. Bound(e, n)
      BY <1>0, <1>2, <2>1 DEF Counted
    <2>3. Bound(e, n)'
      BY <1>0, <2>2, <1>a, BoundKept
    <2>4. QED
      BY <2>1, <2>3 DEF Bound
  <1>3. QED
    BY <1>1, <1>2 DEF Counted

\* A worker writes the outcome of the event it had dispatched.
LEMMA CountsSettled ==
  ASSUME OutboxInv, TypeOK', UNCHANGED counts,
         NEW w \in Workers, pc[w] \in {"routing", "raised", "marking"},
         \A d \in Events : Busy(d)' = Busy(d) \ {w},
         \A d \in Events : \/ row'[d].retry = row[d].retry
                           \/ d = Current(w) /\ row'[d].retry = seen[w][d].retry + 1,
         \A x \in Workers, d \in Events : seen'[x][d] = None \/ seen'[x][d] = seen[x][d]
  PROVE  Counted'
  <1>0. TypeOK /\ TypeOK' /\ Counted
    BY DEF OutboxInv
  <1>a. ASSUME NEW e \in Events  PROVE Charged(e)' = Charged(e) /\ Charged(e) <= Charged(e)'
    BY <1>0, ChargeKept, ChargedType
  <1>1. ASSUME NEW e \in Events  PROVE Bound(e, row[e].retry)'
    <2>1. PICK n \in Nat : n = row[e].retry
      BY <1>0, CountType
    <2>2. CASE row'[e].retry = n
      <3>1. Bound(e, n)
        BY <1>0, <2>1 DEF Counted
      <3>2. Bound(e, n)'
        BY <1>0, <3>1, <1>a, BoundKept
      <3>3. QED
        BY <2>2, <3>2 DEF Bound
    <2>3. CASE e = Current(w) /\ row'[e].retry = seen[w][e].retry + 1
      <3>1. w \in Busy(e) /\ seen[w][e] # None
        BY <2>3, CurrentIn DEF Busy
      <3>2. PICK k \in Nat : k = seen[w][e].retry
        BY <1>0, <3>1, CountType
      <3>3. Bound(e, k)
        BY <1>0, <3>1, <3>2 DEF Counted
      <3>4. Bound(e, k + 1)'
        BY <1>0, <3>1, <3>3, <1>a, BoundSettled
      <3>5. QED
        BY <2>3, <3>2, <3>4 DEF Bound
    <2>4. QED
      BY <2>1, <2>2, <2>3
  <1>2. ASSUME NEW e \in Events, NEW x \in Workers, seen'[x][e] # None
        PROVE  Bound(e, seen[x][e].retry)'
    <2>1. PICK n \in Nat : n = seen[x][e].retry /\ seen'[x][e] = seen[x][e]
      BY <1>0, <1>2, CountType
    <2>2. Bound(e, n)
      BY <1>0, <1>2, <2>1 DEF Counted
    <2>3. Bound(e, n)'
      BY <1>0, <2>2, <1>a, BoundKept
    <2>4. QED
      BY <2>1, <2>3 DEF Bound
  <1>3. QED
    BY <1>1, <1>2 DEF Counted

LEMMA CountsClaimed ==
  ASSUME OutboxInv, TypeOK', NEW w \in Workers, Claim(w)
  PROVE  Counted'
  <1>0. TypeOK /\ TypeOK' /\ Counted /\ Current(w) \in Events
    BY CurrentIn DEF OutboxInv, Claim
  <1>a. /\ \A e \in Events \ {Current(w)} : Charged(e)' = Charged(e)
        /\ \A e \in Events : e = Current(w) =>
             Charged(e)' = IF Charged(e) < MaxRetries THEN Charged(e) + 1 ELSE Charged(e)
    BY <1>0, ChargedOnce DEF Claim
  <1>1. \A x \in Workers : Current(x)' = Current(x)
    BY SameCurrent DEF Claim
  <1>2. \A e \in Events : /\ w \notin Busy(e)
                          /\ Busy(e)' = IF e = Current(w) THEN Busy(e) \cup {w} ELSE Busy(e)
    BY <1>0, <1>1 DEF Claim, Busy, TypeOK
  <1>3. ASSUME NEW e \in Events, NEW n \in Nat, Bound(e, n)  PROVE Bound(e, n)'
    <2>1. CASE e = Current(w)
      BY <1>0, <1>2, <1>3, <2>1, <1>a, BoundClaimed
    <2>2. CASE e # Current(w)
      <3>1. Charged(e)' = Charged(e) /\ Charged(e) <= Charged(e)'
        BY <1>0, <1>a, <2>2, ChargedType
      <3>2. QED
        BY <1>0, <1>2, <1>3, <2>2, <3>1, BoundKept
    <2>3. QED
      BY <2>1, <2>2
  <1>4. ASSUME NEW e \in Events  PROVE Bound(e, row[e].retry)'
    <2>1. PICK n \in Nat : n = row[e].retry /\ Bound(e, n)
      BY <1>0, CountType DEF Counted
    <2>2. Bound(e, n)' /\ row'[e].retry = n
      BY <1>3, <2>1 DEF Claim
    <2>3. QED
      BY <2>2 DEF Bound
  <1>5. ASSUME NEW e \in Events, NEW x \in Workers, seen'[x][e] # None
        PROVE  Bound(e, seen[x][e].retry)'
    <2>1. PICK n \in Nat : n = seen[x][e].retry /\ seen' = seen /\ Bound(e, n)
      BY <1>0, <1>5, CountType DEF Counted, Claim
    <2>2. Bound(e, n)'
      BY <1>3, <2>1
    <2>3. QED
      BY <2>1, <2>2 DEF Bound
  <1>6. QED
    BY <1>4, <1>5 DEF Counted

\* A worker writes the outcome of the event and gets an exception for it.
LEMMA CountsLost ==
  ASSUME OutboxInv, TypeOK', NEW w \in Workers, SettleLost(w)
  PROVE  Counted'
  <1>0. TypeOK /\ TypeOK' /\ Counted
    BY DEF OutboxInv
  <1>1. PICK c \in Events : c = Current(w) /\ seen[w][c] # None /\ seen[w][c].retry \in Nat
    BY <1>0, CurrentIn, CountType DEF SettleLost, Outcome
  <1>2. /\ Charged(c)' = IF Charged(c) < MaxRetries THEN Charged(c) + 1 ELSE Charged(c)
        /\ \A e \in Events : Charged(e) <= Charged(e)'
    BY <1>0, <1>1, ChargedOnce DEF SettleLost
  <1>3. /\ \A x \in Workers : Current(x)' = Current(x)
        /\ seen' = seen
    BY SameCurrent DEF SettleLost
  <1>4. \A e \in Events : Busy(e)' = Busy(e)
    BY <1>0, <1>3 DEF SettleLost, Outcome, Busy, TypeOK
  <1>5. /\ \A e \in Events \ {c} : row'[e] = row[e]
        /\ row'[c].retry = row[c].retry \/ row'[c].retry = seen[w][c].retry + 1
    BY <1>0, <1>1 DEF SettleLost, Outcome, TypeOK, Retried, Row
  <1>6. ASSUME NEW e \in Events, NEW n \in Nat, Bound(e, n)  PROVE Bound(e, n)'
    BY <1>0, <1>2, <1>4, <1>6, BoundKept
  <1>7. ASSUME NEW e \in Events  PROVE Bound(e, row[e].retry)'
    <2>1. PICK n \in Nat : n = row[e].retry /\ Bound(e, n)
      BY <1>0, CountType DEF Counted
    <2>2. CASE row'[e].retry = n
      <3>1. Bound(e, n)'
        BY <1>6, <2>1
      <3>2. QED
        BY <2>2, <3>1 DEF Bound
    <2>3. CASE e = c /\ row'[e].retry = seen[w][c].retry + 1
      <3>1. PICK k \in Nat : k = seen[w][c].retry /\ Bound(c, k)
        BY <1>0, <1>1 DEF Counted
      <3>2. Bound(c, k + 1)'
        BY <1>0, <1>2, <1>4, <3>1, BoundLost
      <3>3. QED
        BY <2>3, <3>1, <3>2 DEF Bound
    <2>4. QED
      BY <1>5, <2>1, <2>2, <2>3
  <1>8. ASSUME NEW e \in Events, NEW x \in Workers, seen'[x][e] # None
        PROVE  Bound(e, seen[x][e].retry)'
    <2>1. PICK n \in Nat : n = seen[x][e].retry /\ Bound(e, n)
      BY <1>0, <1>3, <1>8, CountType DEF Counted
    <2>2. Bound(e, n)'
      BY <1>6, <2>1
    <2>3. QED
      BY <1>3, <2>1, <2>2 DEF Bound
  <1>9. QED
    BY <1>7, <1>8 DEF Counted

\* The administrator opens the dead events, and their counts.
LEMMA CountsReopened ==
  ASSUME OutboxInv, TypeOK', NEW d \in Events, NEW t \in Rows, RetryDelivery(d, t)
  PROVE  Counted'
  <1> DEFINE dead == {e \in Events : row[e].status = "failed"}
  <1>0. TypeOK /\ TypeOK' /\ Counted
    BY DEF OutboxInv
  <1>1. /\ seen' = seen /\ pc' = pc
        /\ \A x \in Workers : Current(x)' = Current(x)
    BY SameCurrent DEF RetryDelivery
  <1>2. \A e \in Events : Busy(e)' = Busy(e)
    BY <1>1 DEF Busy
  <1>3. ASSUME NEW e \in Events, e \notin dead
        PROVE  /\ row'[e] = row[e]
               /\ \A n \in Nat : Bound(e, n) => Bound(e, n)'
    <2>1. /\ row'[e] = row[e] /\ tried'[e] = tried[e] /\ lost'[e] = lost[e]
          /\ e \in raced' <=> e \in raced
      BY <1>3 DEF RetryDelivery, Reopen
    <2>2. Charged(e)' = Charged(e) /\ Charged(e) <= Charged(e)'
      BY <1>0, <2>1, ChargedType DEF Charged
    <2>3. QED
      BY <1>0, <1>2, <2>1, <2>2, BoundKept
  <1>4. ASSUME NEW e \in dead
        PROVE  /\ row'[e].retry = 0 /\ Bound(e, 0)'
               /\ \A w \in Workers, n \in Nat : seen'[w][e] # None => Bound(e, n)'
    <2>1. row'[e].retry = 0
      BY <1>4 DEF RetryDelivery
    <2>2. CASE \E w \in Workers : seen[w][e] # None
      <3>1. e \in raced'
        BY <1>4, <2>2 DEF RetryDelivery, Reopen
      <3>2. Charged(e)' = MaxRetries
        BY <3>1 DEF Charged
      <3>3. QED
        BY <2>1, <3>2 DEF Bound
    <2>3. CASE \A w \in Workers : seen[w][e] = None
      <3>1. Busy(e) = {}
        BY <2>3, <1>4, CurrentIn DEF Busy
      <3>2. Cardinality(Busy(e))' = 0
        BY <1>2, <1>4, <3>1, FS_EmptySet
      <3>3. Charged(e)' \in Nat
        BY <1>0, <1>4, ChargedTypeNext
      <3>4. Bound(e, 0)'
        BY <3>2, <3>3 DEF Bound
      <3>5. QED
        BY <1>1, <2>1, <2>3, <3>4
    <2>4. QED
      BY <2>2, <2>3
  <1>5. ASSUME NEW e \in Events  PROVE Bound(e, row[e].retry)'
    <2>1. CASE e \in dead
      BY <1>4, <2>1 DEF Bound
    <2>2. CASE e \notin dead
      <3>1. PICK n \in Nat : n = row[e].retry /\ Bound(e, n)
        BY <1>0, CountType DEF Counted
      <3>2. Bound(e, n)' /\ row'[e] = row[e]
        BY <1>3, <2>2, <3>1
      <3>3. QED
        BY <3>1, <3>2 DEF Bound
    <2>3. QED
      BY <2>1, <2>2
  <1>6. ASSUME NEW e \in Events, NEW x \in Workers, seen'[x][e] # None
        PROVE  Bound(e, seen[x][e].retry)'
    <2>1. PICK n \in Nat : n = seen[x][e].retry /\ Bound(e, n)
      BY <1>0, <1>1, <1>6, CountType DEF Counted
    <2>2. Bound(e, n)'
      BY <1>3, <1>4, <1>6, <2>1
    <2>3. QED
      BY <1>1, <2>1, <2>2 DEF Bound
  <1>7. QED
    BY <1>5, <1>6 DEF Counted

\* Neither a new event, nor the clock, nor the administrator settles one.
LEMMA TableEffect ==
  ASSUME TypeOK, NEW d \in Events, Emit(d) \/ Wake(d) \/ \E t \in Rows : RetryDelivery(d, t),
         NEW e \in Events
  PROVE  /\ row'[e].retry \in {0, row[e].retry}
         /\ row'[e].status \in {"pending", row[e].status}
         /\ \A u \in Rows : delivery'[e][u] \in {"none", "queued", delivery[e][u]}
  <1>1. CASE Emit(d)
    <2>1. \A u \in Rows : delivery'[e][u] \in {"none", "queued", delivery[e][u]}
      BY <1>1 DEF TypeOK, Emit
    <2>2. row'[e].retry \in {0, row[e].retry} /\ row'[e].status \in {"pending", row[e].status}
      BY <1>1 DEF TypeOK, Emit
    <2>3. QED
      BY <2>1, <2>2
  <1>2. CASE Wake(d)
    BY <1>2 DEF TypeOK, Wake, Row
  <1>3. ASSUME NEW t \in Rows, RetryDelivery(d, t)
        PROVE  /\ row'[e].retry \in {0, row[e].retry}
               /\ row'[e].status \in {"pending", row[e].status}
               /\ \A u \in Rows : delivery'[e][u] \in {"none", "queued", delivery[e][u]}
    <2>1. row'[e].retry \in {0, row[e].retry} /\ row'[e].status \in {"pending", row[e].status}
      BY <1>3 DEF RetryDelivery
    <2>2. \A u \in Rows : delivery'[e][u] \in {"none", "queued", delivery[e][u]}
      BY <1>3 DEF TypeOK, RetryDelivery
    <2>3. QED
      BY <2>1, <2>2
  <1>4. QED
    BY <1>1, <1>2, <1>3

LEMMA CountedStep == OutboxInv /\ [Next]_vars => Counted'
  <1> SUFFICES ASSUME OutboxInv, [Next]_vars  PROVE Counted'
    OBVIOUS
  <1>0. TypeOK /\ TypeOK'
    BY OutboxTypeStep DEF OutboxInv
  <1>a. ASSUME NEW e \in Events  PROVE row[e].retry \in Nat /\ SnapshotOf(e).retry = row[e].retry
    BY <1>0, CountType DEF SnapshotOf
  \* The steps that leave every worker's event in hand and its stage alone.
  <1>1. ASSUME seen' = seen, UNCHANGED counts,
               \A w \in Workers : \/ pc'[w] = pc[w]
                                  \/ pc[w] = "routing" /\ pc'[w] = "raised",
               \A e \in Events : row'[e].retry <= row[e].retry
        PROVE  Counted'
    <2>1. \A w \in Workers : Current(w)' = Current(w)
      BY <1>1, SameCurrent
    <2>2. \A e \in Events : Busy(e)' \subseteq Busy(e)
      BY <1>1, <2>1 DEF Busy
    <2>3. QED
      BY <1>0, <1>1, <2>2, CountsKept
  <1>2. ASSUME NEW e \in Events, Emit(e) \/ Wake(e)  PROVE Counted'
    <2>1. \A d \in Events : row'[d].retry = 0 \/ row'[d].retry = row[d].retry
      BY <1>0, <1>2, TableEffect
    <2>2. \A d \in Events : row'[d].retry <= row[d].retry
      BY <1>a, <2>1
    <2>3. seen' = seen /\ UNCHANGED counts /\ pc' = pc
      BY <1>2 DEF Emit, Wake
    <2>4. QED
      BY <1>1, <2>2, <2>3
  <1>3. ASSUME NEW w \in Workers, Raise(w) \/ \E t \in Targets : Deliver(w, t)
        PROVE  Counted'
    <2>1. seen' = seen /\ UNCHANGED counts /\ row' = row
      BY <1>3 DEF Raise, Deliver
    <2>2. \A x \in Workers : pc'[x] = pc[x] \/ (pc[x] = "routing" /\ pc'[x] = "raised")
      BY <1>0, <1>3 DEF TypeOK, Raise, Deliver
    <2>3. \A e \in Events : row'[e].retry <= row[e].retry
      BY <1>a, <2>1
    <2>4. QED
      BY <1>1, <2>1, <2>2, <2>3
  <1>4. ASSUME NEW w \in Workers, Poll(w)  PROVE Counted'
    <2>1. /\ pc'[w] = "batch" /\ pc[w] = "idle" /\ row' = row /\ UNCHANGED counts
          /\ \A x \in Workers \ {w} : pc'[x] = pc[x] /\ seen'[x] = seen[x]
          /\ \A e \in Events : seen'[w][e] = None \/ seen'[w][e] = SnapshotOf(e)
      BY <1>0, <1>4 DEF TypeOK, Poll
    <2>2. \A x \in Workers \ {w} : Current(x)' = Current(x)
      BY <2>1, SameCurrent
    <2>3. \A e \in Events : Busy(e)' \subseteq Busy(e)
      BY <2>1, <2>2 DEF Busy
    <2>4. \A e \in Events : row'[e].retry <= row[e].retry
      BY <1>a, <2>1
    <2>5. \A x \in Workers, e \in Events :
             seen'[x][e] = None \/ seen'[x][e] = seen[x][e] \/ seen'[x][e].retry = row[e].retry
      BY <1>a, <2>1
    <2>6. QED
      BY <1>0, <2>1, <2>3, <2>4, <2>5, CountsKept
  <1>5. ASSUME NEW w \in Workers, ReadAgain(w)  PROVE Counted'
    <2>1. Current(w) \in Events
      BY <1>5, CurrentIn DEF ReadAgain
    <2>2. PICK c \in Events : c = Current(w)
      BY <2>1
    <2>3. /\ pc[w] = "raised" /\ row' = row /\ UNCHANGED counts
          /\ seen'[w] = [Unseen EXCEPT ![c] = SnapshotOf(c)]
          /\ \A x \in Workers \ {w} : pc'[x] = pc[x] /\ seen'[x] = seen[x]
      BY <1>0, <1>5, <2>2 DEF TypeOK, ReadAgain
    <2>4. \A e \in Events : seen'[w][e] = IF e = c THEN SnapshotOf(c) ELSE None
      BY <2>3 DEF Unseen
    <2>5. Batch(w)' = {c}
      BY <1>0, <2>4, NoneAssumption DEF Batch, TypeOK, SnapshotOf, Snapshot, Row
    <2>6. Current(w)' = c
      BY <2>5, OldestAlone DEF Current
    <2>7. \A x \in Workers \ {w} : Current(x)' = Current(x)
      BY <2>3, SameCurrent
    <2>8. \A e \in Events : Busy(e)' \subseteq Busy(e)
      BY <2>2, <2>3, <2>6, <2>7 DEF Busy
    <2>9. \A e \in Events : row'[e].retry <= row[e].retry
      BY <1>a, <2>3
    <2>10. \A x \in Workers, e \in Events :
             seen'[x][e] = None \/ seen'[x][e] = seen[x][e] \/ seen'[x][e].retry = row[e].retry
      BY <1>a, <2>3, <2>4
    <2>11. QED
      BY <1>0, <2>3, <2>8, <2>9, <2>10, CountsKept
  <1>6. ASSUME NEW w \in Workers, Settle(w)  PROVE Counted'
    <2>1. PICK c \in Events : c = Current(w)
      BY <1>6, CurrentIn DEF Settle, Outcome
    <2>2. /\ pc[w] = "routing" /\ pc'[w] \in {"idle", "batch"} /\ UNCHANGED counts
          /\ \A x \in Workers \ {w} : pc'[x] = pc[x] /\ seen'[x] = seen[x]
          /\ \A e \in Events : seen'[w][e] = None \/ seen'[w][e] = seen[w][e]
          /\ \A d \in Events \ {c} : row'[d] = row[d]
      BY <1>0, <1>6, <2>1 DEF TypeOK, Settle, Outcome
    <2>3. row'[c].retry = row[c].retry \/ row'[c].retry = seen[w][c].retry + 1
      BY <1>0, <1>6, <2>1 DEF TypeOK, Settle, Outcome, Retried, Row
    <2>4. \A x \in Workers \ {w} : Current(x)' = Current(x)
      BY <2>2, SameCurrent
    <2>5. \A d \in Events : Busy(d)' = Busy(d) \ {w}
      BY <2>2, <2>4 DEF Busy
    <2>6. QED
      BY <1>0, <2>1, <2>2, <2>3, <2>5, CountsSettled
  <1>7. ASSUME NEW w \in Workers, MarkError(w)  PROVE Counted'
    <2>1. PICK c \in Events : c = Current(w)
      BY <1>7, CurrentIn DEF MarkError
    <2>2. Idle(w) /\ pc[w] = "marking" /\ UNCHANGED counts
      BY <1>7 DEF MarkError
    <2>3. /\ \A d \in Events \ {c} : row'[d] = row[d]
          /\ row'[c].retry = seen[w][c].retry + 1
      BY <1>0, <1>7, <2>1 DEF TypeOK, MarkError
    <2>4. /\ \A d \in Events : Busy(d)' = Busy(d) \ {w}
          /\ \A x \in Workers, d \in Events : seen'[x][d] = None \/ seen'[x][d] = seen[x][d]
      BY <2>2, IdleEffect
    <2>5. QED
      BY <1>0, <2>1, <2>2, <2>3, <2>4, CountsSettled
  <1>8. ASSUME NEW w \in Workers, Abandon(w)  PROVE Counted'
    <2>1. Idle(w) /\ UNCHANGED counts /\ row' = row
      BY <1>8 DEF Abandon
    <2>2. /\ \A d \in Events : Busy(d)' \subseteq Busy(d)
          /\ \A x \in Workers, d \in Events : seen'[x][d] = None \/ seen'[x][d] = seen[x][d]
      BY <2>1, IdleEffect
    <2>3. \A e \in Events : row'[e].retry <= row[e].retry
      BY <1>a, <2>1
    <2>4. QED
      BY <1>0, <2>1, <2>2, <2>3, CountsKept
  <1>9. CASE UNCHANGED vars
    <2>1. \A e \in Events : row'[e].retry <= row[e].retry
      BY <1>9, <1>a DEF vars
    <2>2. QED
      BY <1>9, <1>1, <2>1 DEF vars, counts
  <1>10. QED
    BY <1>0, <1>2, <1>3, <1>4, <1>5, <1>6, <1>7, <1>8, <1>9, CountsClaimed,
       CountsLost, CountsReopened DEF Next, Step

-------------------------------------------------------------------------------
LEMMA DeliveredStep == OutboxInv /\ [Next]_vars => DeliveredArrived'
  <1> SUFFICES ASSUME OutboxInv, [Next]_vars, NEW e \in Events, NEW t \in Targets,
                      row'[e].status = "delivered" \/ delivery'[e][t] = "delivered"
               PROVE  <<e, t>> \in received'
    BY DEF DeliveredArrived
  <1>0. TypeOK /\ MarksTrue /\ t \in Rows
    BY DEF OutboxInv, Rows
  <1>1. received \subseteq received'
    BY DEF Next, Step, Emit, Wake, RetryDelivery, Poll, Claim, Deliver, Settle, SettleLost, ReadAgain,
           MarkError, Raise, Abandon, vars
  <1>2. CASE row[e].status = "delivered" \/ delivery[e][t] = "delivered"
    BY <1>1, <1>2 DEF OutboxInv, DeliveredArrived
  <1>3. ASSUME NEW w \in Workers, Settle(w) \/ SettleLost(w),
               row[e].status # "delivered", delivery[e][t] # "delivered"
        PROVE  <<e, t>> \in received'
    <2>0. Outcome(w) /\ received' = received
      BY <1>3 DEF Settle, SettleLost
    <2>1. PICK c \in Events : c = Current(w)
      BY <2>0, CurrentIn DEF Outcome
    <2>2. e = c
      BY <1>0, <1>3, <2>0, <2>1 DEF TypeOK, Outcome
    <2>3. <<t, "delivered">> \in marks[w]
      <3>1. CASE row'[e].status = "delivered"
        <4>1. Failures(w) = {}
          BY <1>0, <1>3, <2>0, <2>1, <2>2, <3>1 DEF TypeOK, Outcome, Retried
        <4>2. QED
          BY <4>1, <2>0 DEF Failures, Left, Outcome
      <3>2. CASE delivery'[e][t] = "delivered"
        BY <1>0, <1>3, <2>0, <2>1, <2>2, <3>2 DEF TypeOK, Outcome
      <3>3. QED
        BY <3>1, <3>2
    <2>4. QED
      BY <1>0, <2>0, <2>1, <2>2, <2>3 DEF MarksTrue
  <1>4. ASSUME NEW w \in Workers, MarkError(w)
        PROVE  row[e].status = "delivered" \/ delivery[e][t] = "delivered"
    BY <1>0, <1>4 DEF TypeOK, MarkError
  <1>5. ASSUME NEW d \in Events, Emit(d) \/ Wake(d) \/ \E u \in Rows : RetryDelivery(d, u)
        PROVE  row[e].status = "delivered" \/ delivery[e][t] = "delivered"
    BY <1>0, <1>5, TableEffect
  <1>6. ASSUME NEW w \in Workers, \/ Poll(w) \/ Claim(w) \/ ReadAgain(w) \/ Raise(w)
                                  \/ Abandon(w) \/ \E u \in Targets : Deliver(w, u)
        PROVE  row[e].status = "delivered" \/ delivery[e][t] = "delivered"
    BY <1>6 DEF Poll, Claim, ReadAgain, Raise, Abandon, Deliver
  <1>7. QED
    BY <1>2, <1>3, <1>4, <1>5, <1>6 DEF Next, Step, vars

\* A worker that writes a count of max_retries or more has earned it.
LEMMA LastTry ==
  ASSUME OutboxInv, NEW w \in Workers, pc[w] \in {"routing", "marking"},
         NEW c \in Events, c = Current(w), seen[w][c].retry + 1 >= MaxRetries
  PROVE  Charged(c) = MaxRetries
  <1>0. TypeOK /\ Counted
    BY DEF OutboxInv
  <1>1. w \in Busy(c) /\ seen[w][c] # None
    BY CurrentIn DEF Busy
  <1>2. PICK n \in Nat : n = seen[w][c].retry /\ Bound(c, n)
    BY <1>0, <1>1, CountType DEF Counted
  <1>3. n + Cardinality(Busy(c)) <= Charged(c) \/ Charged(c) = MaxRetries
    BY <1>2 DEF Bound
  <1>4. Cardinality(Busy(c)) \in Nat /\ Cardinality(Busy(c)) # 0
    BY <1>1, BusyFinite, FS_EmptySet
  <1>5. Charged(c) \in 0..MaxRetries /\ MaxRetries \in Nat
    BY <1>0, ChargedType
  <1>6. QED
    BY <1>2, <1>3, <1>4, <1>5

\* The step that dead-letters an event that was not.
LEMMA DeadLetterStarts ==
  ASSUME OutboxInv, [Next]_vars, NEW e \in Events,
         row'[e].status = "failed", row[e].status # "failed"
  PROVE  /\ Charged(e) = MaxRetries
         /\ tried'[e] = tried[e] /\ lost'[e] >= lost[e] /\ raced' = raced
  <1>0. TypeOK
    BY DEF OutboxInv
  <1>1. ASSUME NEW w \in Workers, Settle(w) \/ SettleLost(w)
        PROVE  /\ Charged(e) = MaxRetries
               /\ tried'[e] = tried[e] /\ lost'[e] >= lost[e] /\ raced' = raced
    <2>0. Outcome(w)
      BY <1>1 DEF Settle, SettleLost
    <2>1. PICK c \in Events : c = Current(w) /\ pc[w] = "routing"
      BY <2>0, CurrentIn DEF Outcome
    <2>2. e = c
      BY <1>0, <2>0, <2>1 DEF TypeOK, Outcome
    <2>3. seen[w][e].retry + 1 >= MaxRetries
      BY <1>0, <2>0, <2>1, <2>2 DEF TypeOK, Outcome, Retried
    <2>4. Charged(e) = MaxRetries
      BY <2>1, <2>2, <2>3, LastTry
    <2>5. tried' = tried /\ lost'[e] >= lost[e] /\ raced' = raced
      <3>1. lost[e] \in Nat
        BY <1>0 DEF TypeOK
      <3>2. CASE Settle(w)
        BY <3>1, <3>2 DEF Settle, counts
      <3>3. CASE SettleLost(w)
        BY <1>0, <2>1, <2>2, <3>1, <3>3 DEF TypeOK, SettleLost
      <3>4. QED
        BY <1>1, <3>2, <3>3
    <2>6. QED
      BY <2>4, <2>5
  <1>2. ASSUME NEW w \in Workers, MarkError(w)
        PROVE  Charged(e) = MaxRetries /\ UNCHANGED counts
    <2>1. PICK c \in Events : c = Current(w) /\ pc[w] = "marking"
      BY <1>2, CurrentIn DEF MarkError
    <2>2. e = c /\ UNCHANGED counts
      BY <1>0, <1>2, <2>1 DEF TypeOK, MarkError
    <2>3. seen[w][e].retry \in Nat
      BY <2>1, <2>2, CurrentIn DEF Snapshot
    <2>4. ~(seen[w][e].retry + 1 < MaxRetries)
      BY <1>0, <1>2, <2>1, <2>2 DEF TypeOK, MarkError
    <2>5. QED
      BY <2>1, <2>2, <2>3, <2>4, LastTry, LimitsAssumption
  <1>3. ASSUME NEW d \in Events, Emit(d) \/ Wake(d) \/ \E u \in Rows : RetryDelivery(d, u)
        PROVE  FALSE
    BY <1>0, <1>3, TableEffect
  <1>4. ASSUME NEW w \in Workers, \/ Poll(w) \/ Claim(w) \/ ReadAgain(w) \/ Raise(w)
                                  \/ Abandon(w) \/ \E u \in Targets : Deliver(w, u)
        PROVE  FALSE
    BY <1>4 DEF Poll, Claim, ReadAgain, Raise, Abandon, Deliver
  <1>5. lost[e] \in Nat
    BY <1>0 DEF TypeOK
  <1>6. QED
    BY <1>1, <1>2, <1>3, <1>4, <1>5 DEF Next, Step, vars, counts

\* A dead letter is charged in full until it is opened again.
LEMMA DeadLetterKept ==
  ASSUME OutboxInv, [Next]_vars, NEW e \in Events,
         row'[e].status = "failed", row[e].status = "failed"
  PROVE  /\ tried'[e] >= tried[e] /\ lost'[e] >= lost[e] /\ (e \in raced => e \in raced')
  <1>0. TypeOK /\ tried[e] \in Nat /\ lost[e] \in Nat
    BY LimitsAssumption DEF OutboxInv, TypeOK
  <1>1. ASSUME NEW w \in Workers, Claim(w) \/ SettleLost(w)
        PROVE  tried'[e] >= tried[e] /\ lost'[e] >= lost[e] /\ raced' = raced
    <2>1. CASE Claim(w)
      <3>1. tried'[e] \in {tried[e], tried[e] + 1} /\ lost' = lost /\ raced' = raced
        BY <1>0, <2>1 DEF TypeOK, Claim
      <3>2. QED
        BY <1>0, <3>1
    <2>2. CASE SettleLost(w)
      <3>1. lost'[e] \in {lost[e], lost[e] + 1} /\ tried' = tried /\ raced' = raced
        BY <1>0, <2>2 DEF TypeOK, SettleLost
      <3>2. QED
        BY <1>0, <3>1
    <2>3. QED
      BY <1>1, <2>1, <2>2
  <1>2. ASSUME NEW d \in Events, NEW u \in Rows, RetryDelivery(d, u)  PROVE FALSE
    BY <1>2 DEF RetryDelivery
  <1>3. CASE UNCHANGED counts
    BY <1>0, <1>3 DEF counts
  <1>4. QED
    BY <1>1, <1>2, <1>3 DEF Next, Step, Emit, Wake, Poll, Deliver, Settle, ReadAgain,
           MarkError, Raise, Abandon, vars

LEMMA DeadLetterStep == OutboxInv /\ [Next]_vars => DeadLetterEarned'
  <1> SUFFICES ASSUME OutboxInv, [Next]_vars, NEW e \in Events, row'[e].status = "failed"
               PROVE  tried'[e] + lost'[e] >= MaxRetries \/ e \in raced'
    BY DEF DeadLetterEarned
  <1>0. TypeOK /\ TypeOK' /\ MaxRetries \in Nat
    BY OutboxTypeStep, LimitsAssumption DEF OutboxInv
  <1>1. tried[e] + lost[e] >= MaxRetries \/ e \in raced
    <2>1. CASE row[e].status = "failed"
      BY <2>1 DEF OutboxInv, DeadLetterEarned
    <2>2. CASE row[e].status # "failed"
      BY <1>0, <2>2, DeadLetterStarts, ChargedType
    <2>3. QED
      BY <2>1, <2>2
  <1>2. tried'[e] >= tried[e] /\ lost'[e] >= lost[e] /\ (e \in raced => e \in raced')
    <2>1. tried[e] \in Nat
      BY <1>0 DEF TypeOK
    <2>2. QED
      BY <2>1, DeadLetterStarts, DeadLetterKept
  <1>3. /\ tried[e] \in Nat /\ lost[e] \in Nat /\ tried'[e] \in Nat /\ lost'[e] \in Nat
    BY <1>0 DEF TypeOK
  <1>4. QED
    BY <1>0, <1>1, <1>2, <1>3

-------------------------------------------------------------------------------
LEMMA OutboxInit == Init => OutboxInv
  <1> SUFFICES ASSUME Init  PROVE OutboxInv
    OBVIOUS
  <1>1. TypeOK
    BY OutboxTypeInit
  <1>2. InHand /\ MarksTrue /\ DeliveredArrived /\ DeadLetterEarned
    BY DEF Init, InHand, MarksTrue, DeliveredArrived, DeadLetterEarned, Rows
  <1>3. Counted
    <2>1. \A e \in Events : Cardinality(Busy(e)) = 0
      BY FS_EmptySet DEF Init, Busy
    <2>2. \A e \in Events : Charged(e) \in Nat
      BY <1>1, ChargedType
    <2>3. QED
      BY <2>1, <2>2 DEF Init, Counted, Bound, Unseen
  <1>4. QED
    BY <1>1, <1>2, <1>3 DEF OutboxInv

THEOREM OutboxInvariance == Spec => []OutboxInv
  <1>1. OutboxInv /\ [Next]_vars => OutboxInv'
    BY OutboxTypeStep, InHandStep, MarksTrueStep, CountedStep, DeliveredStep, DeadLetterStep
       DEF OutboxInv
  <1>2. QED
    BY <1>1, OutboxInit, PTL DEF Spec

\* Every variable keeps its type.
THEOREM OutboxTypeCorrect == Spec => []TypeOK
  BY OutboxInvariance, PTL DEF OutboxInv

\* What is marked delivered has reached its integrations.
THEOREM DeliveredArrivedAlways == Spec => []DeliveredArrived
  BY OutboxInvariance, PTL DEF OutboxInv

\* No event is dead-lettered before max_retries dispatches since it was opened,
\* but for the dispatches that a lost answer to a COMMIT made count twice, and for
\* an event that was opened again while a worker had an old object of it.
THEOREM DeadLetterEarnedAlways == Spec => []DeadLetterEarned
  BY OutboxInvariance, PTL DEF OutboxInv

-------------------------------------------------------------------------------
\* The outbox delivers as the abstract outbox does.  A step of a worker decides
\* on an event only if it was committed and dispatched.

\* A snapshot is one of a committed event; deliveries are inserted with theirs.
Known ==
  /\ \A w \in Workers, e \in Events : seen[w][e] # None => row[e].status # "none"
  /\ \A e \in Events, t \in Rows : row[e].status = "none" => delivery[e][t] = "none"
PromiseInv == OutboxInv /\ Known

View(s) == CASE s = "none" -> "absent" [] s = "delivered" -> "delivered"
             [] s = "failed" -> "dead" [] OTHER -> "open"

LEMMA ViewOf ==
  ASSUME NEW e \in Events
  PROVE  StateView[e] = View(row[e].status)
  BY DEF StateView, View

\* A step that leaves tables, arrivals and dispatches alone is none of the outbox's.
LEMMA PromiseIdle ==
  ASSUME UNCHANGED <<row, delivery, received, counts>>
  PROVE  UNCHANGED Promise!vars
  BY ChargeKept DEF Promise!vars, StateView, Confirmed

LEMMA InHandKnown ==
  ASSUME PromiseInv, NEW w \in Workers, pc[w] # "idle"
  PROVE  /\ Current(w) \in Events /\ row[Current(w)].status # "none"
         /\ pc[w] \in {"routing", "raised", "marking"} => Charged(Current(w)) > 0
  <1>1. PICK c \in Events : c = Current(w)
    BY CurrentIn DEF PromiseInv
  <1>2. seen[w][c] # None /\ seen[w][c] \in Snapshot
    BY <1>1, CurrentIn DEF PromiseInv
  <1>3. row[c].status # "none"
    BY <1>2 DEF PromiseInv, Known
  <1>4. ASSUME pc[w] \in {"routing", "raised", "marking"}  PROVE Charged(c) > 0
    <2>1. w \in Busy(c)
      BY <1>1, <1>4 DEF Busy
    <2>2. PICK n \in Nat : n = seen[w][c].retry /\ Bound(c, n)
      BY <1>2 DEF PromiseInv, OutboxInv, Counted, Snapshot
    <2>3. n + Cardinality(Busy(c)) <= Charged(c) \/ Charged(c) = MaxRetries
      BY <2>2 DEF Bound
    <2>4. Cardinality(Busy(c)) \in Nat /\ Cardinality(Busy(c)) # 0
      BY <2>1, BusyFinite, FS_EmptySet
    <2>5. Charged(c) \in 0..MaxRetries
      BY ChargedType DEF PromiseInv, OutboxInv
    <2>6. QED
      BY <2>2, <2>3, <2>4, <2>5, LimitsAssumption
  <1>5. QED
    BY <1>1, <1>3, <1>4

LEMMA KnownStep == PromiseInv /\ [Next]_vars => Known'
  <1> SUFFICES ASSUME PromiseInv, [Next]_vars  PROVE Known'
    OBVIOUS
  <1>0. TypeOK /\ OutboxInv
    BY DEF PromiseInv, OutboxInv
  \* Enough: committed rows stay, and neither snapshots nor deliveries precede them.
  <1>a. ASSUME \A e \in Events : row[e].status # "none" => row'[e].status # "none",
               \A x \in Workers, e \in Events :
                  seen'[x][e] # None => seen[x][e] # None \/ row[e].status # "none",
               \A e \in Events, t \in Rows :
                  row'[e].status = "none" => delivery'[e][t] = delivery[e][t]
        PROVE  Known'
    <2>1. ASSUME NEW x \in Workers, NEW e \in Events, seen'[x][e] # None
          PROVE  row'[e].status # "none"
      BY <1>a, <2>1 DEF PromiseInv, Known
    <2>2. ASSUME NEW e \in Events, NEW t \in Rows, row'[e].status = "none"
          PROVE  delivery'[e][t] = "none"
      BY <1>a, <2>2 DEF PromiseInv, Known
    <2>3. QED
      BY <2>1, <2>2 DEF Known
  <1>1. ASSUME NEW e \in Events, Emit(e)  PROVE Known'
    <2>1. row'[e].status = "pending" /\ seen' = seen
      BY <1>0, <1>1 DEF TypeOK, Emit
    <2>2. \A d \in Events \ {e} : row'[d] = row[d] /\ delivery'[d] = delivery[d]
      BY <1>0, <1>1 DEF TypeOK, Emit
    <2>3. QED
      BY <1>a, <2>1, <2>2
  <1>2. ASSUME NEW e \in Events, Wake(e)  PROVE Known'
    <2>1. \A d \in Events : row'[d].status = row[d].status
      BY <1>0, <1>2 DEF TypeOK, Wake, Row
    <2>2. QED
      BY <1>2, <1>a, <2>1 DEF Wake
  <1>3. ASSUME NEW w \in Workers, Poll(w)  PROVE Known'
    <2>1. \A e \in FirstOf(Ready, BatchSize) : row[e].status # "none"
      BY DEF FirstOf, Ready
    <2>2. \A x \in Workers, e \in Events :
            seen'[x][e] # None => seen[x][e] # None \/ row[e].status # "none"
      BY <1>0, <1>3, <2>1 DEF TypeOK, Poll
    <2>3. QED
      BY <1>3, <1>a, <2>2 DEF Poll
  <1>4. ASSUME NEW w \in Workers, Settle(w) \/ SettleLost(w)  PROVE Known'
    <2>0. Outcome(w)
      BY <1>4 DEF Settle, SettleLost
    <2>1. PICK c \in Events : c = Current(w) /\ row[c].status # "none"
      BY <2>0, InHandKnown DEF Outcome
    <2>2. \A d \in Events \ {c} : row'[d] = row[d] /\ delivery'[d] = delivery[d]
      BY <1>0, <2>0, <2>1 DEF TypeOK, Outcome
    <2>3. row'[c].status # "none"
      BY <1>0, <2>0, <2>1 DEF TypeOK, Outcome, Retried, Row
    <2>4. \A x \in Workers, e \in Events : seen'[x][e] # None => seen[x][e] # None
      <3>1. CASE Settle(w)
        BY <1>0, <3>1 DEF TypeOK, Settle
      <3>2. CASE SettleLost(w)
        BY <3>2 DEF SettleLost
      <3>3. QED
        BY <1>4, <3>1, <3>2
    <2>5. QED
      BY <1>a, <2>2, <2>3, <2>4
  <1>5. ASSUME NEW w \in Workers, ReadAgain(w)  PROVE Known'
    <2>1. PICK c \in Events : c = Current(w) /\ row[c].status # "none"
      BY <1>5, InHandKnown DEF ReadAgain
    <2>2. seen' = [seen EXCEPT ![w] = [Unseen EXCEPT ![c] = SnapshotOf(c)]]
      BY <1>5, <2>1 DEF ReadAgain
    <2>3. \A x \in Workers, e \in Events :
            seen'[x][e] # None => seen[x][e] # None \/ row[e].status # "none"
      BY <1>0, <2>1, <2>2 DEF TypeOK, Unseen
    <2>4. QED
      BY <1>5, <1>a, <2>3 DEF ReadAgain
  <1>6. ASSUME NEW w \in Workers, MarkError(w)  PROVE Known'
    <2>1. PICK c \in Events : c = Current(w) /\ row[c].status # "none"
      BY <1>6, InHandKnown DEF MarkError
    <2>2. (\A d \in Events \ {c} : row'[d] = row[d]) /\ row'[c].status # "none"
      BY <1>0, <1>6, <2>1 DEF TypeOK, MarkError
    <2>3. \A x \in Workers, e \in Events : seen'[x][e] # None => seen[x][e] # None
      BY <1>0, <1>6, IdleEffect DEF MarkError
    <2>4. QED
      BY <1>6, <1>a, <2>2, <2>3 DEF MarkError
  <1>7. ASSUME NEW w \in Workers, Abandon(w)  PROVE Known'
    <2>1. \A x \in Workers, e \in Events : seen'[x][e] # None => seen[x][e] # None
      BY <1>0, <1>7, IdleEffect DEF Abandon
    <2>2. QED
      BY <1>7, <1>a, <2>1 DEF Abandon
  <1>8. ASSUME NEW w \in Workers, Claim(w) \/ Raise(w) \/ \E t \in Targets : Deliver(w, t)
        PROVE  Known'
    BY <1>8, <1>a DEF Claim, Raise, Deliver
  <1>9. ASSUME NEW e \in Events, NEW t \in Rows, RetryDelivery(e, t)  PROVE Known'
    <2>1. \A d \in Events : row'[d].status \in {"pending", row[d].status}
      BY <1>0, <1>9, TableEffect
    <2>2. row[e].status # "none" /\ row'[e].status # "none"
      BY <1>9, <2>1 DEF RetryDelivery, PromiseInv, Known
    <2>3. \A d \in Events \ {e} : delivery'[d] = delivery[d]
      BY <1>0, <1>9 DEF TypeOK, RetryDelivery
    <2>4. seen' = seen
      BY <1>9 DEF RetryDelivery
    <2>5. QED
      BY <1>a, <2>1, <2>2, <2>3, <2>4
  <1>10. CASE UNCHANGED vars
    BY <1>10, <1>a DEF vars
  <1>11. QED
    BY <1>1, <1>2, <1>3, <1>4, <1>5, <1>6, <1>7, <1>8, <1>9, <1>10 DEF Next, Step

\* What a worker writes about the event it has dispatched concludes it.
LEMMA ConcludeStep ==
  ASSUME OutboxInv, OutboxInv', NEW c \in Events, Charged(c) > 0,
         ChargeView' \in {ChargeView, Promise!Tried(c)}, received' = received,
         row'[c].status = "failed" => Charged(c) = MaxRetries,
         \A d \in Events \ {c} : row'[d].status = row[d].status /\ delivery'[d] = delivery[d],
         row'[c].status # "none"
  PROVE  Promise!Next
  <1> DEFINE s == View(row'[c].status)
             ts == {t \in Targets : delivery'[c][t] = "delivered"}
  <1>0. TypeOK /\ TypeOK' /\ DeliveredArrived'
    BY DEF OutboxInv
  <1>1. s \in {"open", "delivered", "dead"}
    BY DEF View
  <1>2. s = "delivered" => \A t \in Targets : <<c, t>> \in received
    BY <1>0 DEF View, DeliveredArrived
  <1>3. s = "dead" => Charged(c) = MaxRetries
    BY DEF View
  <1>4. \A t \in ts : <<c, t>> \in received
    BY <1>0 DEF DeliveredArrived
  <1>5. StateView' = [StateView EXCEPT ![c] = s]
    <2>1. \A e \in Events : StateView'[e] = IF e = c THEN s ELSE StateView[e]
      BY DEF StateView, View
    <2>2. QED
      BY <2>1 DEF StateView
  <1>6. Confirmed' = {p \in Confirmed : p[1] # c} \cup {<<c, t>> : t \in ts}
    BY DEF Confirmed
  <1>7. Promise!Conclude(c, s, ts)
    BY <1>2, <1>3, <1>4, <1>5, <1>6 DEF Promise!Conclude, ChargeView
  <1> HIDE DEF s
  <1>8. QED
    BY <1>1, <1>7 DEF Promise!Next

LEMMA TriedOnce ==
  ASSUME TypeOK, NEW c \in Events, raced' = raced,
         \/ /\ tried' = [tried EXCEPT ![c] = IF @ < MaxRetries THEN @ + 1 ELSE @]
            /\ lost' = lost
         \/ tried' = tried /\ lost' = [lost EXCEPT ![c] = @ + 1]
  PROVE  ChargeView' = Promise!Tried(c)
  <1>1. \A e \in Events : Charged(e)' =
          IF e = c /\ Charged(e) < MaxRetries THEN Charged(e) + 1 ELSE Charged(e)
    BY ChargedOnce
  <1>2. \A e \in Events : ChargeView[e] = Charged(e) /\ ChargeView'[e] = Charged(e)'
    BY DEF ChargeView
  <1>3. ChargeView' = [e \in Events |->
          IF e = c /\ ChargeView[e] < MaxRetries THEN ChargeView[e] + 1 ELSE ChargeView[e]]
    BY <1>1, <1>2 DEF ChargeView
  <1>4. QED
    BY <1>3 DEF ChargeView, Promise!Tried

\* A step leaves a dead letter only where the charge was full.
LEMMA DeadCharged ==
  ASSUME OutboxInv, [Next]_vars, NEW c \in Events, row'[c].status = "failed"
  PROVE  Charged(c) = MaxRetries
  <1>1. CASE row[c].status = "failed"
    BY <1>1, ChargedType DEF OutboxInv, DeadLetterEarned
  <1>2. CASE row[c].status # "failed"
    BY <1>2, DeadLetterStarts
  <1>3. QED
    BY <1>1, <1>2

LEMMA PromiseStep ==
  PromiseInv /\ OutboxInv' /\ [Next]_vars => [Promise!Next]_(Promise!vars)
  <1> SUFFICES ASSUME PromiseInv, OutboxInv', [Next]_vars
               PROVE  Promise!Next \/ UNCHANGED Promise!vars
    OBVIOUS
  <1>0. TypeOK /\ OutboxInv
    BY DEF PromiseInv, OutboxInv
  <1>1. ASSUME NEW e \in Events, Emit(e)  PROVE Promise!Next
    <2>1. StateView[e] = "absent" /\ StateView' = [StateView EXCEPT ![e] = "open"]
      <3>1. \A d \in Events \ {e} : row'[d] = row[d]
        BY <1>0, <1>1 DEF TypeOK, Emit
      <3>2. row[e].status = "none" /\ row'[e].status = "pending"
        BY <1>0, <1>1 DEF TypeOK, Emit
      <3>3. \A d \in Events : StateView'[d] = IF d = e THEN "open" ELSE StateView[d]
        BY <3>1, <3>2 DEF StateView
      <3>4. QED
        BY <3>2, <3>3 DEF StateView
    <2>2. Confirmed' = Confirmed
      <3>1. \A t \in Targets : delivery[e][t] # "delivered" /\ delivery'[e][t] # "delivered"
        BY <1>0, <1>1 DEF TypeOK, Emit, PromiseInv, Known, Rows
      <3>2. \A d \in Events \ {e} : delivery'[d] = delivery[d]
        BY <1>0, <1>1 DEF TypeOK, Emit
      <3>3. QED
        BY <3>1, <3>2 DEF Confirmed
    <2>3. ChargeView' = ChargeView
      BY <1>1, ChargeKept DEF Emit
    <2>4. QED
      BY <1>1, <2>1, <2>2, <2>3 DEF Emit, Promise!Next, Promise!Accept
  <1>2. ASSUME NEW e \in Events, Wake(e)  PROVE UNCHANGED Promise!vars
    <2>1. \A d \in Events : row'[d].status = row[d].status
      BY <1>0, <1>2 DEF TypeOK, Wake, Row
    <2>2. StateView' = StateView
      BY <2>1 DEF StateView
    <2>3. QED
      BY <1>2, <2>2, ChargeKept DEF Wake, Promise!vars, Confirmed
  <1>3. ASSUME NEW w \in Workers, Poll(w) \/ ReadAgain(w) \/ Raise(w) \/ Abandon(w)
        PROVE  UNCHANGED Promise!vars
    BY <1>3, PromiseIdle DEF Poll, ReadAgain, Raise, Abandon
  <1>4. ASSUME NEW w \in Workers, Claim(w)  PROVE Promise!Next
    <2>1. PICK c \in Events : c = Current(w) /\ row[c].status # "none"
      BY <1>4, InHandKnown DEF Claim
    <2>2. StateView[c] # "absent"
      BY <2>1 DEF StateView
    <2>3. StateView' = StateView /\ Confirmed' = Confirmed
      BY <1>4 DEF Claim, StateView, Confirmed
    <2>4. ChargeView' = Promise!Tried(c)
      BY <1>0, <1>4, <2>1, TriedOnce DEF Claim
    <2>5. QED
      BY <1>4, <2>1, <2>2, <2>3, <2>4 DEF Claim, Promise!Next, Promise!Dispatch
  <1>5. ASSUME NEW w \in Workers, NEW t \in Targets, Deliver(w, t)
        PROVE  Promise!Next \/ UNCHANGED Promise!vars
    <2>1. PICK c \in Events : c = Current(w) /\ Charged(c) > 0
      BY <1>5, InHandKnown DEF Deliver
    <2>2. received' = received \/ received' = received \cup {<<c, t>>}
      BY <1>5, <2>1 DEF Deliver
    <2>3. StateView' = StateView /\ Confirmed' = Confirmed
      BY <1>5 DEF Deliver, StateView, Confirmed
    <2>4. ChargeView' = ChargeView /\ ChargeView[c] > 0
      BY <1>5, <2>1, ChargeKept DEF Deliver, ChargeView
    <2>5. QED
      BY <1>5, <2>1, <2>2, <2>3, <2>4 DEF Deliver, Promise!Next, Promise!Arrive, Promise!vars
  <1>6. ASSUME NEW w \in Workers, Settle(w) \/ SettleLost(w)  PROVE Promise!Next
    <2>0. Outcome(w) /\ received' = received
      BY <1>6 DEF Settle, SettleLost
    <2>1. PICK c \in Events : c = Current(w) /\ row[c].status # "none" /\ Charged(c) > 0
      BY <2>0, InHandKnown DEF Outcome
    <2>2. \A d \in Events \ {c} : row'[d] = row[d] /\ delivery'[d] = delivery[d]
      BY <1>0, <2>0, <2>1 DEF TypeOK, Outcome
    <2>3. row'[c].status # "none"
      BY <1>0, <2>0, <2>1 DEF TypeOK, Outcome, Retried, Row
    <2>4. ChargeView' \in {ChargeView, Promise!Tried(c)}
      <3>1. CASE Settle(w)
        BY <3>1, ChargeKept DEF Settle
      <3>2. CASE SettleLost(w)
        BY <1>0, <2>1, <3>2, TriedOnce DEF SettleLost
      <3>3. QED
        BY <1>6, <3>1, <3>2
    <2>5. row'[c].status = "failed" => Charged(c) = MaxRetries
      BY <1>0, DeadCharged
    <2>6. QED
      BY <1>0, <2>0, <2>1, <2>2, <2>3, <2>4, <2>5, ConcludeStep
  <1>7. ASSUME NEW w \in Workers, MarkError(w)  PROVE Promise!Next
    <2>1. PICK c \in Events : c = Current(w) /\ row[c].status # "none" /\ Charged(c) > 0
      BY <1>7, InHandKnown DEF MarkError
    <2>2. (\A d \in Events \ {c} : row'[d] = row[d]) /\ row'[c].status # "none"
      BY <1>0, <1>7, <2>1 DEF TypeOK, MarkError
    <2>3. ChargeView' = ChargeView /\ received' = received /\ delivery' = delivery
      BY <1>7, ChargeKept DEF MarkError
    <2>4. row'[c].status = "failed" => Charged(c) = MaxRetries
      BY <1>0, DeadCharged
    <2>5. QED
      BY <1>0, <2>1, <2>2, <2>3, <2>4, ConcludeStep
  <1>8. ASSUME NEW e \in Events, NEW t \in Rows, RetryDelivery(e, t)  PROVE Promise!Next
    <2> DEFINE es == {d \in Events : row[d].status = "failed"}
               undone == IF t \in Targets THEN {<<e, t>>} ELSE {}
    <2>1. \A d \in es : StateView[d] = "dead"
      BY DEF StateView
    <2>2. StateView' = [d \in Events |-> IF d \in es THEN "open" ELSE StateView[d]]
      <3>1. \A d \in Events : row'[d].status =
              IF row[d].status = "failed" THEN "pending" ELSE row[d].status
        BY <1>8 DEF RetryDelivery
      <3>2. \A d \in Events : StateView'[d] = IF d \in es THEN "open" ELSE StateView[d]
        BY <3>1 DEF StateView
      <3>3. QED
        BY <3>2 DEF StateView
    <2>3. Confirmed' = Confirmed \ undone
      <3>1. \A d \in Events, u \in Rows :
              delivery'[d][u] = IF d = e /\ u = t THEN "queued" ELSE delivery[d][u]
        BY <1>0, <1>8 DEF TypeOK, RetryDelivery
      <3>2. ASSUME NEW d \in Events, NEW u \in Targets
            PROVE  <<d, u>> \in Confirmed' <=> <<d, u>> \in Confirmed /\ <<d, u>> \notin undone
        <4>1. u \in Rows
          BY DEF Rows
        <4>2. delivery'[d][u] = IF d = e /\ u = t THEN "queued" ELSE delivery[d][u]
          BY <3>1, <4>1
        <4>3. QED
          BY <4>2 DEF Confirmed
      <3>3. Confirmed' \subseteq Events \X Targets /\ Confirmed \subseteq Events \X Targets
        BY DEF Confirmed
      <3>4. QED
        BY <3>2, <3>3
    <2>4. ChargeView' = [d \in Events |-> IF d \in es \ raced' THEN 0 ELSE ChargeView[d]]
      <3>1. ASSUME NEW d \in Events, d \notin es  PROVE Charged(d)' = Charged(d)
        BY <1>8, <3>1 DEF RetryDelivery, Reopen, Charged
      <3>2. ASSUME NEW d \in es, d \in raced'  PROVE Charged(d)' = Charged(d)
        BY <1>0, <3>2, ChargedType DEF OutboxInv, DeadLetterEarned, Charged
      <3>3. ASSUME NEW d \in es, d \notin raced'  PROVE Charged(d)' = 0
        BY <1>8, <3>3, LimitsAssumption DEF RetryDelivery, Reopen, Charged
      <3>4. \A d \in Events : Charged(d)' = IF d \in es \ raced' THEN 0 ELSE Charged(d)
        BY <3>1, <3>2, <3>3
      <3>5. QED
        BY <3>4 DEF ChargeView
    <2>5. Promise!Requeue(es, raced', undone)
      BY <1>8, <2>1, <2>2, <2>3, <2>4 DEF RetryDelivery, Promise!Requeue
    <2>6. /\ es \in SUBSET Events /\ raced' \in SUBSET Events
          /\ undone \in {{}} \cup {{p} : p \in Events \X Targets}
      BY DEF OutboxInv, TypeOK
    <2> HIDE DEF es, undone
    <2>7. QED
      BY <2>5, <2>6 DEF Promise!Next
  <1>9. CASE UNCHANGED vars
    BY <1>9, PromiseIdle DEF vars
  <1>10. QED
    BY <1>1, <1>2, <1>3, <1>4, <1>5, <1>6, <1>7, <1>8, <1>9 DEF Next, Step

\* The workers and the administrator implement the abstract outbox.
THEOREM DeliveryImplemented == Spec => ImplementsDelivery
  <1>1. Init => Promise!Init /\ Known
    <2>1. Init => StateView = [e \in Events |-> "absent"] /\ Confirmed = {}
      BY DEF Init, StateView, Confirmed, Rows
    <2>2. Init => ChargeView = [e \in Events |-> 0]
      BY LimitsAssumption DEF Init, ChargeView, Charged
    <2>3. QED
      BY <2>1, <2>2 DEF Init, Promise!Init, Known, Unseen
  <1>2. Known /\ OutboxInv /\ [Next]_vars => Known'
    BY KnownStep DEF PromiseInv
  <1>3. Known /\ OutboxInv /\ OutboxInv' /\ [Next]_vars => [Promise!Next]_(Promise!vars)
    BY PromiseStep DEF PromiseInv
  <1>4. QED
    BY <1>1, <1>2, <1>3, OutboxInvariance, PTL DEF Spec, ImplementsDelivery, Promise!Spec
===============================================================================
