----------------------- MODULE MessageService_refinement -----------------------
(***************************************************************************)
(* MessageService implements MessageLog: under the mapping LogView and     *)
(* AnswerView every step of send_message, of its callers, of a failing     *)
(* COMMIT and of a dying worker is a step of the append-only log, or       *)
(* leaves it and the answers alone.                                        *)
(***************************************************************************)
EXTENDS MessageService_proof, SequenceTheorems

\* Two ways to say that t is s with e at its end.
LEMMA AppendedSeq ==
  ASSUME NEW S, NEW s \in Seq(S), NEW e \in S, NEW t \in Seq(S), NEW k \in Nat,
         Len(s) = k, Len(t) = k + 1, \A i \in 1..k : t[i] = s[i], t[k + 1] = e
  PROVE  t = Append(s, e)
  OBVIOUS

\* The row of a number is the one committed row that carries it.
LEMMA RowAtUnique ==
  ASSUME UniqueRows, NEW m \in messages
  PROVE  RowAt(m.conv, m.seq) = m
  BY DEF UniqueRows, Clash, RowAt

LEMMA RowAtExists ==
  ASSUME IInv, NEW v \in Convs, NEW n \in 1..MaxSeq(v)
  PROVE  RowAt(v, n) \in messages /\ RowAt(v, n).conv = v /\ RowAt(v, n).seq = n
  <1>1. n \in Seqs(v)
    BY DEF IInv, Numbered
  <1>2. \E m \in messages : m.conv = v /\ m.seq = n
    BY <1>1 DEF Seqs
  <1>3. QED
    BY <1>2 DEF RowAt

\* The mapped log is a sequence of entries, one for each committed number.
LEMMA LogViewType ==
  ASSUME IInv, NEW v \in Convs
  PROVE  /\ LogView[v] \in Seq(Log!Entry)
         /\ Len(LogView[v]) = MaxSeq(v) /\ DOMAIN LogView[v] = 1..MaxSeq(v)
         /\ \A n \in 1..MaxSeq(v) :
               LogView[v][n] = [id |-> RowAt(v, n).id, cid |-> RowAt(v, n).cid]
  <1> DEFINE f == [n \in 1..MaxSeq(v) |-> [id |-> RowAt(v, n).id, cid |-> RowAt(v, n).cid]]
  <1>1. LogView[v] = f
    BY DEF LogView
  <1>2. MaxSeq(v) \in Nat
    BY DEF IInv, Numbered
  <1>3. \A n \in 1..MaxSeq(v) : f[n] \in Log!Entry
    BY RowAtExists DEF IInv, TypeOK, Message, Log!Entry
  <1>4. f \in Seq(Log!Entry) /\ Len(f) = MaxSeq(v)
    BY <1>2, <1>3
  <1>5. QED
    BY <1>1, <1>4

\* A committed row keeps its place in the next state.
LEMMA RowAtKept ==
  ASSUME IInv, UniqueRows', [Next]_vars, NEW m \in messages'
  PROVE  RowAt(m.conv, m.seq)' = m
  BY DEF UniqueRows, Clash, RowAt

LEMMA SameLog ==
  ASSUME messages' = messages
  PROVE  LogView' = LogView
  BY DEF LogView, RowAt, MaxSeq, Seqs

\* A COMMIT of a row appends it to its conversation's log.
LEMMA LogExtends ==
  ASSUME IInv, IInv', [Next]_vars, NEW c \in Calls, Persist(c), staged[c] # {}
  PROVE  /\ RowOf(c).conv \in Convs /\ RowOf(c).cid \in ClientIds
         /\ \A n \in DOMAIN LogView[RowOf(c).conv] :
               LogView[RowOf(c).conv][n].cid # RowOf(c).cid
         /\ LogView' = [LogView EXCEPT ![RowOf(c).conv] =
                          Append(@, [id |-> c, cid |-> RowOf(c).cid])]
  <1>1. PICK r \in Message : r = RowOf(c)
    BY StagedRow
  <1>2. /\ r.conv \in Convs /\ r.id = c /\ r.cid \in ClientIds
        /\ r.seq = MaxSeq(r.conv) + 1 /\ r \in staged[c]
        /\ messages' = messages \cup {r}
    BY <1>1, StagedRow, CommitExtends DEF RowOf, Message
  <1>3. PICK v \in Convs : v = r.conv
    BY <1>2
  <1>4. \A n \in 1..MaxSeq(v) : LogView[v][n].cid # r.cid
    <2> SUFFICES ASSUME NEW n \in 1..MaxSeq(v), LogView[v][n].cid = r.cid
                 PROVE  FALSE
      OBVIOUS
    <2>1. RowAt(v, n) \in messages /\ RowAt(v, n).conv = v
      BY RowAtExists
    <2>2. LogView[v][n] = [id |-> RowAt(v, n).id, cid |-> RowAt(v, n).cid]
      BY LogViewType
    <2>3. RowAt(v, n).cid = r.cid
      BY <2>2
    <2>4. QED
      BY <2>1, <2>3, <1>2, <1>3 DEF IInv, StagedFresh, Clash
  <1>5. \A u \in Convs : \A n \in 1..MaxSeq(u) : RowAt(u, n)' = RowAt(u, n)
    <2> SUFFICES ASSUME NEW u \in Convs, NEW n \in 1..MaxSeq(u)
                 PROVE  RowAt(u, n)' = RowAt(u, n)
      OBVIOUS
    <2>1. PICK m \in messages : m = RowAt(u, n) /\ m.conv = u /\ m.seq = n
      BY RowAtExists
    <2>2. RowAt(m.conv, m.seq)' = m
      BY <1>2, RowAtKept DEF IInv
    <2>3. QED
      BY <2>1, <2>2
  <1>6. ASSUME NEW u \in Convs, u # v  PROVE LogView'[u] = LogView[u]
    <2>1. MaxSeq(u)' = MaxSeq(u)
      BY <1>1, <1>3, <1>6, CommitExtends
    <2>2. QED
      BY <2>1, <1>5 DEF LogView
  <1>7. LogView'[v] = Append(LogView[v], [id |-> c, cid |-> r.cid])
    <2>1. PICK k \in Nat : k = MaxSeq(v) /\ MaxSeq(v)' = k + 1
      BY <1>1, <1>3, CommitExtends DEF IInv, Numbered
    <2> DEFINE e == [id |-> c, cid |-> r.cid]
               t == [n \in 1..(k + 1) |-> [id |-> RowAt(v, n)'.id, cid |-> RowAt(v, n)'.cid]]
    <2>2. LogView'[v] = t
      BY <2>1 DEF LogView
    <2>3. LogView[v] \in Seq(Log!Entry) /\ Len(LogView[v]) = k /\ e \in Log!Entry
      BY <1>2, <2>1, LogViewType DEF Log!Entry
    <2>4. ASSUME NEW n \in 1..k  PROVE t[n] = LogView[v][n]
      BY <2>1, <1>5, LogViewType
    <2>5. t[k + 1] = e
      <3>1. RowAt(r.conv, r.seq)' = r
        BY <1>2, RowAtKept DEF IInv
      <3>2. RowAt(v, k + 1)' = r
        BY <3>1, <1>2, <1>3, <2>1
      <3>3. t[k + 1] = [id |-> RowAt(v, k + 1)'.id, cid |-> RowAt(v, k + 1)'.cid]
        BY <2>1
      <3>4. QED
        BY <3>2, <3>3, <1>2
    <2>6. t \in Seq(Log!Entry) /\ Len(t) = k + 1
      <3>1. \A n \in 1..k : LogView[v][n] \in Log!Entry
        BY <2>3
      <3>2. \A n \in 1..(k + 1) : t[n] \in Log!Entry
        <4> HIDE DEF e, t
        <4> QED  BY <3>1, <2>3, <2>4, <2>5
      <3>3. QED
        BY <3>2
    <2> HIDE DEF e, t
    <2>7. t = Append(LogView[v], e)
      BY <2>3, <2>4, <2>5, <2>6, AppendedSeq
    <2>8. QED
      BY <2>2, <2>7 DEF e
  <1>8. LogView' = [LogView EXCEPT ![v] = Append(@, [id |-> c, cid |-> r.cid])]
    BY <1>6, <1>7 DEF LogView
  <1>9. DOMAIN LogView[v] = 1..MaxSeq(v)
    BY LogViewType
  <1>10. QED
    BY <1>1, <1>2, <1>3, <1>4, <1>8, <1>9

-------------------------------------------------------------------------------
\* After a step, every committed row stands in the log at its own number.
LEMMA PlaceOfRow ==
  ASSUME IInv', NEW m \in messages'
  PROVE  /\ m.conv \in Convs /\ m.cid \in ClientIds
         /\ m.seq \in DOMAIN LogView'[m.conv]
         /\ LogView'[m.conv][m.seq].cid = m.cid
  <1>1. m \in Message /\ m.conv \in Convs /\ m.cid \in ClientIds
    BY DEF IInv, TypeOK, Message
  <1>2. m.seq \in Seqs(m.conv)'
    BY DEF Seqs
  <1>3. PICK v \in Convs, n \in Nat : v = m.conv /\ n = m.seq /\ n \in 1..MaxSeq(v)'
    BY <1>1, <1>2 DEF IInv, Numbered, Message
  <1>4. RowAt(v, n)' = m
    BY <1>3 DEF IInv, UniqueRows, Clash, RowAt
  <1>5. LogView'[v] = [i \in 1..MaxSeq(v)' |->
                         [id |-> RowAt(v, i)'.id, cid |-> RowAt(v, i)'.cid]]
    BY DEF LogView
  <1>6. QED
    BY <1>1, <1>3, <1>4, <1>5

\* The caller's steps end no call but their own and keep every result.
LEMMA OneCallEnds ==
  ASSUME TypeOK, NEW c \in Calls, Announce(c) \/ Respond(c) \/ Commit(c)
  PROVE  result' = result /\ \A d \in Calls \ {c} : pc'[d] = pc[d]
  BY DEF TypeOK, Announce, Respond, Commit, StepDone

\* A step gives no call an answer, or gives one call the answer of its result.
LEMMA AnswerChange ==
  ASSUME IInv, [Next]_vars
  PROVE  \/ AnswerView' = AnswerView
         \/ \E c \in Calls :
              /\ pc[c] # "done" /\ pc'[c] = "done"
              /\ Announce(c) \/ Respond(c) \/ Commit(c)
              /\ result' = result
              /\ AnswerView' = [AnswerView EXCEPT ![c] =
                   [conv |-> result[c].conv, cid |-> result[c].cid, seq |-> result[c].seq]]
  <1>0. TypeOK
    BY DEF IInv
  <1>1. ASSUME NEW d \in Calls, pc[d] = "done"
        PROVE  pc'[d] = "done" /\ result'[d] = result[d]
    BY <1>0, <1>1, ReturnedKeeps DEF Ended
  <1>2. CASE \A d \in Calls : pc'[d] = "done" => pc[d] = "done"
    <2>1. AnswerView' = AnswerView
      BY <1>1, <1>2 DEF AnswerView
    <2>2. QED
      BY <2>1
  <1>3. ASSUME NEW c \in Calls, pc'[c] = "done", pc[c] # "done"
        PROVE  /\ Announce(c) \/ Respond(c) \/ Commit(c)
               /\ result' = result
               /\ AnswerView' = [AnswerView EXCEPT ![c] =
                    [conv |-> result[c].conv, cid |-> result[c].cid, seq |-> result[c].seq]]
    <2>1. pc[c] = "epilogue"
      BY <1>0, <1>3, DoneStarts
    <2>2. Announce(c) \/ Respond(c) \/ Commit(c)
      BY <1>0, <1>3, <2>1, EpilogueKeeps DEF CommitFails, CommitLost, Persist, TypeOK
    <2>3. result' = result /\ \A d \in Calls \ {c} : pc'[d] = pc[d]
      BY <1>0, <2>2, OneCallEnds
    <2>4. QED
      BY <1>3, <2>2, <2>3 DEF AnswerView
  <1>4. QED
    BY <1>2, <1>3

\* A call that ends is told the place of its client id, as the step leaves the log.
LEMMA AnswerTold ==
  ASSUME IInv, IInv', [Next]_vars, NEW c \in Calls, pc[c] # "done", pc'[c] = "done",
         result' = result,
         AnswerView' = [AnswerView EXCEPT ![c] =
           [conv |-> result[c].conv, cid |-> result[c].cid, seq |-> result[c].seq]]
  PROVE  /\ result[c].conv \in Convs /\ result[c].cid \in ClientIds
         /\ Log!Tell(c, result[c].conv, result[c].cid)
  <1>1. PICK m \in messages' : m = result[c]
    BY DEF IInv, AnsweredIsStored
  <1>2. AnswerView[c] = None
    BY DEF AnswerView
  <1>3. /\ m.conv \in Convs /\ m.cid \in ClientIds /\ m.seq \in DOMAIN LogView'[m.conv]
        /\ LogView'[m.conv][m.seq].cid = m.cid
    BY PlaceOfRow
  <1>4. QED
    BY <1>1, <1>2, <1>3 DEF Log!Tell

\* Every step of the service is a step of the log, or changes nothing of it.
LEMMA LogStep ==
  ASSUME IInv, IInv', [Next]_vars
  PROVE  [Log!Next]_(Log!vars)
  <1>1. ASSUME LogView' = LogView  PROVE [Log!Next]_(Log!vars)
    <2>1. CASE AnswerView' = AnswerView
      BY <1>1, <2>1 DEF Log!vars
    <2>2. CASE AnswerView' # AnswerView
      <3>1. PICK c \in Calls :
              /\ pc[c] # "done" /\ pc'[c] = "done" /\ result' = result
              /\ AnswerView' = [AnswerView EXCEPT ![c] =
                   [conv |-> result[c].conv, cid |-> result[c].cid, seq |-> result[c].seq]]
        BY <2>2, AnswerChange
      <3>2. QED
        BY <1>1, <3>1, AnswerTold DEF Log!Next
    <2>3. QED
      BY <2>1, <2>2
  <1>2. ASSUME NEW c \in Calls, Persist(c), Commit(c) \/ CommitLost(c), staged[c] # {}
        PROVE  [Log!Next]_(Log!vars)
    <2>0. TypeOK
      BY DEF IInv
    <2>1. PICK v \in Convs, k \in ClientIds :
            /\ v = RowOf(c).conv /\ k = RowOf(c).cid
            /\ \A n \in DOMAIN LogView[v] : LogView[v][n].cid # k
            /\ LogView' = [LogView EXCEPT ![v] = Append(@, [id |-> c, cid |-> k])]
      BY <1>2, LogExtends
    <2>2. Log!Append1(c, v, k)
      BY <2>1 DEF Log!Append1
    <2>3. CASE AnswerView' = AnswerView
      BY <2>2, <2>3 DEF Log!Next
    <2>4. CASE AnswerView' # AnswerView
      <3>1. PICK d \in Calls :
              /\ pc[d] # "done" /\ pc'[d] = "done" /\ result' = result
              /\ AnswerView' = [AnswerView EXCEPT ![d] =
                   [conv |-> result[d].conv, cid |-> result[d].cid, seq |-> result[d].seq]]
        BY <2>4, AnswerChange
      <3>2. d = c
        BY <1>2, <2>0, <3>1, OneCallEnds DEF CommitLost, TypeOK
      <3>3. result[c] = RowOf(c)
        BY <1>2, StagedRow DEF IInv, Pending, Commit, CommitLost, AtStep
      <3>4. Log!Tell(c, v, k)
        BY <2>1, <3>1, <3>2, <3>3, AnswerTold
      <3>5. QED
        BY <2>2, <3>4 DEF Log!Next
    <2>5. QED
      BY <2>3, <2>4
  <1>3. ASSUME NEW c \in Calls, Persist(c), staged[c] = {}  PROVE messages' = messages
    BY <1>3 DEF Persist
  <1>4. QED
    BY <1>1, <1>2, <1>3, SameLog, OnlyCommitWrites DEF tables

LEMMA LogInit == Init => Log!Init
  <1> SUFFICES ASSUME Init  PROVE Log!Init
    OBVIOUS
  <1>1. ASSUME NEW v \in Convs  PROVE MaxSeq(v) = 0
    <2>1. Seqs(v) = {} /\ {} = 1..0
      BY DEF Init, Seqs
    <2>2. QED
      BY <2>1, MaxOfInterval DEF MaxSeq
  <1>2. ASSUME NEW v \in Convs  PROVE LogView[v] = <<>>
    <2>1. LogView[v] = [n \in 1..0 |-> [id |-> RowAt(v, n).id, cid |-> RowAt(v, n).cid]]
      BY <1>1 DEF LogView
    <2>2. QED
      BY <2>1
  <1>3. LogView = [v \in Convs |-> <<>>]
    BY <1>2 DEF LogView
  <1>4. AnswerView = [c \in Calls |-> None]
    BY DEF Init, AnswerView
  <1>5. QED
    BY <1>3, <1>4 DEF Log!Init

\* send_message implements the append-only log.
THEOREM Refinement == Spec => ImplementsLog
  <1>1. IInv /\ IInv' /\ [Next]_vars => [Log!Next]_(Log!vars)
    BY LogStep
  <1>2. QED
    BY <1>1, LogInit, Invariance, PTL DEF Spec, ImplementsLog, Log!Spec

-------------------------------------------------------------------------------
(* Feed: what the hub's sockets see of the same calls. *)

Early == {"idle", "locking"} \cup Critical
\* A committed row is what its own call was given; a call that send_message has
\* not answered holds no result.
RowsOwn ==
  \A m \in messages : result[m.id] = m /\ pc[m.id] \in {"epilogue"} \cup Ended
NoneYet == \A c \in Calls : pc[c] \in Early => result[c] = None
FInv == IInv /\ RowsOwn /\ NoneYet

LEMMA EarlyKeeps ==
  ASSUME TypeOK, [Next]_vars, NEW c \in Calls, pc'[c] \in Early
  PROVE  pc[c] \in Early /\ result'[c] = result[c]
  <1>1. ASSUME NEW d \in Calls, Arrive(d) \/ Acquire(d) \/ FindNone(d) \/ Allocate(d)
                 \/ FlushConflict(d) \/ FlushBusy(d) \/ RecheckNone(d) \/ Caller(d)
        PROVE  result' = result
    BY <1>1 DEF Arrive, Acquire, FindNone, Allocate, FlushConflict, FlushBusy,
           RecheckNone, Raise, Caller, Announce, Respond, Commit, CommitFails, CommitLost,
           Persist
  <1>2. ASSUME NEW d \in Calls, FindDuplicate(d) \/ Flush(d) \/ Touch(d) \/ RecheckDuplicate(d)
        PROVE  result'[c] = result[c]
    <2>1. "epilogue" \notin Early
      BY DEF Early, Critical
    <2>2. QED
      BY <1>2, <2>1 DEF FindDuplicate, Flush, Inserted, Touch, RecheckDuplicate, Return,
             Raise,
         TypeOK
  <1>3. ASSUME NEW w \in Workers, Crash(w)  PROVE result' = result
    BY <1>3 DEF Crash
  <1>4. CASE UNCHANGED vars
    BY <1>4 DEF vars
  <1>5. result'[c] = result[c]
    BY <1>1, <1>2, <1>3, <1>4 DEF Next, Service
  <1>6. pc[c] \in Early
    <2>1. Early \cap ({"epilogue"} \cup Ended) = {}
      BY DEF Early, Critical, Ended
    <2>2. pc[c] \in Early \cup {"epilogue"} \cup Ended
      BY DEF TypeOK, Early, Running
    <2>3. QED
      BY <2>1, <2>2, ReturnedKeeps
  <1>7. QED
    BY <1>5, <1>6

\* The row of an open transaction is what its call was given, once it is.
LEMMA StagedResult ==
  ASSUME IInv, NEW c \in Calls, staged[c] # {}, pc[c] = "epilogue"
  PROVE  /\ staged[c] = {result[c]} /\ result[c] = RowOf(c) /\ result[c] \in Message
         /\ result[c].id = c /\ result[c] \notin messages
  <1>1. staged[c] = {RowOf(c)} /\ RowOf(c) \in Message /\ RowOf(c) \notin messages
    BY StagedRow
  <1>2. staged[c] = {result[c]}
    BY <1>1 DEF IInv, Pending
  <1>3. result[c] = RowOf(c)
    BY <1>1, <1>2
  <1>4. RowOf(c).id = c
    BY DEF RowOf
  <1>5. QED
    BY <1>1, <1>2, <1>3, <1>4

LEMMA FInvStep == FInv /\ [Next]_vars => FInv'
  <1> SUFFICES ASSUME FInv, [Next]_vars  PROVE FInv'
    OBVIOUS
  <1>0. IInv /\ TypeOK /\ IInv'
    BY InvStep DEF FInv, IInv
  <1>1. ASSUME NEW m \in messages'
        PROVE  result'[m.id] = m /\ pc'[m.id] \in {"epilogue"} \cup Ended
    <2>1. CASE m \in messages
      <3>1. m.id \in Calls /\ result[m.id] = m /\ pc[m.id] \in {"epilogue"} \cup Ended
        BY <1>0, <2>1 DEF FInv, RowsOwn, TypeOK, Message
      <3>2. QED
        BY <1>0, <3>1, ReturnedKeeps
    <2>2. CASE m \notin messages
      <3>1. PICK c \in Calls : m \in staged[c] /\ pc[c] = "epilogue"
        BY <1>1, <2>2, OnlyCommitWrites DEF tables, Persist, Commit, CommitLost, AtStep
      <3>2. m = result[c] /\ m.id = c
        BY <1>0, <3>1, StagedResult
      <3>3. QED
        BY <1>0, <3>1, <3>2, ReturnedKeeps
    <2>3. QED
      BY <2>1, <2>2
  <1>2. NoneYet'
    BY <1>0, EarlyKeeps DEF FInv, NoneYet
  <1>3. QED
    BY <1>0, <1>1, <1>2 DEF FInv, RowsOwn

THEOREM FInvariance == Spec => []FInv
  <1>1. Init => FInv
    BY InvInit DEF Init, FInv, RowsOwn, NoneYet
  <1>2. FInv /\ [Next]_vars => FInv'
    BY FInvStep
  <1>3. QED
    BY <1>1, <1>2, PTL DEF Spec

-------------------------------------------------------------------------------
\* A call's place in the feed, in the order Stage tells them apart.
LEMMA Stages ==
  ASSUME NEW c \in Calls
  PROVE  /\ Stage(c) = "stored" <=> OwnRow(c) /\ result[c] \in messages
         /\ Stage(c) = "staged" <=> /\ OwnRow(c) /\ result[c] \notin messages
                                    /\ req[c].entry = "rest" /\ staged[c] # {}
         /\ Stage(c) = "aborted" <=> /\ OwnRow(c) /\ result[c] \notin messages
                                     /\ req[c].entry = "rest" /\ staged[c] = {}
         /\ Stage(c) \in {"unsent", "staged", "stored", "aborted"}
         /\ Stage(c) # "unsent" => OwnRow(c)
  BY DEF Stage

\* A call whose result stays keeps its place in the feed, unless its row is
\* committed or rolled back.
LEMMA StageKept ==
  ASSUME FInv, [Next]_vars, NEW c \in Calls, result'[c] = result[c],
         OwnRow(c) => (result[c] \in messages' <=> result[c] \in messages),
         staged'[c] = {} <=> staged[c] = {}
  PROVE  Stage(c)' = Stage(c)
  <1>1. OwnRow(c)' = OwnRow(c)
    BY DEF OwnRow
  <1>2. ASSUME OwnRow(c)  PROVE req'[c] = req[c]
    <2>1. pc[c] # "idle"
      BY <1>2 DEF OwnRow, FInv, NoneYet, Early
    <2>2. QED
      BY <2>1, RequestKept DEF FInv, IInv
  <1>3. QED
    BY <1>1, <1>2 DEF Stage

LEMMA FeedSame ==
  ASSUME \A c \in Calls : /\ Stage(c)' = Stage(c)
                          /\ Stage(c) # "unsent" => result'[c] = result[c]
  PROVE  UNCHANGED Sockets!vars
  BY DEF Sockets!vars, StageView, NumView, PlaceView

\* One call's place in the feed changes, and the message it carries does not.
LEMMA FeedMoves ==
  ASSUME NEW c \in Calls, Stage(c) # "unsent", Stage(c)' # "unsent", result'[c] = result[c],
         \A d \in Calls \ {c} : /\ Stage(d)' = Stage(d)
                                /\ Stage(d) # "unsent" => result'[d] = result[d]
  PROVE  /\ StageView' = [StageView EXCEPT ![c] = Stage(c)']
         /\ NumView' = NumView /\ PlaceView' = PlaceView
  BY DEF StageView, NumView, PlaceView

\* The last number of a conversation's feed is its MAX(sequence_number).
LEMMA LastOfFeed ==
  ASSUME FInv, NEW v \in Convs
  PROVE  Sockets!Last(v) = MaxSeq(v)
  <1> DEFINE N == {NumView[c] : c \in {d \in Calls : StageView[d] = "stored" /\ PlaceView[d] = v}}
  <1>1. ASSUME NEW n \in N  PROVE n \in Seqs(v)
    <2>1. PICK c \in Calls : Stage(c) = "stored" /\ PlaceView[c] = v /\ n = NumView[c]
      BY DEF StageView
    <2>2. result[c] \in messages
      BY <2>1, Stages
    <2>3. n = result[c].seq /\ result[c].conv = v
      BY <2>1 DEF NumView, PlaceView
    <2>4. QED
      BY <2>2, <2>3 DEF Seqs
  <1>2. ASSUME NEW n \in Seqs(v)  PROVE n \in N
    <2>1. PICK m \in messages : m.conv = v /\ m.seq = n
      BY <1>2 DEF Seqs
    <2>2. m \in Message /\ m.id \in Calls /\ result[m.id] = m
      BY DEF FInv, IInv, TypeOK, RowsOwn, Message
    <2>3. PICK c \in Calls : c = m.id /\ result[c] = m
      BY <2>2
    <2>4. OwnRow(c)
      BY <2>2, <2>3, NoneAssumption DEF OwnRow
    <2>5. Stage(c) = "stored"
      BY <2>3, <2>4, Stages
    <2>6. StageView[c] = "stored" /\ PlaceView[c] = v /\ NumView[c] = n
      BY <2>1, <2>3, <2>5 DEF StageView, PlaceView, NumView
    <2>7. QED
      BY <2>6
  <1>3. N = Seqs(v)
    BY <1>1, <1>2
  <1>4. Sockets!Numbers(v) = Seqs(v)
    BY <1>3 DEF Sockets!Numbers
  <1>5. QED
    BY <1>4 DEF Sockets!Last, MaxSeq

\* An open transaction whose call knows its row is in the hands of the caller.
LEMMA OwnReturned ==
  ASSUME FInv, NEW c \in Calls, staged[c] # {}, OwnRow(c)
  PROVE  pc[c] = "epilogue"
  BY DEF FInv, IInv, StagedOwn, NoneYet, OwnRow, Early, Critical

\* Only one message of a conversation is announced and uncommitted.
LEMMA StagedInFeed ==
  ASSUME FInv, NEW c \in Calls, NEW v, StageView[c] = "staged", PlaceView[c] = v
  PROVE  \E m \in staged[c] : m.conv = v
  <1>1. Stage(c) = "staged"
    BY DEF StageView
  <1>2. staged[c] # {} /\ result[c].conv = v /\ OwnRow(c)
    BY <1>1, Stages DEF PlaceView
  <1>3. pc[c] = "epilogue"
    BY <1>2, OwnReturned
  <1>4. QED
    BY <1>2, <1>3, StagedResult DEF FInv

\* A call's row becomes known to the sockets' callers: it enters the feed.
LEMMA EntersFeed ==
  ASSUME FInv, FInv', [Next]_vars, NEW c \in Calls, NEW v \in Convs, Stage(c) = "unsent",
         Stage(c)' \in {"staged", "stored"}, result'[c].conv = v,
         result'[c].seq = MaxSeq(v) + 1,
         \A d \in Calls \ {c} : \A m \in staged[d] : m.conv # v,
         \A d \in Calls \ {c} : /\ Stage(d)' = Stage(d)
                                /\ Stage(d) # "unsent" => result'[d] = result[d]
  PROVE  Sockets!Enter(c, v)
  <1>1. StageView[c] = "unsent"
    BY DEF StageView
  <1>2. ~\E d \in Calls : StageView[d] = "staged" /\ PlaceView[d] = v
    BY <1>1, StagedInFeed
  <1>3. StageView' = [StageView EXCEPT ![c] = Stage(c)']
    BY DEF StageView
  <1>4. NumView' = [NumView EXCEPT ![c] = MaxSeq(v) + 1]
    BY DEF NumView
  <1>5. PlaceView' = [PlaceView EXCEPT ![c] = v]
    BY DEF PlaceView
  <1>6. Sockets!Last(v) = MaxSeq(v)
    BY LastOfFeed
  <1>7. QED
    BY <1>1, <1>2, <1>3, <1>4, <1>5, <1>6 DEF Sockets!Enter

-------------------------------------------------------------------------------
\* A duplicate's answer is another call's row: it enters nothing.
LEMMA DuplicateInFeed ==
  ASSUME FInv, [Next]_vars, NEW c \in Calls, pc[c] \in Early, NEW m \in Duplicates(c),
         Return(c, m), messages' = messages, staged' = staged
  PROVE  UNCHANGED Sockets!vars
  <1>0. IInv /\ TypeOK
    BY DEF FInv, IInv
  <1>1. m \in messages /\ result[m.id] = m /\ pc[m.id] \in {"epilogue"} \cup Ended
    BY DEF FInv, RowsOwn, Duplicates
  <1>2. m.id # c
    <2>1. Early \cap ({"epilogue"} \cup Ended) = {}
      BY DEF Early, Critical, Ended
    <2>2. QED
      BY <1>1, <2>1
  <1>3. result' = [result EXCEPT ![c] = m]
    BY DEF Return
  <1>4. Stage(c) = "unsent" /\ Stage(c)' = "unsent"
    <2>1. ~OwnRow(c)
      BY DEF OwnRow, FInv, NoneYet
    <2>2. ~OwnRow(c)'
      BY <1>0, <1>2, <1>3 DEF OwnRow, TypeOK
    <2>3. QED
      BY <2>1, <2>2 DEF Stage
  <1>5. ASSUME NEW d \in Calls \ {c}  PROVE Stage(d)' = Stage(d) /\ result'[d] = result[d]
    <2>1. result'[d] = result[d]
      BY <1>0, <1>3 DEF TypeOK
    <2>2. QED
      BY <2>1, StageKept
  <1>6. QED
    BY <1>4, <1>5, FeedSame

\* The INSERTs of a message enter nothing: a REST call does not know its row yet,
\* and the row of another call is announced after its COMMIT.
LEMMA FlushInFeed ==
  ASSUME FInv, [Next]_vars, NEW c \in Calls, Flush(c)
  PROVE  UNCHANGED Sockets!vars
  <1>0. IInv /\ TypeOK
    BY DEF FInv, IInv
  <1>1. /\ messages' = messages /\ req' = req /\ pc[c] = "flushing"
        /\ staged' = [staged EXCEPT ![c] = {RowOf(c)}] /\ Inserted(c)
    BY DEF Flush, tables
  <1>2. \A d \in Calls \ {c} : result'[d] = result[d] /\ staged'[d] = staged[d]
    BY <1>0, <1>1 DEF TypeOK, Inserted, Return
  <1>3. ASSUME NEW d \in Calls \ {c}  PROVE Stage(d)' = Stage(d)
    BY <1>1, <1>2, StageKept
  <1>4. result[c] = None /\ Stage(c) = "unsent"
    BY <1>1 DEF OwnRow, FInv, NoneYet, Early, Critical, Stage
  <1>5. Stage(c)' = "unsent"
    <2>1. CASE result' = result
      BY <1>4, <2>1 DEF Stage, OwnRow
    <2>2. CASE req[c].entry # "rest" /\ Return(c, RowOf(c))
      <3>1. result'[c] = RowOf(c)
        BY <1>0, <2>2 DEF TypeOK, Return
      <3>2. RowOf(c) \notin messages
        BY <1>0, FlushedRow DEF Clash
      <3>3. QED
        BY <1>1, <2>2, <3>1, <3>2 DEF Stage
    <2>3. QED
      BY <1>1, <2>1, <2>2 DEF Inserted
  <1>6. QED
    BY <1>2, <1>3, <1>4, <1>5, FeedSame

\* A REST call that returns from send_message is about to announce its row.
LEMMA TouchInFeed ==
  ASSUME FInv, FInv', [Next]_vars, NEW c \in Calls, Touch(c)
  PROVE  [Sockets!Next]_(Sockets!vars)
  <1>0. IInv /\ TypeOK
    BY DEF FInv, IInv
  <1>1. /\ result' = [result EXCEPT ![c] = RowOf(c)] /\ messages' = messages
        /\ staged' = staged /\ req' = req /\ pc[c] = "touching"
    BY DEF Touch, Return, tables
  <1>2. staged[c] = {RowOf(c)} /\ req[c].entry = "rest"
    BY <1>0, <1>1, TouchingRow
  <1>3. PICK v \in Convs : v = RowOf(c).conv /\ RowOf(c).seq = MaxSeq(v) + 1
    BY <1>0, <1>2, StagedRow
  <1>4. RowOf(c) \in Message /\ RowOf(c) \notin messages /\ RowOf(c).id = c
    BY <1>0, <1>2, StagedRow DEF RowOf
  <1>5. \A d \in Calls \ {c} : \A m \in staged[d] : m.conv # v
    BY <1>0, <1>2, <1>3 DEF IInv, CommitsInOrder
  <1>6. ASSUME NEW d \in Calls \ {c}  PROVE Stage(d)' = Stage(d) /\ result'[d] = result[d]
    <2>1. result'[d] = result[d]
      BY <1>0, <1>1 DEF TypeOK
    <2>2. QED
      BY <1>1, <2>1, StageKept
  <1>7. Stage(c) = "unsent"
    BY <1>1 DEF OwnRow, FInv, NoneYet, Early, Critical, Stage
  <1>8. result'[c] = RowOf(c)
    BY <1>0, <1>1 DEF TypeOK
  <1>9. Stage(c)' = "staged"
    BY <1>1, <1>2, <1>4, <1>8, NoneAssumption DEF Stage, OwnRow
  <1>10. Sockets!Enter(c, v)
    BY <1>3, <1>5, <1>6, <1>7, <1>8, <1>9, EntersFeed
  <1>11. QED
    BY <1>10 DEF Sockets!Next

\* COMMIT stores the announced message of a REST call; another call's enters.
LEMMA CommitInFeed ==
  ASSUME FInv, FInv', [Next]_vars, NEW c \in Calls, Persist(c), staged[c] # {},
         pc[c] = "epilogue", result' = result
  PROVE  [Sockets!Next]_(Sockets!vars)
  <1>0. IInv /\ TypeOK
    BY DEF FInv, IInv
  <1>1. /\ staged[c] = {result[c]} /\ result[c] = RowOf(c) /\ result[c] \in Message
        /\ result[c].id = c /\ result[c] \notin messages /\ OwnRow(c)
    BY <1>0, StagedResult, NoneAssumption DEF OwnRow
  <1>2. PICK v \in Convs : v = result[c].conv /\ result[c].seq = MaxSeq(v) + 1
    BY <1>0, <1>1, StagedRow
  <1>3. result' = result /\ messages' = messages \cup {result[c]} /\ staged' = [staged EXCEPT ![c] = {}]
    BY <1>1 DEF Persist
  <1>4. ASSUME NEW d \in Calls \ {c}  PROVE Stage(d)' = Stage(d) /\ result'[d] = result[d]
    <2>1. staged'[d] = staged[d]
      BY <1>0, <1>3 DEF TypeOK
    <2>2. OwnRow(d) => result[d] # result[c]
      BY <1>1 DEF OwnRow
    <2>3. QED
      BY <1>3, <2>1, <2>2, StageKept
  <1>5. Stage(c)' = "stored"
    BY <1>1, <1>3 DEF Stage, OwnRow
  <1>6. \A d \in Calls \ {c} : \A m \in staged[d] : m.conv # v
    BY <1>0, <1>1, <1>2 DEF IInv, CommitsInOrder
  <1>7. CASE req[c].entry = "rest"
    <2>1. Stage(c) = "staged"
      BY <1>1, <1>7, Stages
    <2>2. StageView[c] = "staged"
      BY <2>1 DEF StageView
    <2>3. Sockets!Store(c)
      BY <1>3, <1>4, <1>5, <2>1, <2>2, FeedMoves DEF Sockets!Store
    <2>4. QED
      BY <2>3 DEF Sockets!Next
  <1>8. CASE req[c].entry # "rest"
    <2>1. Stage(c) = "unsent"
      BY <1>1, <1>8 DEF Stage
    <2>2. Sockets!Enter(c, v)
      BY <1>2, <1>3, <1>4, <1>5, <1>6, <2>1, EntersFeed
    <2>3. QED
      BY <2>2 DEF Sockets!Next
  <1>9. QED
    BY <1>7, <1>8

\* A failing COMMIT, or a dying worker, aborts the announced messages it rolls back.
LEMMA RollbackInFeed ==
  ASSUME FInv, [Next]_vars, result' = result, messages' = messages,
         \A c \in Calls : staged'[c] \in {staged[c], {}}
  PROVE  [Sockets!Next]_(Sockets!vars)
  <1> DEFINE ms == {c \in Calls : Stage(c) = "staged" /\ staged'[c] = {}}
  <1>1. ASSUME NEW c \in ms  PROVE Stage(c)' = "aborted" /\ Stage(c) = "staged"
    <2>1. c \in Calls /\ OwnRow(c) /\ result[c] \notin messages /\ req[c].entry = "rest"
      BY Stages
    <2>2. req'[c] = req[c]
      <3>1. pc[c] # "idle"
        BY <2>1 DEF OwnRow, FInv, NoneYet, Early
      <3>2. QED
        BY <2>1, <3>1, RequestKept DEF FInv, IInv
    <2>3. QED
      BY <2>1, <2>2 DEF Stage, OwnRow
  <1>2. ASSUME NEW c \in Calls \ ms  PROVE Stage(c)' = Stage(c)
    <2>1. CASE staged'[c] = {} <=> staged[c] = {}
      BY <2>1, StageKept
    <2>2. CASE ~OwnRow(c)
      BY <2>2 DEF Stage, OwnRow
    <2>3. CASE OwnRow(c) /\ staged'[c] = {} /\ staged[c] # {}
      <3>1. OwnRow(c) /\ result[c] \notin messages
        BY <2>3, OwnReturned, StagedResult DEF FInv
      <3>2. Stage(c) # "staged"
        BY <2>3
      <3>3. req[c].entry # "rest"
        BY <2>3, <3>1, <3>2, Stages
      <3>4. req'[c] = req[c]
        <4>1. pc[c] # "idle"
          BY <3>1 DEF OwnRow, FInv, NoneYet, Early
        <4>2. QED
          BY <4>1, RequestKept DEF FInv, IInv
      <3>5. QED
        BY <3>1, <3>3, <3>4 DEF Stage, OwnRow
    <2>4. QED
      BY <2>1, <2>2, <2>3
  <1>3. StageView' = [c \in Calls |-> IF c \in ms THEN "aborted" ELSE StageView[c]]
    BY <1>1, <1>2 DEF StageView
  <1>4. \A c \in Calls : Stage(c)' = "unsent" <=> Stage(c) = "unsent"
    BY <1>1, <1>2
  <1>5. NumView' = NumView /\ PlaceView' = PlaceView
    BY <1>4 DEF NumView, PlaceView
  <1>6. \A c \in ms : StageView[c] = "staged"
    BY DEF StageView
  <1>7. ms \in SUBSET Calls
    OBVIOUS
  <1> HIDE DEF ms
  <1>8. Sockets!Abort(ms)
    BY <1>3, <1>5, <1>6 DEF Sockets!Abort
  <1>9. QED
    BY <1>7, <1>8 DEF Sockets!Next

\* Every step of the service is a step of the feed, or changes nothing of it.
LEMMA FeedStep ==
  ASSUME FInv, FInv', [Next]_vars
  PROVE  [Sockets!Next]_(Sockets!vars)
  <1>0. TypeOK
    BY DEF FInv, IInv
  <1>1. ASSUME result' = result, messages' = messages, staged' = staged
        PROVE  [Sockets!Next]_(Sockets!vars)
    BY <1>1, StageKept, FeedSame
  <1>2. ASSUME NEW c \in Calls, Arrive(c) \/ Acquire(c) \/ FindNone(c) \/ Allocate(c)
                 \/ FlushConflict(c) \/ FlushBusy(c) \/ RecheckNone(c)
                 \/ Announce(c) \/ Respond(c)
        PROVE  result' = result /\ messages' = messages /\ staged' = staged
    BY <1>2 DEF Arrive, Acquire, FindNone, Allocate, FlushConflict, FlushBusy,
           RecheckNone, Raise, Announce, Respond, tables
  <1>a. ASSUME NEW c \in Calls, Commit(c) \/ CommitLost(c)
        PROVE  [Sockets!Next]_(Sockets!vars)
    <2>1. Persist(c) /\ result' = result /\ pc[c] = "epilogue"
      BY <1>a DEF Commit, CommitLost, AtStep
    <2>2. CASE staged[c] = {}
      <3>1. messages' = messages /\ staged' = staged
        BY <1>0, <2>1, <2>2 DEF Persist, TypeOK
      <3>2. QED
        BY <1>1, <2>1, <3>1
    <2>3. CASE staged[c] # {}
      BY <2>1, <2>3, CommitInFeed
    <2>4. QED
      BY <2>2, <2>3
  <1>3. ASSUME NEW c \in Calls, FindDuplicate(c) \/ RecheckDuplicate(c)
        PROVE  [Sockets!Next]_(Sockets!vars)
    <2>1. pc[c] \in Early /\ messages' = messages /\ staged' = staged
      BY <1>3 DEF FindDuplicate, RecheckDuplicate, Early, Critical, tables
    <2>2. CASE result' = result
      BY <1>1, <2>1, <2>2
    <2>3. CASE \E m \in Duplicates(c) : Return(c, m)
      BY <2>1, <2>3, DuplicateInFeed
    <2>4. QED
      BY <1>3, <2>2, <2>3 DEF FindDuplicate, RecheckDuplicate, Raise
  <1>4. ASSUME NEW c \in Calls, CommitFails(c)  PROVE [Sockets!Next]_(Sockets!vars)
    <2>1. result' = result /\ messages' = messages /\ \A d \in Calls : staged'[d] \in {staged[d], {}}
      BY <1>0, <1>4 DEF CommitFails, tables, TypeOK
    <2>2. QED
      BY <2>1, RollbackInFeed
  <1>5. ASSUME NEW w \in Workers, Crash(w)  PROVE [Sockets!Next]_(Sockets!vars)
    <2>1. result' = result /\ messages' = messages /\ \A d \in Calls : staged'[d] \in {staged[d], {}}
      BY <1>5 DEF Crash, tables
    <2>2. QED
      BY <2>1, RollbackInFeed
  <1>6. CASE UNCHANGED vars
    BY <1>1, <1>6 DEF vars, tables
  <1>7. QED
    BY <1>1, <1>2, <1>a, <1>3, <1>4, <1>5, <1>6, FlushInFeed, TouchInFeed
       DEF Next, Service, Caller

LEMMA FeedInit == Init => Sockets!Init
  <1> SUFFICES ASSUME Init  PROVE Sockets!Init
    OBVIOUS
  <1>1. \A c \in Calls : Stage(c) = "unsent"
    BY DEF Init, Stage, OwnRow
  <1>2. QED
    BY <1>1 DEF Sockets!Init, StageView, NumView, PlaceView

\* What the hub is built on, for every number of calls, workers and conversations.
THEOREM FeedImplemented == Spec => ImplementsFeed
  <1>1. FInv /\ FInv' /\ [Next]_vars => [Sockets!Next]_(Sockets!vars)
    BY FeedStep
  <1>2. QED
    BY <1>1, FeedInit, FInvariance, PTL DEF Spec, ImplementsFeed, Sockets!Spec
===============================================================================
