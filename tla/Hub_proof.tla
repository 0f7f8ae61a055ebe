------------------------------- MODULE Hub_proof -------------------------------
(***************************************************************************)
(* Proofs about Hub for every set of clients, workers and messages, and    *)
(* every limit.  IInv is built in three layers:                            *)
(*   Ground   types, rooms and broadcasts, the numbers of the log;         *)
(*   Display  what is on the wire or shown was sent, and the cursor;       *)
(*   Arrival  whatever a sync has to cover is shown, on the wire or due.   *)
(* A step is followed through them in this order: what it does to the log  *)
(* (Grows) and to what is on its way (Kept) is what the next layer needs.  *)
(***************************************************************************)
EXTENDS Hub, FiniteSetTheorems, WellFoundedInduction, TLAPS

LEMMA HighestOf ==
  ASSUME NEW S, S \subseteq Nat, NEW b \in Nat, \A s \in S : s <= b
  PROVE  /\ Highest(S) \in S \cup {0}
         /\ Highest(S) \in Nat
         /\ \A s \in S : s <= Highest(S)
  <1> DEFINE T == {b - s : s \in S \cup {0}}
  <1>1. T \subseteq Nat /\ T # {}
    OBVIOUS
  <1>2. IsWellFoundedOn(OpToRel(<, Nat), Nat)
    BY NatLessThanWellFounded
  <1> HIDE DEF T
  <1>3. PICK t \in T : \A u \in T : <<u, t>> \notin OpToRel(<, Nat)
    BY <1>1, <1>2, WFMin
  <1>4. \A u \in T : ~(u < t)
    BY <1>1, <1>3 DEF OpToRel
  <1>5. PICK n \in S \cup {0} : t = b - n
    BY DEF T
  <1>6. ASSUME NEW s \in S PROVE s <= n
    <2>1. b - s \in T
      BY DEF T
    <2>2. ~(b - s < b - n)
      BY <1>4, <1>5, <2>1
    <2>3. QED
      BY <2>2
  <1>7. \A s \in S : s <= n
    BY <1>6
  <1>8. \E v \in S \cup {0} : \A s \in S : s <= v
    BY <1>7
  <1>9. /\ Highest(S) \in S \cup {0}
        /\ \A s \in S : s <= Highest(S)
    BY <1>8 DEF Highest
  <1>10. S \cup {0} \subseteq Nat
    OBVIOUS
  <1>11. QED
    BY <1>9, <1>10

\* Some number is above all sequence numbers.
Bounded == \E b \in Nat : \A m \in Messages : num[m] <= b

LEMMA NextNumberIs ==
  ASSUME TypeOK, Bounded
  PROVE  /\ NextNumber \in Nat /\ NextNumber > 0
         /\ \A m \in Stored : num[m] < NextNumber
         /\ NextNumber = 1 \/ \E m \in Stored : NextNumber = num[m] + 1
  <1> DEFINE S == {num[m] : m \in Stored}
  <1>1. PICK b \in Nat : \A m \in Messages : num[m] <= b
    BY DEF Bounded
  <1>2. S \subseteq Nat /\ \A s \in S : s <= b
    BY <1>1 DEF TypeOK, Stored
  <1>3. /\ Highest(S) \in S \cup {0}
        /\ Highest(S) \in Nat
        /\ \A s \in S : s <= Highest(S)
    <2> HIDE DEF S
    <2>1. QED
      BY <1>2, HighestOf
  <1>4. NextNumber = Highest(S) + 1
    BY DEF NextNumber
  <1>5. \A m \in Stored : num[m] \in Nat /\ num[m] <= Highest(S)
    BY <1>2, <1>3
  <1>6. Highest(S) = 0 \/ \E m \in Stored : Highest(S) = num[m]
    BY <1>3
  <1> HIDE DEF S
  <1>7. QED
    BY <1>3, <1>4, <1>5, <1>6

LEMMA AdvanceIs ==
  ASSUME TypeOK, Bounded, NEW c \in Clients, NEW f \in Frame
  PROVE  /\ Advance(c, f) \in Nat
         /\ Advance(c, f) >= known[c]
         /\ \A m \in f.msgs : num[m] <= Advance(c, f)
         /\ Advance(c, f) = known[c] \/ \E m \in f.msgs : Advance(c, f) = num[m]
  <1> DEFINE S == {num[m] : m \in f.msgs} \cup {known[c]}
  <1>1. PICK b \in Nat : \A m \in Messages : num[m] <= b
    BY DEF Bounded
  <1>2. f.msgs \subseteq Messages /\ known[c] \in Nat
    BY DEF TypeOK, Frame
  <1>3. S \subseteq Nat /\ \A s \in S : s <= b + known[c]
    BY <1>1, <1>2 DEF TypeOK
  <1>4. /\ Highest(S) \in S \cup {0}
        /\ Highest(S) \in Nat
        /\ \A s \in S : s <= Highest(S)
    <2> HIDE DEF S
    <2>1. b + known[c] \in Nat
      BY <1>2
    <2>2. QED
      BY <1>3, <2>1, HighestOf
  <1>5. Advance(c, f) = Highest(S)
    BY DEF Advance
  <1>6. known[c] <= Highest(S) /\ \A m \in f.msgs : num[m] <= Highest(S)
    BY <1>4
  <1>7. Highest(S) \in {0, known[c]} \/ \E m \in f.msgs : Highest(S) = num[m]
    BY <1>4
  <1> HIDE DEF S
  <1>8. QED
    BY <1>2, <1>4, <1>5, <1>6, <1>7

\* What a client shows after a frame: what it showed and the frame's messages;
\* a page shows none of them twice.
Shows(c, f, times) ==
  /\ times \in [Messages -> Nat]
  /\ \A m \in Messages : /\ times[m] >= shown[c][m]
                         /\ times[m] > 0 => shown[c][m] > 0 \/ m \in f.msgs
  /\ f.kind = "replay" => \A m \in f.msgs : times[m] > 0
  /\ f.kind = "event" => \E m \in f.msgs : times[m] > 0
  /\ c \in web /\ (\A m \in Messages : shown[c][m] <= 1) => \A m \in Messages : times[m] <= 1

LEMMA TakeShows ==
  ASSUME TypeOK, NEW k \in Conns, WebReceive(k) \/ SdkReceive(k)
  PROVE  /\ OwnerOf(k) \in Clients /\ wire[k] # <<>>
         /\ Head(wire[k]) \in Frame
         /\ Tail(wire[k]) \in Seq(Frame)
         /\ \E times : Take(k, times) /\ Shows(OwnerOf(k), Head(wire[k]), times)
  <1> DEFINE c == OwnerOf(k)  f == Head(wire[k])
  <1>1. c \in Clients
    BY DEF OwnerOf, Conns
  <1>2. wire[k] # <<>> /\ f \in Frame /\ Tail(wire[k]) \in Seq(Frame)
    BY DEF TypeOK, WebReceive, SdkReceive
  <1>3. f.msgs \subseteq Messages /\ shown[c] \in [Messages -> Nat]
    BY <1>1, <1>2 DEF TypeOK, Frame
  <1> HIDE DEF c, f
  <1>4. \A m \in f.msgs : f.kind = "event" => Shows(c, f, WebOnMessage(shown[c], m))
    BY <1>3 DEF Shows, WebOnMessage
  <1>5. f.kind = "replay" => Shows(c, f, WebOnReplay(shown[c], f.msgs))
    BY <1>3 DEF Shows, WebOnReplay
  <1>6. \A m \in f.msgs : f.kind = "event" /\ c \notin web => Shows(c, f, CliOnMessage(shown[c], m))
    BY <1>3 DEF Shows, CliOnMessage
  <1>7. f.kind = "replay" => Shows(c, f, CliOnReplay(shown[c], f.msgs))
    BY <1>3 DEF Shows, CliOnReplay
  <1>8. \E times : Take(k, times) /\ Shows(c, f, times)
    BY <1>4, <1>5, <1>6, <1>7 DEF WebReceive, SdkReceive, c, f
  <1>9. QED
    BY <1>1, <1>2, <1>8 DEF c, f

-------------------------------------------------------------------------------
\* Type correctness, action by action.
LEMMA TypeInit == Init => TypeOK /\ Bounded
  <1>1. 0 \in 0..MaxConns /\ <<>> \in Seq(Frame)
    BY BoundsAssumption
  <1>2. Init => TypeOK
    BY <1>1 DEF Init, TypeOK
  <1>3. Init => Bounded
    <2>1. Init => \A m \in Messages : num[m] <= 0
      BY DEF Init
    <2>2. QED
      BY <2>1 DEF Bounded
  <1>4. QED
    BY <1>2, <1>3

LEMMA StartType ==
  ASSUME TypeOK, NEW c \in Clients, NEW ms \in SUBSET Messages, Start(c, ms)
  PROVE  TypeOK'
  <1>1. [m \in Messages |-> IF m \in ms THEN 1 ELSE 0] \in [Messages -> Nat]
    OBVIOUS
  <1>2. shown' \in [Clients -> [Messages -> Nat]]
    BY <1>1 DEF TypeOK, Start
  <1>3. QED
    BY <1>2 DEF TypeOK, Start, database, hub, handler, network

LEMMA StartsAre ==
  ASSUME NEW c \in Clients, WebStart(c) \/ CliStart(c)
  PROVE  \E ms \in SUBSET Stored : Start(c, ms)
  BY DEF WebStart, CliStart, LatestHistory

LEMMA OpensAre ==
  ASSUME NEW c \in Clients, WebConnect(c) \/ SdkConnect(c)
  PROVE  \E w \in Workers : Open(c, w)
  BY DEF WebConnect, SdkConnect

LEMMA OpenNew ==
  ASSUME TypeOK, NEW c \in Clients, opened[c] < MaxConns
  PROVE  <<c, opened[c] + 1>> \in Conns /\ opened[c] + 1 \in 0..MaxConns
  BY BoundsAssumption DEF TypeOK, Conns

LEMMA OpenType ==
  ASSUME TypeOK, NEW c \in Clients, NEW w \in Workers, Open(c, w)
  PROVE  TypeOK'
  <1> DEFINE k == <<c, opened[c] + 1>>
  <1>1. k \in Conns /\ opened[c] + 1 \in 0..MaxConns
    BY OpenNew DEF Open
  <1>2. /\ opened' = [opened EXCEPT ![c] = @ + 1]
        /\ link' = link \cup {k}
        /\ pc' = [pc EXCEPT ![k] = "open"]
        /\ at' = [at EXCEPT ![k] = w]
        /\ asked' = [asked EXCEPT ![k] = known[c]]
        /\ UNCHANGED <<database, hub, replay, wire, web, running, shown, known, presence>>
    BY DEF Open
  <1> HIDE DEF k
  <1>3. QED
    BY <1>1, <1>2 DEF TypeOK, database, hub

LEMMA DropType ==
  ASSUME TypeOK, NEW k \in Conns, Drop(k)
  PROVE  TypeOK'
  BY DEF TypeOK, Drop, database, hub, handler, client

LEMMA TakeType ==
  ASSUME TypeOK, Bounded, NEW k \in Conns, WebReceive(k) \/ SdkReceive(k)
  PROVE  TypeOK'
  <1>1. PICK times : Take(k, times) /\ Shows(OwnerOf(k), Head(wire[k]), times)
    BY TakeShows
  <1>2. /\ OwnerOf(k) \in Clients
        /\ Head(wire[k]) \in Frame /\ Tail(wire[k]) \in Seq(Frame)
    BY TakeShows
  <1>3. Advance(OwnerOf(k), Head(wire[k])) \in Nat
    BY <1>2, AdvanceIs
  <1>4. times \in [Messages -> Nat]
    BY <1>1 DEF Shows
  <1>5. QED
    BY <1>1, <1>2, <1>3, <1>4 DEF TypeOK, Take, database, hub, handler

\* Appending a frame, or nothing.
LEMMA AppendType ==
  ASSUME TypeOK, NEW k \in Conns, NEW f \in Frame
  PROVE  [wire EXCEPT ![k] = Append(@, f)] \in [Conns -> Seq(Frame)]
  BY DEF TypeOK

LEMMA EventFrame ==
  ASSUME NEW m \in Messages
  PROVE  [kind |-> "event", msgs |-> {m}] \in Frame
  BY DEF Frame

\* One send_text of a broadcast.
SendStep(j, w, k, dead) ==
  /\ k \in cast[j].todo
  /\ \/ dead = cast[j].dead /\ (Delivered(j, k) \/ SendVanishes(k))
     \/ dead = cast[j].dead \cup {k} /\ SendFails(k)
  /\ IF cast[j].todo = {k}
     THEN /\ cast' = [cast EXCEPT ![j] = None]
          /\ registered' = Unregister(registered, w, dead)
     ELSE /\ cast' = [cast EXCEPT ![j] = [todo |-> @.todo \ {k}, dead |-> dead]]
          /\ UNCHANGED registered

LEMMA CastStepIs ==
  ASSUME TypeOK, NEW j \in Casts, NEW w, cast[j] # None, CastStep(j, w)
  PROVE  /\ cast[j] \in Cast
         /\ \E k \in Conns, dead \in SUBSET Conns : SendStep(j, w, k, dead)
  <1>1. cast[j] \in Cast
    BY DEF TypeOK
  <1>2. cast[j].todo \subseteq Conns /\ cast[j].dead \subseteq Conns
    BY <1>1 DEF Cast
  <1>3. \E k \in cast[j].todo : \E dead \in {cast[j].dead, cast[j].dead \cup {k}} :
          SendStep(j, w, k, dead)
    BY DEF CastStep, SendStep
  <1>4. QED
    BY <1>1, <1>2, <1>3

LEMMA RegisterIs ==
  ASSUME TypeOK, NEW w, NEW k \in Conns
  PROVE  /\ Register(registered, w, k) \in [Workers -> SUBSET Conns]
         /\ \A v \in Workers : Register(registered, w, k)[v] =
              IF v = w THEN registered[v] \cup {k} ELSE registered[v]
  BY DEF TypeOK, Register

LEMMA UnregisterIs ==
  ASSUME TypeOK, NEW w, NEW ks
  PROVE  /\ Unregister(registered, w, ks) \in [Workers -> SUBSET Conns]
         /\ \A v \in Workers : Unregister(registered, w, ks)[v] =
              IF v = w THEN registered[v] \ ks ELSE registered[v]
  BY DEF TypeOK, Unregister

LEMMA SendStepIs ==
  ASSUME TypeOK, NEW j \in Casts, NEW w, NEW k, NEW dead, SendStep(j, w, k, dead)
  PROVE  /\ \A i \in Casts : i # j => cast'[i] = cast[i]
         /\ IF cast[j].todo = {k}
            THEN cast'[j] = None
            ELSE cast'[j] = [todo |-> cast[j].todo \ {k}, dead |-> dead]
  <1>1. CASE cast[j].todo = {k}
    BY <1>1 DEF TypeOK, SendStep
  <1>2. CASE cast[j].todo # {k}
    BY <1>2 DEF TypeOK, SendStep
  <1>3. QED
    BY <1>1, <1>2

LEMMA SendStepRooms ==
  ASSUME TypeOK, NEW j, NEW w, NEW k, NEW dead, SendStep(j, w, k, dead)
  PROVE  /\ registered' \in [Workers -> SUBSET Conns]
         /\ \A v \in Workers : /\ registered'[v] \subseteq registered[v]
                               /\ registered[v] \ dead \subseteq registered'[v]
  <1>1. CASE registered' = registered
    BY <1>1 DEF TypeOK
  <1>2. CASE registered' = Unregister(registered, w, dead)
    <2>1. \A v \in Workers : Unregister(registered, w, dead)[v] =
            IF v = w THEN registered[v] \ dead ELSE registered[v]
      BY UnregisterIs
    <2>2. Unregister(registered, w, dead) \in [Workers -> SUBSET Conns]
      BY UnregisterIs
    <2>3. QED
      BY <1>2, <2>1, <2>2
  <1>3. QED
    BY <1>1, <1>2 DEF SendStep

LEMMA CastStepType ==
  ASSUME TypeOK, NEW j \in Casts, NEW w, cast[j] # None, CastStep(j, w)
  PROVE  /\ wire' \in [Conns -> Seq(Frame)]
         /\ cast' \in [Casts -> Cast \cup {None}]
         /\ registered' \in [Workers -> SUBSET Conns]
  <1>1. cast[j] \in Cast
    BY CastStepIs
  <1>2. PICK k \in Conns, dead \in SUBSET Conns : SendStep(j, w, k, dead)
    BY CastStepIs
  <1>3. wire' \in [Conns -> Seq(Frame)]
    <2>1. CASE Delivered(j, k) /\ j \in Messages
      BY <2>1, EventFrame, AppendType DEF Delivered
    <2>2. CASE wire' = wire
      BY <2>2 DEF TypeOK
    <2>3. QED
      BY <1>2, <2>1, <2>2 DEF SendStep, Delivered, SendVanishes, SendFails
  <1>4. [todo |-> cast[j].todo \ {k}, dead |-> dead] \in Cast
    BY <1>1 DEF Cast
  <1>5. cast' \in [Casts -> Cast \cup {None}]
    BY <1>2, <1>4 DEF TypeOK, SendStep
  <1>6. registered' \in [Workers -> SUBSET Conns]
    BY <1>2, SendStepRooms
  <1>7. QED
    BY <1>3, <1>5, <1>6

LEMMA MessageCastType ==
  ASSUME TypeOK, NEW m \in Messages, MessageCastStep(m)
  PROVE  TypeOK'
  <1>1. m \in Casts
    BY DEF Casts
  <1>2. /\ wire' \in [Conns -> Seq(Frame)]
        /\ cast' \in [Casts -> Cast \cup {None}]
        /\ registered' \in [Workers -> SUBSET Conns]
    BY <1>1, CastStepType DEF MessageCastStep
  <1>3. QED
    BY <1>2 DEF TypeOK, MessageCastStep, database, handler, client

LEMMA HandlerCastType ==
  ASSUME TypeOK, NEW k \in Conns, HandlerCastStep(k)
  PROVE  TypeOK'
  <1>1. k \in Casts
    BY DEF Casts
  <1>2. /\ wire' \in [Conns -> Seq(Frame)]
        /\ cast' \in [Casts -> Cast \cup {None}]
        /\ registered' \in [Workers -> SUBSET Conns]
    BY <1>1, CastStepType DEF HandlerCastStep
  <1>3. pc' \in [Conns -> {"free", "open", "offline", "gone"} \cup Guarded]
    BY DEF TypeOK, HandlerCastStep, Guarded
  <1>4. QED
    BY <1>2, <1>3 DEF TypeOK, HandlerCastStep, database, client

LEMMA LeaveType ==
  ASSUME TypeOK, NEW k \in Conns, NEW step \in {"offline", "gone"}, Leave(k, step)
  PROVE  /\ pc' \in [Conns -> {"free", "open", "offline", "gone"} \cup Guarded]
         /\ asked' \in [Conns -> Nat]
         /\ replay' \in [Conns -> SUBSET Messages]
  BY DEF TypeOK, Leave

LEMMA PresenceType ==
  ASSUME TypeOK, NEW k \in Conns, NEW status \in {"online", "offline"}, SetPresence(k, status)
  PROVE  presence' \in [Clients -> {"none", "online", "offline"}]
  BY DEF TypeOK, SetPresence

LEMMA BeginCastType ==
  ASSUME TypeOK, NEW j \in Casts, NEW ks \in SUBSET Conns, BeginCast(j, ks)
  PROVE  cast' \in [Casts -> Cast \cup {None}]
  <1>1. [todo |-> ks, dead |-> {}] \in Cast
    BY DEF Cast
  <1>2. QED
    BY <1>1 DEF TypeOK, BeginCast

\* The handler's own steps.
LEMMA HandlerType ==
  ASSUME TypeOK, NEW k \in Conns,
         \/ Refuse(k) \/ Admit(k) \/ Ping(k) \/ Join(k) \/ ReadReplay(k)
         \/ Disconnect(k) \/ Fail(k)
  PROVE  TypeOK'
  <1>1. CASE Refuse(k)
    <2>1. Leave(k, "gone")
      BY <1>1 DEF Refuse
    <2>2. QED
      BY <1>1, <2>1, LeaveType DEF TypeOK, Refuse, database, hub, network, client
  <1>2. CASE Admit(k)
    <2>1. SetPresence(k, "online")
      BY <1>2 DEF Admit
    <2>2. QED
      BY <1>2, <2>1, PresenceType
      DEF TypeOK, Admit, Guarded, database, hub, network, client
  <1>3. CASE Ping(k)
    <2>1. SetPresence(k, "online")
      BY <1>3 DEF Ping
    <2>2. QED
      BY <1>3, <2>1, PresenceType DEF TypeOK, Ping, database, hub, handler, network, client
  <1>4. CASE Join(k)
    BY <1>4, RegisterIs DEF TypeOK, Join, Guarded, database, network, client
  <1>5. CASE ReadReplay(k)
    <2>1. HistoryAfter(asked[k], ReplayLimit) \subseteq Messages
      BY DEF HistoryAfter, Stored
    <2>2. QED
      BY <1>5, <2>1 DEF TypeOK, ReadReplay, Guarded, database, hub, network, client
  <1>6. CASE Disconnect(k)
    <2>1. Leave(k, "offline") \/ Leave(k, "gone")
      BY <1>6 DEF Disconnect
    <2>2. registered' \in [Workers -> SUBSET Conns]
      BY <1>6, UnregisterIs DEF Disconnect
    <2>3. QED
      BY <1>6, <2>1, <2>2, LeaveType DEF TypeOK, Disconnect, database, network, client
  <1>7. CASE Fail(k)
    <2>1. Leave(k, "gone") /\ registered' \in [Workers -> SUBSET Conns]
      BY <1>7, UnregisterIs DEF Fail
    <2>2. QED
      BY <1>7, <2>1, LeaveType DEF TypeOK, Fail, database, network, client
  <1>8. QED
    BY <1>1, <1>2, <1>3, <1>4, <1>5, <1>6, <1>7

LEMMA OthersAre ==
  ASSUME TypeOK, NEW k \in Conns, at[k] \in Workers
  PROVE  Others(k) \in SUBSET Conns /\ registered[at[k]] \in SUBSET Conns
  BY DEF TypeOK, Others

LEMMA AnnounceType ==
  ASSUME TypeOK, NEW k \in Conns, at[k] \in Workers,
         SendReplay(k) \/ Relay(k) \/ MarkOffline(k)
  PROVE  TypeOK'
  <1>1. k \in Casts /\ Others(k) \in SUBSET Conns /\ registered[at[k]] \in SUBSET Conns
    BY OthersAre DEF Casts
  <1>2. cast' \in [Casts -> Cast \cup {None}]
    BY <1>1, BeginCastType DEF SendReplay, Relay, MarkOffline
  <1>3. CASE SendReplay(k)
    <2>1. [kind |-> "replay", msgs |-> replay[k]] \in Frame
      BY DEF TypeOK, Frame
    <2>2. [wire EXCEPT ![k] = Append(@, [kind |-> "replay", msgs |-> replay[k]])]
            \in [Conns -> Seq(Frame)]
      BY <2>1, AppendType
    <2>3. wire' \in [Conns -> Seq(Frame)]
      BY <1>3, <2>2 DEF TypeOK, SendReplay
    <2>4. pc' \in [Conns -> {"free", "open", "offline", "gone"} \cup Guarded]
      BY <1>3 DEF TypeOK, SendReplay, AfterCast, Guarded
    <2>5. QED
      BY <1>2, <1>3, <2>3, <2>4 DEF TypeOK, SendReplay, database, client
  <1>4. CASE Relay(k)
    BY <1>2, <1>4 DEF TypeOK, Relay, Guarded, database, network, client
  <1>5. CASE MarkOffline(k)
    <2>1. presence' \in [Clients -> {"none", "online", "offline"}]
      BY <1>5, PresenceType DEF MarkOffline
    <2>2. QED
      BY <1>2, <1>5, <2>1 DEF TypeOK, MarkOffline, database, network, client
  <1>6. QED
    BY <1>3, <1>4, <1>5

\* A message is given the next number.
Numbers(m, step) ==
  /\ phase[m] = "unsent" /\ Staged = {}
  /\ \E w \in Workers : home' = [home EXCEPT ![m] = w]
  /\ phase' = [phase EXCEPT ![m] = step]
  /\ num' = [num EXCEPT ![m] = NextNumber]
  /\ UNCHANGED <<hub, handler, network, client, presence>>

LEMMA NumbersType ==
  ASSUME TypeOK, Bounded, NEW m \in Messages, NEW step \in {"stored", "staged"},
         Numbers(m, step)
  PROVE  TypeOK' /\ Bounded'
  <1>1. NextNumber \in Nat
    BY NextNumberIs
  <1>2. num' \in [Messages -> Nat] /\ \A n \in Messages : num'[n] \in {num[n], NextNumber}
    BY <1>1 DEF TypeOK, Numbers
  <1>3. home' \in [Messages -> Workers \cup {None}]
    BY DEF TypeOK, Numbers
  <1>4. TypeOK'
    BY <1>2, <1>3 DEF TypeOK, Numbers, hub, handler, network, client
  <1>5. PICK b \in Nat : \A n \in Messages : num[n] <= b
    BY DEF Bounded
  <1>6. \A n \in Messages : num[n] \in Nat
    BY DEF TypeOK
  <1>7. b + NextNumber \in Nat /\ \A n \in Messages : num'[n] <= b + NextNumber
    BY <1>1, <1>2, <1>5, <1>6
  <1>8. Bounded'
    BY <1>7 DEF Bounded
  <1>9. QED
    BY <1>4, <1>8

LEMMA StoreNumbers ==
  ASSUME NEW m \in Messages
  PROVE  /\ Store(m) => m \notin Rest /\ Numbers(m, "stored")
         /\ Stage(m) => m \in Rest /\ Numbers(m, "staged")
  BY DEF Store, Stage, Numbers

LEMMA BeginMessageType ==
  ASSUME TypeOK, NEW m \in Messages, home[m] \in Workers, BeginMessageCast(m)
  PROVE  TypeOK'
  <1>1. m \in Casts /\ registered[home[m]] \in SUBSET Conns
    BY DEF TypeOK, Casts
  <1>2. cast' \in [Casts -> Cast \cup {None}]
    BY <1>1, BeginCastType DEF BeginMessageCast
  <1>3. QED
    BY <1>2 DEF TypeOK, BeginMessageCast, database, handler, network, client

LEMMA CommitRestType ==
  ASSUME TypeOK, NEW m \in Messages, CommitRest(m)
  PROVE  TypeOK'
  BY DEF TypeOK, CommitRest, hub, handler, network, client

LEMMA CrashType ==
  ASSUME TypeOK, NEW w \in Workers, CrashWorker(w)
  PROVE  TypeOK'
  <1>1. phase' \in [Messages -> {"unsent", "staged", "stored", "aborted"}]
    BY DEF TypeOK, CrashWorker
  <1>2. began' \subseteq Messages /\ link' \subseteq Conns
    BY DEF TypeOK, CrashWorker
  <1>3. cast' \in [Casts -> Cast \cup {None}]
    BY DEF TypeOK, CrashWorker
  <1>4. registered' \in [Workers -> SUBSET Conns]
    BY DEF TypeOK, CrashWorker
  <1>5. pc' \in [Conns -> {"free", "open", "offline", "gone"} \cup Guarded]
    BY DEF TypeOK, CrashWorker
  <1>6. wire' \in [Conns -> Seq(Frame)]
    BY DEF TypeOK, CrashWorker
  <1>7. asked' \in [Conns -> Nat] /\ replay' \in [Conns -> SUBSET Messages]
    BY DEF TypeOK, CrashWorker
  <1>8. QED
    BY <1>1, <1>2, <1>3, <1>4, <1>5, <1>6, <1>7 DEF TypeOK, CrashWorker, client

-------------------------------------------------------------------------------
\* The rooms.  A message has a home once it is sent, and its broadcast follows.
Homes ==
  \A m \in Messages :
    IF phase[m] = "unsent" THEN home[m] = None /\ m \notin began /\ cast[m] = None
                           ELSE home[m] \in Workers

\* A handler that was started runs at a worker; the next connection is free.
Handlers ==
  /\ \A k \in Conns : pc[k] # "free" => at[k] \in Workers
  /\ \A c \in Clients, i \in 1..MaxConns : i > opened[c] => pc[<<c, i>>] = "free"

\* A broadcast holds started sockets, and failed ones that nobody waits for.
CastIn(j) ==
  cast[j] # None =>
    /\ \A k \in cast[j].todo \cup cast[j].dead : k \in Conns /\ pc[k] # "free"
    /\ \A k \in cast[j].dead : k \notin link \/ pc[k] = "gone"

Rooms == Homes /\ Handlers /\ (\A j \in Casts : CastIn(j)) /\ RoomsExact

\* A handler's step moves a handler that was started, and ends it for good.
Onward ==
  /\ UNCHANGED <<opened, at>> /\ link' \subseteq link
  /\ \A k \in Conns : \/ pc'[k] = pc[k]
                      \/ pc[k] \notin {"free", "gone"} /\ pc'[k] # "free"

\* It also enters no room and leaves none.
Steady ==
  /\ Onward /\ UNCHANGED registered
  /\ \A k \in Conns : pc'[k] \in Synced <=> pc[k] \in Synced

LEMMA OnwardRooms ==
  ASSUME TypeOK, Rooms, Onward
  PROVE  Handlers' /\ \A j \in Casts : cast'[j] = cast[j] => CastIn(j)'
  <1>1. Handlers'
    <2>1. \A k \in Conns : pc'[k] # "free" => at'[k] \in Workers
      BY DEF Rooms, Handlers, Onward
    <2>2. \A c \in Clients, i \in 1..MaxConns : <<c, i>> \in Conns
      BY DEF Conns
    <2>3. \A c \in Clients, i \in 1..MaxConns : i > opened'[c] => pc'[<<c, i>>] = "free"
      BY <2>2 DEF Rooms, Handlers, Onward
    <2>4. QED
      BY <2>1, <2>3 DEF Handlers
  <1>2. ASSUME NEW j \in Casts, cast'[j] = cast[j] PROVE CastIn(j)'
    BY <1>2 DEF Rooms, CastIn, Onward
  <1>3. QED
    BY <1>1, <1>2

LEMMA SteadyRooms ==
  ASSUME TypeOK, Rooms, Steady
  PROVE  RoomsExact'
  <1>1. \A w \in Workers : \A k \in registered[w] : k \in Conns
    BY DEF TypeOK
  <1>2. QED
    BY <1>1 DEF TypeOK, Rooms, RoomsExact, Steady, Onward

\* A broadcast that begins holds sockets of a room.
LEMMA BeginCastIn ==
  ASSUME TypeOK, Rooms, Onward, NEW j \in Casts, NEW ks \in SUBSET Conns,
         \A k \in ks : pc[k] # "free", BeginCast(j, ks)
  PROVE  \A i \in Casts : CastIn(i)'
  <1>1. \A i \in Casts : i # j => cast'[i] = cast[i]
    BY DEF BeginCast
  <1>2. cast'[j] = IF ks = {} THEN None ELSE [todo |-> ks, dead |-> {}]
    BY DEF TypeOK, BeginCast
  <1>3. CastIn(j)'
    BY <1>2 DEF CastIn, Onward
  <1>4. QED
    BY <1>1, <1>3, OnwardRooms

LEMMA RoomStarted ==
  ASSUME TypeOK, Rooms, NEW w \in Workers
  PROVE  registered[w] \in SUBSET Conns /\ \A k \in registered[w] : pc[k] # "free"
  BY DEF TypeOK, Rooms, RoomsExact, Synced

LEMMA StepRooms ==
  ASSUME TypeOK, Rooms, Steady, UNCHANGED <<phase, home, began, cast>>
  PROVE  Rooms'
  <1>1. Homes'
    BY DEF Rooms, Homes
  <1>2. QED
    BY <1>1, OnwardRooms, SteadyRooms DEF Rooms, Steady

LEMMA OpenRooms ==
  ASSUME TypeOK, Rooms, NEW c \in Clients, NEW w \in Workers, Open(c, w)
  PROVE  Rooms'
  <1> DEFINE k == <<c, opened[c] + 1>>
  <1>1. k \in Conns /\ opened[c] + 1 \in 1..MaxConns
    BY OpenNew DEF Open, TypeOK
  <1>2. /\ opened' = [opened EXCEPT ![c] = @ + 1]
        /\ link' = link \cup {k}
        /\ pc' = [pc EXCEPT ![k] = "open"]
        /\ at' = [at EXCEPT ![k] = w]
        /\ UNCHANGED <<database, hub>>
    BY DEF Open
  <1>3. pc[k] = "free"
    BY <1>1 DEF TypeOK, Rooms, Handlers
  <1>4. Homes'
    BY <1>2 DEF Rooms, Homes, database, hub
  <1>5. Handlers'
    <2>1. \A o \in Conns : pc'[o] # "free" => at'[o] \in Workers
      BY <1>1, <1>2 DEF TypeOK, Rooms, Handlers
    <2>2. \A d \in Clients, i \in 1..MaxConns : i > opened'[d] =>
            i > opened[d] /\ <<d, i>> # k
      BY <1>1, <1>2 DEF TypeOK
    <2>3. \A d \in Clients, i \in 1..MaxConns : i > opened'[d] => pc'[<<d, i>>] = "free"
      BY <1>2, <2>2 DEF TypeOK, Rooms, Handlers, Conns
    <2>4. QED
      BY <2>1, <2>3 DEF Handlers
  <1> HIDE DEF k
  <1>6. ASSUME NEW j \in Casts PROVE CastIn(j)'
    BY <1>1, <1>2, <1>3 DEF TypeOK, Rooms, CastIn, hub
  <1>7. RoomsExact'
    BY <1>1, <1>2, <1>3 DEF TypeOK, Rooms, RoomsExact, Synced, hub
  <1>8. QED
    BY <1>4, <1>5, <1>6, <1>7 DEF Rooms

\* The broadcasts of handlers are no message's.
LEMMA CastsApart ==
  /\ \A k \in Conns : k \in Casts /\ k \notin Messages
  /\ \A m \in Messages : m \in Casts /\ m \notin Conns
  BY NoneAssumption DEF Casts

\* A step of a broadcast: the sockets it gives up have no client to wait for.
LEMMA CastStepRooms ==
  ASSUME TypeOK, Rooms, Onward, NEW j \in Casts, NEW w, cast[j] # None, CastStep(j, w),
         UNCHANGED link,
         \A k \in Conns : pc'[k] \in Synced <=> pc[k] \in Synced
  PROVE  (\A i \in Casts : CastIn(i)') /\ RoomsExact'
  <1>1. cast[j] \in Cast
    BY CastStepIs
  <1>2. PICK k \in Conns, dead \in SUBSET Conns : SendStep(j, w, k, dead)
    BY CastStepIs
  <1>3. /\ k \in cast[j].todo
        /\ dead = cast[j].dead \/ (dead = cast[j].dead \cup {k} /\ (k \notin link \/ pc[k] = "gone"))
    BY <1>2 DEF SendStep, SendFails
  <1>4. CastIn(j)
    BY DEF Rooms
  <1>5. \A o \in dead : pc[o] # "free" /\ (o \notin link \/ pc[o] = "gone")
    BY <1>3, <1>4 DEF CastIn
  <1>6. \A i \in Casts : i # j => cast'[i] = cast[i]
    BY <1>2, SendStepIs
  <1>7. cast'[j] = None \/ cast'[j] = [todo |-> cast[j].todo \ {k}, dead |-> dead]
    BY <1>2, SendStepIs
  <1>8. CastIn(j)'
    <2>1. \A o \in cast[j].todo : o \in Conns /\ pc[o] # "free"
      BY <1>4 DEF CastIn
    <2>2. \A o \in cast[j].todo \cup dead : o \in Conns /\ pc'[o] # "free"
      BY <1>5, <2>1 DEF Onward
    <2>3. \A o \in dead : o \notin link' \/ pc'[o] = "gone"
      BY <1>5 DEF Onward
    <2>4. QED
      BY <1>7, <2>2, <2>3 DEF CastIn
  <1>9. \A i \in Casts : CastIn(i)'
    BY <1>6, <1>8, OnwardRooms
  <1>10. \A v \in Workers : /\ registered'[v] \subseteq registered[v]
                            /\ registered[v] \ dead \subseteq registered'[v]
    BY <1>2, SendStepRooms
  <1>11. RoomsExact'
    <2>1. ASSUME NEW v \in Workers, NEW o \in registered'[v]
          PROVE  pc'[o] \in Synced /\ at'[o] = v
      BY <1>10, <2>1 DEF TypeOK, Rooms, RoomsExact, Onward
    <2>2. ASSUME NEW o \in link', pc'[o] \in Synced
          PROVE  o \in registered'[at'[o]]
      <3>1. o \in Conns /\ o \in link /\ pc[o] \in Synced /\ at'[o] = at[o]
        BY <2>2 DEF TypeOK, Onward
      <3>2. o \in registered[at[o]] /\ at[o] \in Workers
        BY <3>1 DEF Rooms, RoomsExact, Handlers, Synced
      <3>3. o \notin dead
        BY <1>5, <3>1 DEF Synced
      <3>4. QED
        BY <1>10, <3>1, <3>2, <3>3
    <2>3. QED
      BY <2>1, <2>2 DEF RoomsExact
  <1>12. QED
    BY <1>9, <1>11

LEMMA MessageCastRooms ==
  ASSUME TypeOK, Rooms, NEW m \in Messages, MessageCastStep(m)
  PROVE  Rooms'
  <1>1. m \in Casts /\ cast[m] # None /\ CastStep(m, home[m])
    BY DEF MessageCastStep, Casts
  <1>2. Onward /\ \A k \in Conns : pc'[k] \in Synced <=> pc[k] \in Synced
    BY DEF MessageCastStep, Onward, handler, client
  <1>3. (\A i \in Casts : CastIn(i)') /\ RoomsExact'
    BY <1>1, <1>2, CastStepRooms DEF MessageCastStep
  <1>4. Handlers'
    BY <1>2, OnwardRooms
  <1>5. Homes'
    <2>1. PICK k, dead : SendStep(m, home[m], k, dead)
      BY <1>1, CastStepIs
    <2>2. \A n \in Messages : n # m => cast'[n] = cast[n]
      BY <1>1, <2>1, SendStepIs, CastsApart
    <2>3. QED
      BY <1>1, <2>2 DEF Rooms, Homes, MessageCastStep, database
  <1>6. QED
    BY <1>3, <1>4, <1>5 DEF Rooms

LEMMA HandlerCastRooms ==
  ASSUME TypeOK, Rooms, NEW k \in Conns, HandlerCastStep(k)
  PROVE  Rooms'
  <1>1. k \in Casts /\ cast[k] # None /\ CastStep(k, at[k])
    BY DEF HandlerCastStep, Casts
  <1>2. pc' = pc \/ (pc[k] = "announcing" /\ pc' = [pc EXCEPT ![k] = "live"])
    BY DEF HandlerCastStep
  <1>3. \A o \in Conns : pc'[o] \in Synced <=> pc[o] \in Synced
    BY <1>2 DEF TypeOK, Synced
  <1>4. Onward
    BY <1>2 DEF HandlerCastStep, Onward, client, TypeOK
  <1>5. (\A i \in Casts : CastIn(i)') /\ RoomsExact'
    BY <1>1, <1>3, <1>4, CastStepRooms DEF HandlerCastStep
  <1>6. Handlers'
    BY <1>4, OnwardRooms
  <1>7. Homes'
    <2>1. PICK o, dead : SendStep(k, at[k], o, dead)
      BY <1>1, CastStepIs
    <2>2. \A n \in Messages : cast'[n] = cast[n]
      BY <1>1, <2>1, SendStepIs, CastsApart
    <2>3. QED
      BY <2>2 DEF Rooms, Homes, HandlerCastStep, database
  <1>8. QED
    BY <1>5, <1>6, <1>7 DEF Rooms

\* Handlers that are left: the room forgets the socket.
LEMMA LeaveRooms ==
  ASSUME TypeOK, Rooms, NEW k \in Conns, pc[k] \notin {"free", "gone"},
         NEW step \in {"offline", "gone"}, Leave(k, step),
         registered' = Unregister(registered, at[k], {k}),
         UNCHANGED <<phase, home, began, cast, at, opened, link>>
  PROVE  Rooms'
  <1>1. pc' = [pc EXCEPT ![k] = step] /\ at[k] \in Workers
    BY DEF Leave, Rooms, Handlers
  <1>2. Onward
    BY <1>1 DEF TypeOK, Onward
  <1>3. \A v \in Workers :
          registered'[v] = IF v = at[k] THEN registered[v] \ {k} ELSE registered[v]
    BY UnregisterIs
  <1>4. RoomsExact'
    <2>1. ASSUME NEW v \in Workers, NEW o \in registered'[v]
          PROVE  pc'[o] \in Synced /\ at'[o] = v
      <3>1. o \in registered[v] /\ o \in Conns
        BY <1>3, <2>1 DEF TypeOK
      <3>2. pc[o] \in Synced /\ at[o] = v
        BY <3>1 DEF Rooms, RoomsExact
      <3>3. o # k
        BY <1>3, <2>1, <3>2
      <3>4. QED
        BY <1>1, <3>1, <3>2, <3>3 DEF TypeOK
    <2>2. ASSUME NEW o \in link', pc'[o] \in Synced
          PROVE  o \in registered'[at'[o]]
      <3>1. o \in Conns /\ o \in link
        BY <2>2 DEF TypeOK
      <3>2. o # k /\ pc[o] \in Synced
        BY <1>1, <2>2, <3>1 DEF TypeOK, Synced
      <3>3. o \in registered[at[o]] /\ at[o] \in Workers
        BY <3>1, <3>2 DEF Rooms, RoomsExact, Handlers, Synced
      <3>4. QED
        BY <1>3, <3>2, <3>3
    <2>3. QED
      BY <2>1, <2>2 DEF RoomsExact
  <1>5. Homes'
    BY DEF Rooms, Homes
  <1>6. QED
    BY <1>2, <1>4, <1>5, OnwardRooms DEF Rooms

\* Steps that leave rooms and broadcasts alone.
LEMMA QuietRooms ==
  ASSUME TypeOK, Rooms,
         \/ \E c \in Clients : \E ms : Start(c, ms)
         \/ \E k \in Conns : \/ Drop(k) \/ \E times : Take(k, times)
                             \/ Refuse(k) \/ Admit(k) \/ Ping(k) \/ ReadReplay(k)
  PROVE  Rooms'
  <1>1. UNCHANGED <<database, hub>>
    BY DEF Start, Drop, Take, Refuse, Admit, Ping, ReadReplay
  <1>2. UNCHANGED <<at, opened>> /\ link' \subseteq link
    BY DEF Start, Drop, Take, Refuse, Admit, Ping, ReadReplay, handler, network, client
  <1>3. \/ pc' = pc
        \/ \E k \in Conns :
             \/ pc[k] = "open" /\ pc' = [pc EXCEPT ![k] = "gone"]
             \/ pc[k] = "open" /\ pc' = [pc EXCEPT ![k] = "ready"]
             \/ pc[k] = "joining" /\ pc' = [pc EXCEPT ![k] = "replaying"]
    BY DEF Start, Drop, Take, Refuse, Leave, Admit, Ping, ReadReplay, handler
  <1>4. Steady
    BY <1>1, <1>2, <1>3 DEF TypeOK, Steady, Onward, hub, Synced
  <1>5. QED
    BY <1>1, <1>4, StepRooms DEF database, hub

LEMMA JoinRooms ==
  ASSUME TypeOK, Rooms, NEW k \in Conns, Join(k)
  PROVE  Rooms'
  <1>1. /\ pc' = [pc EXCEPT ![k] = "joining"] /\ pc[k] = "ready" /\ at[k] \in Workers
        /\ UNCHANGED <<phase, home, began, cast, at, opened, link>>
    BY DEF Join, Rooms, Handlers, database, network, client
  <1>2. \A v \in Workers :
          registered'[v] = IF v = at[k] THEN registered[v] \cup {k} ELSE registered[v]
    BY RegisterIs DEF Join
  <1>3. Onward
    BY <1>1 DEF TypeOK, Onward
  <1>4. RoomsExact'
    <2>1. ASSUME NEW v \in Workers, NEW o \in registered'[v]
          PROVE  pc'[o] \in Synced /\ at'[o] = v
      <3>1. CASE o = k
        <4>1. o \in registered[v] => pc[o] \in Synced
          BY DEF Rooms, RoomsExact
        <4>2. v = at[k]
          BY <1>1, <1>2, <2>1, <3>1, <4>1 DEF Synced
        <4>3. QED
          BY <1>1, <3>1, <4>2 DEF TypeOK, Synced
      <3>2. CASE o # k
        <4>1. o \in registered[v]
          BY <1>2, <2>1, <3>2
        <4>2. o \in Conns
          BY <4>1 DEF TypeOK
        <4>3. QED
          BY <1>1, <3>2, <4>1, <4>2 DEF TypeOK, Rooms, RoomsExact
      <3>3. QED
        BY <3>1, <3>2
    <2>2. ASSUME NEW o \in link', pc'[o] \in Synced
          PROVE  o \in registered'[at'[o]]
      <3>1. CASE o = k
        BY <1>1, <1>2, <3>1
      <3>2. CASE o # k
        <4>1. o \in link /\ o \in Conns /\ pc[o] \in Synced
          BY <1>1, <2>2, <3>2 DEF TypeOK
        <4>2. o \in registered[at[o]] /\ at[o] \in Workers
          BY <4>1 DEF Rooms, RoomsExact, Handlers, Synced
        <4>3. QED
          BY <1>1, <1>2, <4>2
      <3>3. QED
        BY <3>1, <3>2
    <2>3. QED
      BY <2>1, <2>2 DEF RoomsExact
  <1>5. Homes'
    BY <1>1 DEF Rooms, Homes
  <1>6. QED
    BY <1>1, <1>3, <1>4, <1>5, OnwardRooms DEF Rooms

LEMMA BeginCastKeeps ==
  ASSUME NEW j, NEW ks, BeginCast(j, ks)
  PROVE  \A i \in Casts : i # j => cast'[i] = cast[i]
  BY DEF BeginCast

\* A handler that begins a broadcast.
LEMMA AnnounceRooms ==
  ASSUME TypeOK, Rooms, NEW k \in Conns, SendReplay(k) \/ Relay(k) \/ MarkOffline(k)
  PROVE  Rooms'
  <1>1. /\ pc[k] \notin {"free", "gone"}
        /\ UNCHANGED <<phase, home, began, registered, at, opened, link>>
    BY DEF SendReplay, Relay, MarkOffline, database, network, client
  <1>2. \E step : /\ pc' = [pc EXCEPT ![k] = step] /\ step # "free"
                  /\ step \in Synced <=> pc[k] \in Synced
    BY DEF SendReplay, Relay, MarkOffline, AfterCast, Synced
  <1>3. Steady
    BY <1>1, <1>2 DEF TypeOK, Steady, Onward
  <1>4. at[k] \in Workers /\ k \in Casts /\ k \notin Messages
    BY <1>1, CastsApart DEF Rooms, Handlers
  <1>5. PICK ks : BeginCast(k, ks) /\ ks \subseteq registered[at[k]]
    BY DEF SendReplay, Relay, MarkOffline, Others
  <1>6. ks \in SUBSET Conns /\ \A o \in ks : pc[o] # "free"
    BY <1>4, <1>5, RoomStarted
  <1>7. \A i \in Casts : CastIn(i)'
    BY <1>3, <1>4, <1>5, <1>6, BeginCastIn DEF Steady
  <1>8. Homes'
    BY <1>1, <1>4, <1>5, BeginCastKeeps, CastsApart DEF Rooms, Homes
  <1>9. QED
    BY <1>3, <1>7, <1>8, OnwardRooms, SteadyRooms DEF Rooms, Steady

LEMMA LeftRooms ==
  ASSUME TypeOK, Rooms, NEW k \in Conns, Disconnect(k) \/ Fail(k)
  PROVE  Rooms'
  <1>1. CASE Disconnect(k)
    <2>1. /\ pc[k] \notin {"free", "gone"}
          /\ Leave(k, "offline") \/ Leave(k, "gone")
          /\ registered' = Unregister(registered, at[k], {k})
          /\ UNCHANGED <<phase, home, began, cast, at, opened, link>>
      BY <1>1 DEF Disconnect, Guarded, database, network, client
    <2>2. QED
      BY <2>1, LeaveRooms
  <1>2. CASE Fail(k)
    <2>1. /\ pc[k] \notin {"free", "gone"}
          /\ Leave(k, "gone")
          /\ registered' = Unregister(registered, at[k], {k})
          /\ UNCHANGED <<phase, home, began, cast, at, opened, link>>
      BY <1>2 DEF Fail, Guarded, database, network, client
    <2>2. QED
      BY <2>1, LeaveRooms
  <1>3. QED
    BY <1>1, <1>2

\* The steps of a message.
LEMMA NumbersRooms ==
  ASSUME TypeOK, Rooms, NEW m \in Messages, NEW step \in {"stored", "staged"},
         Numbers(m, step)
  PROVE  Rooms'
  <1>1. Steady /\ cast' = cast
    BY DEF Numbers, Steady, Onward, hub, handler, network, client
  <1>2. Homes'
    <2>1. PICK w \in Workers : home' = [home EXCEPT ![m] = w]
      BY DEF Numbers
    <2>2. phase' = [phase EXCEPT ![m] = step] /\ UNCHANGED <<began, cast>>
      BY DEF Numbers, hub
    <2>3. QED
      BY <2>1, <2>2 DEF TypeOK, Rooms, Homes
  <1>3. QED
    BY <1>1, <1>2, OnwardRooms, SteadyRooms DEF Rooms, Steady

LEMMA BeginMessageRooms ==
  ASSUME TypeOK, Rooms, NEW m \in Messages, BeginMessageCast(m)
  PROVE  Rooms'
  <1>1. /\ phase[m] \in {"staged", "stored"} /\ began' = began \cup {m}
        /\ BeginCast(m, registered[home[m]])
        /\ UNCHANGED <<phase, home>>
    BY DEF BeginMessageCast, database
  <1>2. home[m] \in Workers /\ m \in Casts
    BY <1>1, CastsApart DEF Rooms, Homes
  <1>3. Steady
    BY DEF BeginMessageCast, Steady, Onward, handler, network, client
  <1>4. \A i \in Casts : CastIn(i)'
    BY <1>1, <1>2, <1>3, RoomStarted, BeginCastIn DEF Steady
  <1>5. Homes'
    BY <1>1, BeginCastKeeps, CastsApart DEF Rooms, Homes
  <1>6. QED
    BY <1>3, <1>4, <1>5, OnwardRooms, SteadyRooms DEF Rooms, Steady

LEMMA CommitRestRooms ==
  ASSUME TypeOK, Rooms, NEW m \in Messages, CommitRest(m)
  PROVE  Rooms'
  <1>1. Steady /\ cast' = cast
    BY DEF CommitRest, Steady, Onward, hub, handler, network, client
  <1>2. Homes'
    BY DEF CommitRest, TypeOK, Rooms, Homes, hub
  <1>3. QED
    BY <1>1, <1>2, OnwardRooms, SteadyRooms DEF Rooms, Steady

LEMMA CrashRooms ==
  ASSUME TypeOK, Rooms, NEW w \in Workers, CrashWorker(w)
  PROVE  Rooms'
  <1> DEFINE lost == {m \in Messages : home[m] = w}
  <1>1. \A m \in Messages : (phase'[m] = "unsent" <=> phase[m] = "unsent")
    BY DEF TypeOK, CrashWorker
  <1>2. \A k \in Conns : pc'[k] = IF at[k] = w /\ pc[k] \notin {"free", "gone"}
                                  THEN "gone" ELSE pc[k]
    BY DEF CrashWorker
  <1>3. /\ began' = began \cup lost /\ link' = {k \in link : at[k] # w}
        /\ UNCHANGED <<home, at, opened>>
    BY DEF CrashWorker, client
  <1>4. \A j \in Casts : cast'[j] = None \/ cast'[j] = cast[j]
    BY DEF CrashWorker
  <1>5. Onward
    BY <1>2, <1>3 DEF Onward
  <1>6. \A j \in Casts : CastIn(j)'
    BY <1>4, <1>5, OnwardRooms DEF CastIn
  <1>7. Homes'
    <2>1. \A m \in Messages : home[m] = None => m \notin lost
      BY NoneAssumption
    <2>2. QED
      BY <1>1, <1>3, <1>4, <2>1, CastsApart DEF Rooms, Homes
  <1>8. \A v \in Workers : registered'[v] = IF v = w THEN {} ELSE registered[v]
    BY DEF TypeOK, CrashWorker
  <1>9. RoomsExact'
    <2>1. ASSUME NEW v \in Workers, NEW o \in registered'[v]
          PROVE  pc'[o] \in Synced /\ at'[o] = v
      <3>1. v # w /\ o \in registered[v] /\ o \in Conns
        BY <1>8, <2>1 DEF TypeOK
      <3>2. QED
        BY <1>2, <1>3, <3>1 DEF Rooms, RoomsExact
    <2>2. ASSUME NEW o \in link', pc'[o] \in Synced
          PROVE  o \in registered'[at'[o]]
      <3>1. o \in link /\ o \in Conns /\ at[o] # w /\ pc[o] \in Synced
        BY <1>2, <1>3, <2>2 DEF TypeOK
      <3>2. o \in registered[at[o]] /\ at[o] \in Workers
        BY <3>1 DEF Rooms, RoomsExact, Handlers, Synced
      <3>3. QED
        BY <1>3, <1>8, <3>1, <3>2
    <2>3. QED
      BY <2>1, <2>2 DEF RoomsExact
  <1>10. QED
    BY <1>5, <1>6, <1>7, <1>9, OnwardRooms DEF Rooms

-------------------------------------------------------------------------------
\* The log.  A message that is sent keeps its number and its home, a stored one
\* stays stored, and the next number is above all of them.
Sent(m) == phase[m] # "unsent"
Numbered ==
  /\ \A m, n \in Stored : num[m] = num[n] => m = n
  /\ \A m, n \in Staged : m = n
  /\ \A m \in Staged : num[m] = NextNumber
  /\ \A m \in Messages : phase[m] \in {"staged", "aborted"} => m \in Rest /\ num[m] <= NextNumber
Grows ==
  /\ Stored \subseteq Stored'
  /\ NextNumber' \in Nat
  /\ IF Stored' = Stored THEN NextNumber <= NextNumber' ELSE NextNumber < NextNumber'
  /\ \A m \in Messages : Sent(m) => Sent(m)' /\ num'[m] = num[m] /\ home'[m] = home[m]
  /\ \A m \in Messages : m \in Stored' \ Stored =>
       /\ num'[m] = NextNumber /\ \A n \in Stored : num[n] < num'[m]
       /\ m \in Rest \/ m \notin began'

LEMMA SameNumber ==
  ASSUME TypeOK, Bounded, Stored' = Stored, \A m \in Stored : num'[m] = num[m]
  PROVE  NextNumber' = NextNumber
  <1>1. {num'[m] : m \in Stored'} = {num[m] : m \in Stored}
    OBVIOUS
  <1>2. NextNumber' = Highest({num'[m] : m \in Stored'}) + 1
    BY DEF NextNumber, Highest
  <1>3. QED
    BY <1>1, <1>2 DEF NextNumber

\* The number after the next one: message m has taken it.
LEMMA NumberTaken ==
  ASSUME TypeOK, Bounded, TypeOK', Bounded', NEW m \in Messages,
         Stored' = Stored \cup {m}, num'[m] = NextNumber, \A n \in Stored : num'[n] = num[n]
  PROVE  NextNumber' = NextNumber + 1
  <1> DEFINE S == {num'[n] : n \in Stored'}
  <1>1. PICK b \in Nat : \A n \in Messages : num'[n] <= b
    BY DEF Bounded
  <1>2. /\ NextNumber \in Nat /\ NextNumber > 0
        /\ \A n \in Stored : num[n] < NextNumber /\ num[n] \in Nat
    BY NextNumberIs DEF TypeOK, Stored
  <1>3. S = {num[n] : n \in Stored} \cup {NextNumber}
    OBVIOUS
  <1>4. S \subseteq Nat /\ \A s \in S : s <= NextNumber
    BY <1>2, <1>3
  <1>5. NextNumber \in S
    BY <1>3
  <1> HIDE DEF S
  <1>6. /\ Highest(S) \in S \cup {0}
        /\ Highest(S) \in Nat
        /\ \A s \in S : s <= Highest(S)
    BY <1>2, <1>4, HighestOf
  <1>7. Highest(S) = NextNumber
    <2>1. NextNumber <= Highest(S)
      BY <1>5, <1>6
    <2>2. Highest(S) <= NextNumber
      BY <1>2, <1>4, <1>6
    <2>3. QED
      BY <1>2, <1>6, <2>1, <2>2
  <1>8. NextNumber' = Highest(S) + 1
    BY DEF NextNumber, Highest, S
  <1>9. QED
    BY <1>7, <1>8

LEMMA NumbersGrow ==
  ASSUME TypeOK, Bounded, Rooms, Numbered, TypeOK', Bounded', NEW m \in Messages,
         NEW step \in {"stored", "staged"}, step = "staged" <=> m \in Rest, Numbers(m, step)
  PROVE  Numbered' /\ Grows
  <1>1. /\ phase[m] = "unsent" /\ Staged = {} /\ m \notin began
        /\ phase' = [phase EXCEPT ![m] = step] /\ num' = [num EXCEPT ![m] = NextNumber]
        /\ began' = began
    BY DEF Numbers, hub, Rooms, Homes
  <1>2. \A n \in Messages : n # m => phase'[n] = phase[n] /\ num'[n] = num[n] /\ home'[n] = home[n]
    BY <1>1 DEF TypeOK, Numbers
  <1>3. phase'[m] = step /\ num'[m] = NextNumber
    BY <1>1 DEF TypeOK
  <1>4. /\ NextNumber \in Nat /\ \A n \in Stored : num[n] < NextNumber
        /\ \A n \in Messages : num[n] \in Nat
    BY NextNumberIs DEF TypeOK
  <1>5. m \notin Stored /\ Stored \subseteq Messages
    BY <1>1 DEF Stored
  <1>6. Stored' = IF step = "stored" THEN Stored \cup {m} ELSE Stored
    BY <1>1, <1>2, <1>3 DEF Stored
  <1>7. Staged' = IF step = "stored" THEN {} ELSE {m}
    BY <1>1, <1>2, <1>3 DEF Staged
  <1>8. NextNumber' = IF step = "stored" THEN NextNumber + 1 ELSE NextNumber
    BY <1>2, <1>3, <1>5, <1>6, NumberTaken, SameNumber
  <1>9. Numbered'
    <2>1. \A n, o \in Stored' : num'[n] = num'[o] => n = o
      BY <1>2, <1>3, <1>4, <1>5, <1>6 DEF Numbered
    <2>2. \A n \in Staged' : num'[n] = NextNumber'
      BY <1>3, <1>7, <1>8
    <2>3. \A n \in Messages : phase'[n] \in {"staged", "aborted"} =>
            n \in Rest /\ num'[n] <= NextNumber'
      BY <1>2, <1>3, <1>4, <1>8 DEF Numbered
    <2>4. QED
      BY <1>7, <2>1, <2>2, <2>3 DEF Numbered
  <1>10. Grows
    BY <1>1, <1>2, <1>3, <1>4, <1>5, <1>6, <1>8 DEF Grows, Sent
  <1>11. QED
    BY <1>9, <1>10

LEMMA CommitRestGrows ==
  ASSUME TypeOK, Bounded, Numbered, TypeOK', Bounded', NEW m \in Messages, CommitRest(m)
  PROVE  Numbered' /\ Grows
  <1>1. PICK end \in {"stored", "aborted"} : phase' = [phase EXCEPT ![m] = end]
    BY DEF CommitRest
  <1>2. phase[m] = "staged" /\ UNCHANGED <<num, home>>
    BY DEF CommitRest
  <1>3. \A n \in Messages : phase'[n] = IF n = m THEN end ELSE phase[n]
    BY <1>1 DEF TypeOK
  <1>4. /\ NextNumber \in Nat /\ \A n \in Stored : num[n] < NextNumber
        /\ \A n \in Messages : num[n] \in Nat
    BY NextNumberIs DEF TypeOK
  <1>5. m \in Staged /\ m \notin Stored /\ m \in Rest /\ num[m] = NextNumber
    BY <1>2 DEF Staged, Stored, Numbered
  <1>6. Stored' = IF end = "stored" THEN Stored \cup {m} ELSE Stored
    BY <1>2, <1>3 DEF Stored
  <1>7. Staged' = {}
    BY <1>3, <1>5 DEF Numbered, Staged
  <1>8. NextNumber' = IF end = "stored" THEN NextNumber + 1 ELSE NextNumber
    BY <1>2, <1>5, <1>6, NumberTaken, SameNumber
  <1>9. Numbered'
    <2>1. \A n, o \in Stored' : num'[n] = num'[o] => n = o
      BY <1>2, <1>4, <1>5, <1>6 DEF Numbered
    <2>2. \A n \in Messages : phase'[n] \in {"staged", "aborted"} =>
            n \in Rest /\ num'[n] <= NextNumber'
      BY <1>2, <1>3, <1>4, <1>5, <1>8 DEF Numbered
    <2>3. QED
      BY <1>7, <2>1, <2>2 DEF Numbered
  <1>10. Grows
    BY <1>2, <1>3, <1>4, <1>5, <1>6, <1>8 DEF Grows, Sent
  <1>11. QED
    BY <1>9, <1>10

\* A step that stores nothing; it may roll back what was not committed.
LEMMA LogStays ==
  ASSUME TypeOK, Bounded, Numbered, UNCHANGED <<num, home>>,
         \A m \in Messages : \/ phase'[m] = phase[m]
                             \/ phase[m] = "staged" /\ phase'[m] = "aborted"
  PROVE  Bounded' /\ Numbered' /\ Grows
  <1>1. Stored' = Stored /\ Staged' \subseteq Staged
    BY DEF Stored, Staged
  <1>2. NextNumber' = NextNumber
    BY <1>1, SameNumber
  <1>3. NextNumber \in Nat
    BY NextNumberIs
  <1>4. Numbered'
    BY <1>1, <1>2 DEF Numbered, Staged
  <1>5. Grows
    BY <1>1, <1>2, <1>3 DEF Grows, Sent
  <1>6. Bounded'
    BY DEF Bounded
  <1>7. QED
    BY <1>4, <1>5, <1>6

-------------------------------------------------------------------------------
\* All steps together.
Ground == TypeOK /\ Bounded /\ Rooms /\ Numbered
GroundNext == Ground' /\ Grows

LEMMA SameLog ==
  ASSUME Ground, TypeOK', Rooms', UNCHANGED database
  PROVE  GroundNext
  BY LogStays DEF Ground, GroundNext, database

LEMMA HandlerGround ==
  ASSUME Ground, NEW k \in Conns,
         \/ Drop(k) \/ WebReceive(k) \/ SdkReceive(k)
         \/ Refuse(k) \/ Admit(k) \/ Ping(k) \/ Join(k) \/ ReadReplay(k) \/ SendReplay(k)
         \/ Relay(k) \/ HandlerCastStep(k) \/ Disconnect(k) \/ MarkOffline(k) \/ Fail(k)
  PROVE  GroundNext
  <1> USE DEF Ground
  <1>1. CASE Drop(k)
    <2>1. TypeOK' /\ Rooms'
      BY <1>1, DropType, QuietRooms
    <2>2. QED
      BY <1>1, <2>1, SameLog DEF Drop
  <1>2. CASE WebReceive(k) \/ SdkReceive(k)
    <2>1. PICK times : Take(k, times)
      BY <1>2, TakeShows
    <2>2. TypeOK' /\ Rooms'
      BY <1>2, <2>1, TakeType, QuietRooms
    <2>3. QED
      BY <2>1, <2>2, SameLog DEF Take
  <1>3. CASE Refuse(k) \/ Admit(k) \/ Ping(k) \/ ReadReplay(k)
    <2>1. TypeOK' /\ Rooms'
      BY <1>3, HandlerType, QuietRooms
    <2>2. UNCHANGED database
      BY <1>3 DEF Refuse, Admit, Ping, ReadReplay
    <2>3. QED
      BY <2>1, <2>2, SameLog
  <1>4. CASE Join(k)
    <2>1. TypeOK' /\ Rooms'
      BY <1>4, HandlerType, JoinRooms
    <2>2. QED
      BY <1>4, <2>1, SameLog DEF Join
  <1>5. CASE SendReplay(k) \/ Relay(k) \/ MarkOffline(k)
    <2>1. at[k] \in Workers /\ UNCHANGED database
      BY <1>5 DEF SendReplay, Relay, MarkOffline, Rooms, Handlers
    <2>2. TypeOK' /\ Rooms'
      BY <1>5, <2>1, AnnounceType, AnnounceRooms
    <2>3. QED
      BY <2>1, <2>2, SameLog
  <1>6. CASE HandlerCastStep(k)
    <2>1. TypeOK' /\ Rooms'
      BY <1>6, HandlerCastType, HandlerCastRooms
    <2>2. QED
      BY <1>6, <2>1, SameLog DEF HandlerCastStep
  <1>7. CASE Disconnect(k) \/ Fail(k)
    <2>1. TypeOK' /\ Rooms'
      BY <1>7, HandlerType, LeftRooms
    <2>2. UNCHANGED database
      BY <1>7 DEF Disconnect, Fail
    <2>3. QED
      BY <2>1, <2>2, SameLog
  <1>8. QED
    BY <1>1, <1>2, <1>3, <1>4, <1>5, <1>6, <1>7

LEMMA MessageGround ==
  ASSUME Ground, NEW m \in Messages,
         Store(m) \/ Stage(m) \/ BeginMessageCast(m) \/ MessageCastStep(m) \/ CommitRest(m)
  PROVE  GroundNext
  <1> USE DEF Ground
  <1>1. CASE Store(m)
    <2>1. m \notin Rest /\ Numbers(m, "stored")
      BY <1>1, StoreNumbers
    <2>2. TypeOK' /\ Bounded' /\ Rooms'
      BY <2>1, NumbersType, NumbersRooms
    <2>3. QED
      BY <2>1, <2>2, NumbersGrow DEF GroundNext
  <1>2. CASE Stage(m)
    <2>1. m \in Rest /\ Numbers(m, "staged")
      BY <1>2, StoreNumbers
    <2>2. TypeOK' /\ Bounded' /\ Rooms'
      BY <2>1, NumbersType, NumbersRooms
    <2>3. QED
      BY <2>1, <2>2, NumbersGrow DEF GroundNext
  <1>3. CASE BeginMessageCast(m)
    <2>1. home[m] \in Workers
      BY <1>3 DEF BeginMessageCast, Rooms, Homes
    <2>2. TypeOK' /\ Rooms'
      BY <1>3, <2>1, BeginMessageType, BeginMessageRooms
    <2>3. QED
      BY <1>3, <2>2, SameLog DEF BeginMessageCast
  <1>4. CASE MessageCastStep(m)
    <2>1. TypeOK' /\ Rooms'
      BY <1>4, MessageCastType, MessageCastRooms
    <2>2. QED
      BY <1>4, <2>1, SameLog DEF MessageCastStep
  <1>5. CASE CommitRest(m)
    <2>1. TypeOK' /\ Rooms'
      BY <1>5, CommitRestType, CommitRestRooms
    <2>2. Bounded'
      BY <1>5 DEF CommitRest, Bounded
    <2>3. QED
      BY <1>5, <2>1, <2>2, CommitRestGrows DEF GroundNext
  <1>6. QED
    BY <1>1, <1>2, <1>3, <1>4, <1>5

LEMMA CrashGround ==
  ASSUME Ground, NEW w \in Workers, CrashWorker(w)
  PROVE  GroundNext
  <1>1. TypeOK' /\ Rooms'
    BY CrashType, CrashRooms DEF Ground
  <1>2. UNCHANGED <<num, home>>
    BY DEF CrashWorker
  <1>3. \A m \in Messages : phase'[m] = phase[m] \/ (phase[m] = "staged" /\ phase'[m] = "aborted")
    BY DEF CrashWorker
  <1>4. QED
    BY <1>1, <1>2, <1>3, LogStays DEF Ground, GroundNext

LEMMA GroundInit == Init => Ground
  <1> SUFFICES ASSUME Init PROVE Ground
    OBVIOUS
  <1>1. TypeOK /\ Bounded
    BY TypeInit
  <1>2. Rooms
    BY DEF Init, Rooms, Homes, Handlers, CastIn, RoomsExact, Casts, Conns
  <1>3. Stored = {} /\ Staged = {}
    BY DEF Init, Stored, Staged
  <1>4. Numbered
    BY <1>3 DEF Init, Numbered
  <1>5. QED
    BY <1>1, <1>2, <1>4 DEF Ground

LEMMA GroundStep ==
  ASSUME Ground, [Next]_vars
  PROVE  Ground'
  <1>1. CASE UNCHANGED vars
    <2>1. /\ UNCHANGED <<phase, num, home, began, cast, registered, pc, at, asked, replay, link>>
          /\ UNCHANGED <<wire, web, opened, running, shown, known, presence>>
      BY <1>1 DEF vars, database, hub, handler, network, client
    <2>2. TypeOK'
      BY <2>1 DEF Ground, TypeOK
    <2>3. Rooms'
      BY <2>1 DEF Ground, Rooms, Homes, Handlers, CastIn, RoomsExact
    <2>4. QED
      BY <2>1, <2>2, <2>3, SameLog DEF GroundNext, database
  <1>2. CASE \E c \in Clients : WebStart(c) \/ CliStart(c)
    <2>1. PICK c \in Clients, ms \in SUBSET Stored : Start(c, ms)
      BY <1>2, StartsAre
    <2>2. TypeOK' /\ Rooms'
      BY <2>1, StartType, QuietRooms DEF Ground, Stored
    <2>3. QED
      BY <2>1, <2>2, SameLog DEF Start, GroundNext
  <1>3. CASE \E c \in Clients : WebConnect(c) \/ SdkConnect(c)
    <2>1. PICK c \in Clients, w \in Workers : Open(c, w)
      BY <1>3, OpensAre
    <2>2. TypeOK' /\ Rooms'
      BY <2>1, OpenType, OpenRooms DEF Ground
    <2>3. QED
      BY <2>1, <2>2, SameLog DEF Open, GroundNext
  <1>4. QED
    BY <1>1, <1>2, <1>3, HandlerGround, MessageGround, CrashGround DEF Next, GroundNext

-------------------------------------------------------------------------------
\* What is on its way or shown was sent; a replay holds stored messages.
Legal(f) ==
  /\ f.kind = "event" => \E m \in Messages : f.msgs = {m} /\ Sent(m)
  /\ f.kind = "replay" => f.msgs \subseteq Stored
LegalNext(f) ==
  /\ f.kind = "event" => \E m \in Messages : f.msgs = {m} /\ Sent(m)'
  /\ f.kind = "replay" => f.msgs \subseteq Stored'
Frames == \A k \in Conns : \A i \in DOMAIN wire[k] : Legal(wire[k][i])
Carried ==
  /\ Frames
  /\ \A k \in Conns : replay[k] \subseteq Stored
  /\ \A c \in Clients, m \in Messages : shown[c][m] > 0 => Sent(m)

\* Clients that have not started know nothing, and have no connection.
Started ==
  /\ \A c \in Clients \ running : known[c] = 0
  /\ \A k \in link : OwnerOf(k) \in running

Display == Carried /\ Started /\ WebShowsOnce /\ CursorWithinLog

LEMMA LegalFrame ==
  ASSUME TypeOK, NEW f \in Frame, Legal(f)
  PROVE  \A m \in f.msgs : m \in Messages /\ Sent(m) /\ (f.kind = "replay" => m \in Stored)
  BY DEF Legal, Frame, Stored, Sent

LEMMA LegalKept ==
  ASSUME Grows, NEW f, Legal(f)
  PROVE  LegalNext(f)
  BY DEF Grows, Legal, LegalNext

\* The frames on the wire after a step: some of those before, or a legal one.
LEMMA FramesKept ==
  ASSUME Grows, Frames,
         \A k \in Conns : \A i \in DOMAIN wire'[k] :
           LegalNext(wire'[k][i]) \/ \E j \in DOMAIN wire[k] : wire'[k][i] = wire[k][j]
  PROVE  Frames'
  <1>1. \A k \in Conns : \A i \in DOMAIN wire'[k] : LegalNext(wire'[k][i])
    BY LegalKept DEF Frames
  <1>2. QED
    BY <1>1 DEF Frames, Legal, LegalNext

LEMMA AppendFrames ==
  ASSUME TypeOK, Grows, Frames, NEW k \in Conns, NEW f \in Frame, Legal(f),
         wire' = [wire EXCEPT ![k] = Append(@, f)]
  PROVE  Frames'
  <1>1. ASSUME NEW o \in Conns, NEW i \in DOMAIN wire'[o]
        PROVE  wire'[o][i] = f \/ (i \in DOMAIN wire[o] /\ wire'[o][i] = wire[o][i])
    BY <1>1 DEF TypeOK
  <1>2. LegalNext(f)
    BY LegalKept
  <1>3. QED
    BY <1>1, <1>2, FramesKept

LEMMA SameFrames ==
  ASSUME Grows, Frames, UNCHANGED wire
  PROVE  Frames'
  BY FramesKept DEF Frames

\* Clearing a wire.
LEMMA ClearedFrames ==
  ASSUME Grows, Frames, \A k \in Conns : wire'[k] = wire[k] \/ wire'[k] = <<>>
  PROVE  Frames'
  BY FramesKept DEF Frames

\* The cursor of a client, of the log before the step.
Ahead(c) ==
  known[c] >= NextNumber =>
    /\ known[c] = NextNumber
    /\ \E m \in Rest \ Stored : num[m] = known[c] /\ shown[c][m] > 0

LEMMA CursorKept ==
  ASSUME Ground, Grows, Carried, NEW c \in Clients, Ahead(c),
         known'[c] = known[c],
         \A m \in Messages : shown'[c][m] \in Nat /\ shown'[c][m] >= shown[c][m]
  PROVE  Ahead(c)'
  <1> SUFFICES ASSUME known'[c] >= NextNumber' PROVE Ahead(c)'
    BY DEF Ahead
  <1>1. NextNumber \in Nat /\ NextNumber' \in Nat /\ known[c] \in Nat
    BY NextNumberIs DEF Ground, TypeOK, Grows
  <1>2. NextNumber <= NextNumber'
    BY <1>1 DEF Grows
  <1>3. known[c] = NextNumber
    BY <1>1, <1>2 DEF Ahead
  <1>4. NextNumber' = NextNumber /\ Stored' = Stored
    BY <1>1, <1>2, <1>3 DEF Grows
  <1>5. PICK m \in Rest \ Stored : num[m] = known[c] /\ shown[c][m] > 0
    BY <1>1, <1>3 DEF Ahead
  <1>6. m \in Messages /\ shown[c][m] \in Nat
    BY MessagesAssumption DEF Ground, TypeOK
  <1>7. num'[m] = num[m] /\ shown'[c][m] > 0
    BY <1>5, <1>6 DEF Carried, Grows
  <1>8. QED
    BY <1>3, <1>4, <1>5, <1>7 DEF Ahead

\* Steps after which every client shows what it showed before.
LEMMA QuietDisplay ==
  ASSUME Ground, Grows, Display, Frames', \A k \in Conns : replay'[k] \subseteq Stored',
         link' \subseteq link, UNCHANGED <<web, running, shown, known>>
  PROVE  Display'
  <1>1. \A c \in Clients, m \in Messages : shown'[c][m] > 0 => Sent(m)'
    BY DEF Display, Carried, Grows
  <1>2. Carried'
    BY <1>1 DEF Carried
  <1>3. Started' /\ WebShowsOnce'
    BY DEF Display, Started, WebShowsOnce
  <1>4. ASSUME NEW c \in Clients PROVE Ahead(c)'
    <2>1. Ahead(c)
      BY DEF Display, CursorWithinLog, Ahead
    <2>2. \A m \in Messages : shown'[c][m] \in Nat /\ shown'[c][m] >= shown[c][m]
      BY DEF Ground, TypeOK
    <2>3. QED
      BY <2>1, <2>2, CursorKept DEF Display
  <1>5. CursorWithinLog'
    BY <1>4 DEF CursorWithinLog, Ahead
  <1>6. QED
    BY <1>2, <1>3, <1>5 DEF Display

LEMMA ShownNat ==
  ASSUME TypeOK
  PROVE  \A c \in Clients : shown[c] \in [Messages -> Nat] /\ \A m \in Messages : shown[c][m] \in Nat
  BY DEF TypeOK

LEMMA StartDisplay ==
  ASSUME Ground, Grows, Display, NEW c \in Clients, NEW ms \in SUBSET Stored, Start(c, ms)
  PROVE  Display'
  <1> DEFINE new == [m \in Messages |-> IF m \in ms THEN 1 ELSE 0]
  <1>1. /\ c \notin running /\ running' = running \cup {c}
        /\ UNCHANGED <<wire, replay, web, known, link>>
        /\ \A d \in Clients : shown'[d] = IF d = c THEN new ELSE shown[d]
    BY DEF Start, handler, network, Ground, TypeOK
  <1>2. \A d \in Clients, m \in Messages : shown'[d][m] =
          IF d # c THEN shown[d][m] ELSE IF m \in ms THEN 1 ELSE 0
    BY <1>1
  <1>3. Frames' /\ \A k \in Conns : replay'[k] \subseteq Stored'
    BY <1>1, SameFrames DEF Display, Carried, Grows
  <1>4. \A d \in Clients, m \in Messages : shown'[d][m] > 0 => Sent(m)'
    <2>1. \A m \in ms : m \in Messages /\ Sent(m)
      BY DEF Stored, Sent
    <2>2. QED
      BY <1>2, <2>1 DEF Display, Carried, Grows
  <1>5. Carried'
    BY <1>3, <1>4 DEF Carried
  <1>6. Started'
    BY <1>1 DEF Display, Started
  <1>7. WebShowsOnce'
    <2>1. web \subseteq Clients /\ web' = web
      BY <1>1 DEF Ground, TypeOK
    <2>2. \A d \in Clients, m \in Messages : d \in web /\ d # c => shown[d][m] <= 1
      BY DEF Display, WebShowsOnce
    <2>3. \A d \in Clients, m \in Messages : d \in web => shown'[d][m] <= 1
      BY <1>2, <2>2
    <2>4. QED
      BY <2>1, <2>3 DEF WebShowsOnce
  <1>8. ASSUME NEW d \in Clients PROVE Ahead(d)'
    <2>1. CASE d # c
      <3>1. Ahead(d)
        BY DEF Display, CursorWithinLog, Ahead
      <3>2. \A m \in Messages : shown'[d][m] \in Nat /\ shown'[d][m] >= shown[d][m]
        BY <1>2, <2>1, ShownNat DEF Ground
      <3>3. QED
        BY <1>1, <3>1, <3>2, CursorKept DEF Display
    <2>2. CASE d = c
      <3>1. known'[d] = 0
        BY <1>1, <2>2 DEF Display, Started
      <3>2. NextNumber \in Nat /\ NextNumber > 0 /\ NextNumber <= NextNumber'
        BY NextNumberIs DEF Ground, Grows
      <3>3. QED
        BY <3>1, <3>2 DEF Ahead, Grows
    <2>3. QED
      BY <2>1, <2>2
  <1>9. CursorWithinLog'
    BY <1>8 DEF CursorWithinLog, Ahead
  <1>10. QED
    BY <1>5, <1>6, <1>7, <1>9 DEF Display

LEMMA OpenDisplay ==
  ASSUME Ground, Grows, Display, NEW c \in Clients, NEW w \in Workers, Open(c, w)
  PROVE  Display'
  <1>1. /\ link' = link \cup {<<c, opened[c] + 1>>} /\ c \in running
        /\ UNCHANGED <<wire, replay, web, running, shown, known>>
    BY DEF Open
  <1>2. Frames' /\ \A k \in Conns : replay'[k] \subseteq Stored'
    BY <1>1, SameFrames DEF Display, Carried, Grows
  <1>3. \A d \in Clients, m \in Messages : shown'[d][m] > 0 => Sent(m)'
    BY <1>1 DEF Display, Carried, Grows
  <1>4. Carried'
    BY <1>2, <1>3 DEF Carried
  <1>5. Started' /\ WebShowsOnce'
    BY <1>1 DEF Display, Started, WebShowsOnce, OwnerOf
  <1>6. ASSUME NEW d \in Clients PROVE Ahead(d)'
    <2>1. Ahead(d)
      BY DEF Display, CursorWithinLog, Ahead
    <2>2. \A m \in Messages : shown'[d][m] \in Nat /\ shown'[d][m] >= shown[d][m]
      BY <1>1 DEF Ground, TypeOK
    <2>3. QED
      BY <1>1, <2>1, <2>2, CursorKept DEF Display
  <1>7. CursorWithinLog'
    BY <1>6 DEF CursorWithinLog, Ahead
  <1>8. QED
    BY <1>4, <1>5, <1>7 DEF Display

LEMMA TailOf ==
  ASSUME NEW S, NEW s \in Seq(S), s # <<>>, NEW i \in DOMAIN Tail(s)
  PROVE  i + 1 \in DOMAIN s /\ Tail(s)[i] = s[i + 1]
  OBVIOUS

\* A frame moves the cursor past the log by one at most, and only for an
\* uncommitted message it shows.
LEMMA TakeDisplay ==
  ASSUME Ground, Grows, Display, NEW k \in Conns, WebReceive(k) \/ SdkReceive(k)
  PROVE  Display'
  <1> DEFINE c == OwnerOf(k)  f == Head(wire[k])
  <1>1. c \in Clients /\ wire[k] # <<>> /\ f \in Frame
    BY TakeShows DEF Ground
  <1>2. PICK times : Take(k, times) /\ Shows(c, f, times)
    BY TakeShows DEF Ground
  <1>3. Legal(f)
    <2>1. 1 \in DOMAIN wire[k] /\ wire[k][1] = f
      BY <1>1 DEF Ground, TypeOK
    <2>2. QED
      BY <2>1 DEF Display, Carried, Frames
  <1> HIDE DEF c, f
  <1>4. /\ \A d \in Clients : shown'[d] = IF d = c THEN times ELSE shown[d]
        /\ \A d \in Clients : known'[d] = IF d = c THEN Advance(c, f) ELSE known[d]
        /\ wire' = [wire EXCEPT ![k] = Tail(@)] /\ k \in link
        /\ UNCHANGED <<phase, num, replay, link, web, running>>
    BY <1>2 DEF Take, Ground, TypeOK, database, handler, c, f
  <1>5. \A d \in Clients, m \in Messages : shown'[d][m] \in Nat /\ shown'[d][m] >= shown[d][m]
    BY <1>2, <1>4, ShownNat DEF Shows, Ground
  <1>6. NextNumber' = NextNumber /\ Stored' = Stored
    BY <1>4 DEF NextNumber, Stored, Highest
  <1>7. Frames'
    <2>1. ASSUME NEW o \in Conns, NEW i \in DOMAIN wire'[o]
          PROVE  \E j \in DOMAIN wire[o] : wire'[o][i] = wire[o][j]
      <3>1. wire[k] \in Seq(Frame) /\ wire'[o] = IF o = k THEN Tail(wire[k]) ELSE wire[o]
        BY <1>4 DEF Ground, TypeOK
      <3>2. QED
        BY <1>1, <2>1, <3>1, TailOf
    <2>2. QED
      BY <2>1, FramesKept DEF Display, Carried
  <1>8. \A m \in f.msgs : m \in Messages /\ Sent(m) /\ (f.kind = "replay" => m \in Stored)
    BY <1>1, <1>3, LegalFrame DEF Ground
  <1>9. ASSUME NEW d \in Clients, NEW m \in Messages, shown'[d][m] > 0 PROVE Sent(m)'
    <2>1. shown[d][m] > 0 \/ m \in f.msgs
      BY <1>2, <1>4, <1>9 DEF Shows
    <2>2. Sent(m)
      BY <1>8, <2>1 DEF Display, Carried
    <2>3. QED
      BY <2>2 DEF Grows
  <1>10. Carried'
    BY <1>4, <1>6, <1>7, <1>9 DEF Display, Carried
  <1>11. Started'
    <2>1. c \in running
      BY <1>4 DEF Display, Started, c
    <2>2. QED
      BY <1>4, <2>1 DEF Display, Started
  <1>12. WebShowsOnce'
    <2>1. \A d \in Clients, m \in Messages : d \in web => shown[d][m] <= 1
      BY DEF Display, WebShowsOnce
    <2>2. c \in web => \A m \in Messages : times[m] <= 1
      BY <1>1, <1>2, <2>1 DEF Shows
    <2>3. \A d \in Clients, m \in Messages : d \in web => shown'[d][m] <= 1
      BY <1>4, <2>1, <2>2
    <2>4. web' \subseteq Clients /\ web' = web
      BY <1>4 DEF Ground, TypeOK
    <2>5. QED
      BY <2>3, <2>4 DEF WebShowsOnce
  <1>13. ASSUME NEW d \in Clients PROVE Ahead(d)'
    <2>1. Ahead(d)
      BY DEF Display, CursorWithinLog, Ahead
    <2>2. CASE known'[d] = known[d]
      BY <1>5, <2>1, <2>2, CursorKept DEF Display
    <2>3. CASE known'[d] # known[d]
      <3>1. d = c /\ known'[d] = Advance(c, f)
        BY <1>4, <2>3
      <3>2. PICK m \in f.msgs : known'[d] = num[m]
        BY <1>1, <2>3, <3>1, AdvanceIs DEF Ground
      <3>3. m \in Messages /\ Sent(m) /\ (f.kind = "replay" => m \in Stored)
        BY <1>8
      <3>4. NextNumber \in Nat /\ num[m] \in Nat /\ (m \in Stored => num[m] < NextNumber)
        BY <3>3, NextNumberIs DEF Ground, TypeOK
      <3>5. m \notin Stored => m \in Rest /\ num[m] <= NextNumber
        BY <3>3 DEF Ground, TypeOK, Numbered, Sent, Stored
      <3>6. CASE m \in Stored
        BY <1>6, <3>2, <3>4, <3>6 DEF Ahead
      <3>7. CASE m \notin Stored
        <4>1. f.kind = "event"
          BY <1>1, <3>3, <3>7 DEF Frame
        <4>2. f.msgs = {m}
          BY <1>3, <3>2, <4>1 DEF Legal
        <4>3. times[m] > 0
          BY <1>2, <4>1, <4>2 DEF Shows
        <4>4. shown'[d][m] > 0 /\ num'[m] = num[m]
          BY <1>4, <3>1, <4>3
        <4>5. QED
          BY <1>6, <3>2, <3>4, <3>5, <3>7, <4>4 DEF Ahead
      <3>8. QED
        BY <3>6, <3>7
    <2>4. QED
      BY <2>2, <2>3
  <1>14. CursorWithinLog'
    BY <1>13 DEF CursorWithinLog, Ahead
  <1>15. QED
    BY <1>10, <1>11, <1>12, <1>14 DEF Display

LEMMA HandlerDisplay ==
  ASSUME Ground, Grows, Display, NEW k \in Conns,
         \/ Drop(k) \/ WebReceive(k) \/ SdkReceive(k)
         \/ Refuse(k) \/ Admit(k) \/ Ping(k) \/ Join(k) \/ ReadReplay(k) \/ SendReplay(k)
         \/ Relay(k) \/ HandlerCastStep(k) \/ Disconnect(k) \/ MarkOffline(k) \/ Fail(k)
  PROVE  Display'
  <1>1. CASE WebReceive(k) \/ SdkReceive(k)
    BY <1>1, TakeDisplay
  <1>2. CASE Drop(k)
    <2>1. \A o \in Conns : wire'[o] = wire[o] \/ wire'[o] = <<>>
      BY <1>2 DEF Drop, Ground, TypeOK
    <2>2. link' \subseteq link /\ UNCHANGED <<replay, web, running, shown, known>>
      BY <1>2 DEF Drop, handler, client
    <2>3. Frames' /\ \A o \in Conns : replay'[o] \subseteq Stored'
      BY <2>1, <2>2, ClearedFrames DEF Display, Carried, Grows
    <2>4. QED
      BY <2>2, <2>3, QuietDisplay
  <1>3. CASE \/ Refuse(k) \/ Admit(k) \/ Ping(k) \/ Join(k) \/ Relay(k)
             \/ Disconnect(k) \/ MarkOffline(k) \/ Fail(k)
    <2>1. UNCHANGED <<link, wire, web, running, shown, known>>
      BY <1>3 DEF Refuse, Admit, Ping, Join, Relay, Disconnect, MarkOffline, Fail, network, client
    <2>2. \A o \in Conns : replay'[o] = replay[o] \/ replay'[o] = {}
      BY <1>3 DEF Refuse, Admit, Ping, Join, Relay, Disconnect, MarkOffline, Fail, Leave,
                  handler, Ground, TypeOK
    <2>3. Frames' /\ \A o \in Conns : replay'[o] \subseteq Stored'
      BY <2>1, <2>2, SameFrames DEF Display, Carried, Grows
    <2>4. QED
      BY <2>1, <2>3, QuietDisplay
  <1>4. CASE ReadReplay(k)
    <2>1. /\ replay' = [replay EXCEPT ![k] = HistoryAfter(asked[k], ReplayLimit)]
          /\ UNCHANGED <<link, wire, web, running, shown, known>>
      BY <1>4 DEF ReadReplay, network, client
    <2>2. HistoryAfter(asked[k], ReplayLimit) \subseteq Stored
      BY DEF HistoryAfter
    <2>3. \A o \in Conns : replay'[o] \subseteq Stored'
      BY <2>1, <2>2 DEF Display, Carried, Grows, Ground, TypeOK
    <2>4. Frames'
      BY <2>1, SameFrames DEF Display, Carried
    <2>5. QED
      BY <2>1, <2>3, <2>4, QuietDisplay
  <1>5. CASE SendReplay(k)
    <2> DEFINE f == [kind |-> "replay", msgs |-> replay[k]]
    <2>1. /\ wire' = wire \/ wire' = [wire EXCEPT ![k] = Append(@, f)]
          /\ UNCHANGED <<link, replay, web, running, shown, known>>
      BY <1>5 DEF SendReplay, client
    <2>2. f \in Frame /\ Legal(f)
      BY DEF Ground, TypeOK, Frame, Legal, Display, Carried
    <2> HIDE DEF f
    <2>3. Frames'
      BY <2>1, <2>2, AppendFrames, SameFrames DEF Display, Carried, Ground
    <2>4. \A o \in Conns : replay'[o] \subseteq Stored'
      BY <2>1 DEF Display, Carried, Grows
    <2>5. QED
      BY <2>1, <2>3, <2>4, QuietDisplay
  <1>6. CASE HandlerCastStep(k)
    <2>1. k \in Casts /\ k \notin Messages /\ cast[k] # None /\ CastStep(k, at[k])
      BY <1>6, CastsApart DEF HandlerCastStep
    <2>2. PICK o, dead : SendStep(k, at[k], o, dead)
      BY <2>1, CastStepIs DEF Ground
    <2>3. UNCHANGED <<link, wire, replay, web, running, shown, known>>
      BY <1>6, <2>1, <2>2
      DEF HandlerCastStep, SendStep, Delivered, SendVanishes, SendFails, client
    <2>4. Frames' /\ \A i \in Conns : replay'[i] \subseteq Stored'
      BY <2>3, SameFrames DEF Display, Carried, Grows
    <2>5. QED
      BY <2>3, <2>4, QuietDisplay
  <1>7. QED
    BY <1>1, <1>2, <1>3, <1>4, <1>5, <1>6

LEMMA MessageDisplay ==
  ASSUME Ground, Grows, Display, NEW m \in Messages,
         Store(m) \/ Stage(m) \/ BeginMessageCast(m) \/ MessageCastStep(m) \/ CommitRest(m)
  PROVE  Display'
  <1>1. UNCHANGED <<link, replay, web, running, shown, known>>
    BY DEF Store, Stage, BeginMessageCast, MessageCastStep, CommitRest, handler, network, client
  <1>2. \A k \in Conns : replay'[k] \subseteq Stored'
    BY <1>1 DEF Display, Carried, Grows
  <1>3. Frames'
    <2>1. CASE MessageCastStep(m)
      <3>1. m \in Casts /\ cast[m] # None /\ CastStep(m, home[m])
        BY <2>1, CastsApart DEF MessageCastStep
      <3>2. PICK k \in Conns : \E dead : SendStep(m, home[m], k, dead)
        BY <3>1, CastStepIs DEF Ground
      <3> DEFINE f == [kind |-> "event", msgs |-> {m}]
      <3>3. wire' = wire \/ wire' = [wire EXCEPT ![k] = Append(@, f)]
        BY <3>2 DEF SendStep, Delivered, SendVanishes, SendFails
      <3>4. Sent(m)
        BY <3>1 DEF Ground, Rooms, Homes, Sent
      <3>5. f \in Frame /\ Legal(f)
        BY <3>4 DEF Frame, Legal
      <3> HIDE DEF f
      <3>6. QED
        BY <3>3, <3>5, AppendFrames, SameFrames DEF Display, Carried, Ground
    <2>2. CASE Store(m) \/ Stage(m) \/ BeginMessageCast(m) \/ CommitRest(m)
      <3>1. UNCHANGED wire
        BY <2>2 DEF Store, Stage, BeginMessageCast, CommitRest, network
      <3>2. QED
        BY <3>1, SameFrames DEF Display, Carried
    <2>3. QED
      BY <2>1, <2>2
  <1>4. QED
    BY <1>1, <1>2, <1>3, QuietDisplay

LEMMA CrashDisplay ==
  ASSUME Ground, Grows, Display, NEW w \in Workers, CrashWorker(w)
  PROVE  Display'
  <1>1. link' \subseteq link /\ UNCHANGED <<web, running, shown, known>>
    BY DEF CrashWorker, client
  <1>2. \A k \in Conns : wire'[k] = wire[k] \/ wire'[k] = <<>>
    BY DEF CrashWorker
  <1>3. \A k \in Conns : replay'[k] = replay[k] \/ replay'[k] = {}
    BY DEF CrashWorker
  <1>4. Frames' /\ \A k \in Conns : replay'[k] \subseteq Stored'
    BY <1>2, <1>3, ClearedFrames DEF Display, Carried, Grows
  <1>5. QED
    BY <1>1, <1>4, QuietDisplay

-------------------------------------------------------------------------------
\* A replay has no holes, and one that is not full has everything.
LEMMA StoredFinite == Stored \subseteq Messages /\ IsFiniteSet(Stored)
  <1>1. Stored \subseteq Messages
    BY DEF Stored
  <1>2. QED
    BY <1>1, MessagesAssumption, FS_Subset

LEMMA ReplayDown ==
  ASSUME TypeOK, NEW seq \in Nat, NEW n \in HistoryAfter(seq, ReplayLimit), NEW m \in Stored,
         seq < num[m], num[m] <= num[n]
  PROVE  m \in HistoryAfter(seq, ReplayLimit)
  <1> DEFINE P(o) == {l \in Stored : num[l] \in (seq + 1)..num[o]}
  <1>1. n \in Stored /\ Cardinality(P(n)) <= ReplayLimit
    BY DEF HistoryAfter
  <1>2. P(m) \subseteq P(n)
    BY <1>1 DEF TypeOK, Stored
  <1>3. IsFiniteSet(P(n))
    BY StoredFinite, FS_Subset
  <1>4. Cardinality(P(m)) <= Cardinality(P(n)) /\ Cardinality(P(m)) \in Nat /\ Cardinality(P(n)) \in Nat
    <2> HIDE DEF P
    <2>1. QED
      BY <1>2, <1>3, FS_Subset, FS_CardinalityType
  <1>5. ReplayLimit \in Nat
    BY BoundsAssumption
  <1>6. Cardinality(P(m)) <= ReplayLimit
    <2> HIDE DEF P
    <2>1. QED
      BY <1>1, <1>4, <1>5
  <1>7. QED
    BY <1>6 DEF HistoryAfter

LEMMA ReplayWhole ==
  ASSUME TypeOK, Numbered, NEW seq \in Nat, NEW m \in Stored, num[m] > seq,
         m \notin HistoryAfter(seq, ReplayLimit)
  PROVE  Cardinality(HistoryAfter(seq, ReplayLimit)) >= ReplayLimit
  <1> DEFINE H == HistoryAfter(seq, ReplayLimit)
             D == {o \in Stored : num[o] > seq /\ o \notin H}
             N == {num[o] : o \in D}
             P(o) == {l \in Stored : num[l] \in (seq + 1)..num[o]}
  <1>1. \A o \in Stored : num[o] \in Nat
    BY DEF TypeOK, Stored
  <1>2. N \subseteq Nat /\ N # {}
    BY <1>1
  <1>3. IsWellFoundedOn(OpToRel(<, Nat), Nat)
    BY NatLessThanWellFounded
  <1>4. \E x \in N : \A y \in N : <<y, x>> \notin OpToRel(<, Nat)
    <2> HIDE DEF N
    <2>1. QED
      BY <1>2, <1>3, WFMin
  <1>5. PICK x \in N : \A y \in N : ~(y < x)
    BY <1>2, <1>4 DEF OpToRel
  <1>6. PICK o \in D : \A l \in D : ~(num[l] < num[o])
    BY <1>5
  <1>7. P(o) \subseteq H \cup {o}
    <2>1. ASSUME NEW l \in P(o), l \notin H PROVE l = o
      <3>1. l \in D /\ num[l] <= num[o]
        BY <1>1, <2>1
      <3>2. num[l] = num[o]
        BY <1>1, <1>6, <3>1
      <3>3. QED
        BY <2>1, <3>2 DEF Numbered
    <2>2. QED
      BY <2>1
  <1>8. IsFiniteSet(H) /\ IsFiniteSet(P(o))
    <2>1. H \subseteq Stored /\ P(o) \subseteq Stored
      BY DEF HistoryAfter
    <2>2. QED
      BY <2>1, StoredFinite, FS_Subset
  <1>9. Cardinality(P(o)) > ReplayLimit
    <2>1. Cardinality(P(o)) \in Nat /\ ReplayLimit \in Nat
      BY <1>8, FS_CardinalityType, BoundsAssumption
    <2>2. ~(Cardinality(P(o)) <= ReplayLimit)
      BY <1>6 DEF HistoryAfter
    <2>3. QED
      BY <2>1, <2>2
  <1>10. o \notin H
    OBVIOUS
  <1> HIDE DEF H, D, N, P
  <1>11. Cardinality(H \cup {o}) = Cardinality(H) + 1 /\ IsFiniteSet(H \cup {o})
    BY <1>8, <1>10, FS_AddElement
  <1>12. Cardinality(P(o)) <= Cardinality(H \cup {o})
    BY <1>7, <1>11, FS_Subset
  <1>13. Cardinality(H) \in Nat /\ Cardinality(P(o)) \in Nat /\ ReplayLimit \in Nat
    BY <1>8, FS_CardinalityType, BoundsAssumption
  <1>14. Cardinality(H) >= ReplayLimit
    BY <1>9, <1>11, <1>12, <1>13
  <1>15. QED
    BY <1>14 DEF H

-------------------------------------------------------------------------------
\* What is shown, or on the wire of a connection that stays open, stays so.
Reaches(k, m) == shown[OwnerOf(k)][m] > 0 \/ OnWire(k, m)
Kept == \A k \in link, m \in Messages : k \in link' /\ Reaches(k, m) => Reaches(k, m)'

LEMMA AppendWire ==
  ASSUME TypeOK, NEW k \in Conns, NEW f \in Frame, wire' = [wire EXCEPT ![k] = Append(@, f)]
  PROVE  /\ \A o \in Conns, m \in Messages : OnWire(o, m) => OnWire(o, m)'
         /\ \A m \in f.msgs : OnWire(k, m)'
  <1>1. wire[k] \in Seq(Frame) /\ wire'[k] = Append(wire[k], f)
    BY DEF TypeOK
  <1>2. \A o \in Conns : o # k => wire'[o] = wire[o]
    BY DEF TypeOK
  <1>3. /\ Len(wire[k]) + 1 \in DOMAIN wire'[k] /\ wire'[k][Len(wire[k]) + 1] = f
        /\ \A i \in DOMAIN wire[k] : i \in DOMAIN wire'[k] /\ wire'[k][i] = wire[k][i]
    BY <1>1
  <1>4. \A o \in Conns, m \in Messages : OnWire(o, m) => OnWire(o, m)'
    BY <1>2, <1>3 DEF OnWire
  <1>5. \A m \in f.msgs : OnWire(k, m)'
    BY <1>3 DEF OnWire
  <1>6. QED
    BY <1>4, <1>5

LEMMA TailWire ==
  ASSUME TypeOK, NEW k \in Conns, wire[k] # <<>>, wire' = [wire EXCEPT ![k] = Tail(@)]
  PROVE  /\ \A o \in Conns, m \in Messages : o # k /\ OnWire(o, m) => OnWire(o, m)'
         /\ \A m \in Messages : OnWire(k, m) => m \in Head(wire[k]).msgs \/ OnWire(k, m)'
  <1>1. wire[k] \in Seq(Frame) /\ wire'[k] = Tail(wire[k])
    BY DEF TypeOK
  <1>2. \A o \in Conns : o # k => wire'[o] = wire[o]
    BY DEF TypeOK
  <1>3. \A i \in DOMAIN wire[k] :
          \/ wire[k][i] = Head(wire[k])
          \/ i - 1 \in DOMAIN wire'[k] /\ wire'[k][i - 1] = wire[k][i]
    <2>1. ASSUME NEW i \in 1..Len(wire[k]), i # 1
          PROVE  i - 1 \in 1..Len(Tail(wire[k])) /\ Tail(wire[k])[i - 1] = wire[k][i]
      BY <1>1, <2>1
    <2>2. wire[k][1] = Head(wire[k])
      BY <1>1
    <2>3. Tail(wire[k]) \in Seq(Frame)
      BY <1>1
    <2>4. DOMAIN wire[k] = 1..Len(wire[k]) /\ DOMAIN Tail(wire[k]) = 1..Len(Tail(wire[k]))
      BY <1>1, <2>3
    <2>5. QED
      BY <1>1, <2>1, <2>2, <2>4
  <1>4. QED
    BY <1>2, <1>3 DEF OnWire

LEMMA OwnerIs == \A k \in Conns : OwnerOf(k) \in Clients
  BY DEF OwnerOf, Conns

\* Steps that take no frame from a connection that stays open.
LEMMA QuietKept ==
  ASSUME TypeOK, UNCHANGED shown,
         \A k \in link', m \in Messages : k \in link /\ OnWire(k, m) => OnWire(k, m)'
  PROVE  Kept
  BY DEF Kept, Reaches

LEMMA SameWire ==
  ASSUME TypeOK, UNCHANGED shown, \A k \in link' : wire'[k] = wire[k]
  PROVE  Kept
  BY QuietKept DEF OnWire

LEMMA StartKept ==
  ASSUME Ground, Display, NEW c \in Clients, NEW ms, Start(c, ms)
  PROVE  Kept
  <1>1. /\ c \notin running /\ UNCHANGED <<wire, link>>
        /\ shown' = [shown EXCEPT ![c] = [m \in Messages |-> IF m \in ms THEN 1 ELSE 0]]
    BY DEF Start, network
  <1>2. \A k \in link : OwnerOf(k) # c
    BY <1>1 DEF Display, Started
  <1>3. \A d \in Clients : d # c => shown'[d] = shown[d]
    BY <1>1 DEF Ground, TypeOK
  <1>4. \A k \in link : OwnerOf(k) \in Clients
    BY OwnerIs DEF Ground, TypeOK
  <1>5. \A k \in link : shown'[OwnerOf(k)] = shown[OwnerOf(k)]
    BY <1>2, <1>3, <1>4
  <1>6. QED
    BY <1>1, <1>5 DEF Kept, Reaches, OnWire

LEMMA TakeKept ==
  ASSUME Ground, Display, NEW k \in Conns, WebReceive(k) \/ SdkReceive(k)
  PROVE  Kept
  <1> DEFINE c == OwnerOf(k)  f == Head(wire[k])
  <1>1. c \in Clients /\ wire[k] # <<>> /\ f \in Frame
    BY TakeShows DEF Ground
  <1>2. PICK times : Take(k, times) /\ Shows(c, f, times)
    BY TakeShows DEF Ground
  <1>3. Legal(f)
    <2>1. 1 \in DOMAIN wire[k] /\ wire[k][1] = f
      BY <1>1 DEF Ground, TypeOK
    <2>2. QED
      BY <2>1 DEF Display, Carried, Frames
  <1>4. /\ \A d \in Clients : shown'[d] = IF d = c THEN times ELSE shown[d]
        /\ wire' = [wire EXCEPT ![k] = Tail(@)] /\ UNCHANGED link
    BY <1>2 DEF Take, Ground, TypeOK
  <1>5. /\ \A o \in Conns, m \in Messages : o # k /\ OnWire(o, m) => OnWire(o, m)'
        /\ \A m \in Messages : OnWire(k, m) => m \in f.msgs \/ OnWire(k, m)'
    BY <1>1, <1>4, TailWire DEF Ground
  <1> HIDE DEF c, f
  <1>6. \A m \in f.msgs : times[m] > 0
    BY <1>1, <1>2, <1>3 DEF Shows, Legal, Frame
  <1>7. \A d \in Clients, m \in Messages : shown[d][m] > 0 => shown'[d][m] > 0
    BY <1>2, <1>4, ShownNat DEF Shows, Ground
  <1>8. ASSUME NEW o \in link, NEW m \in Messages, Reaches(o, m) PROVE Reaches(o, m)'
    <2>1. o \in Conns /\ OwnerOf(o) \in Clients
      BY OwnerIs DEF Ground, TypeOK
    <2>2. CASE shown[OwnerOf(o)][m] > 0
      BY <1>7, <2>1, <2>2 DEF Reaches
    <2>3. CASE OnWire(o, m)
      <3>1. CASE OnWire(o, m)'
        BY <3>1 DEF Reaches
      <3>2. CASE o = k /\ m \in f.msgs
        BY <1>1, <1>4, <1>6, <3>2 DEF Reaches, c
      <3>3. QED
        BY <1>5, <2>1, <2>3, <3>1, <3>2
    <2>4. QED
      BY <1>8, <2>2, <2>3 DEF Reaches
  <1>9. QED
    BY <1>8 DEF Kept

LEMMA HandlerKept ==
  ASSUME Ground, Display, NEW k \in Conns,
         \/ Drop(k) \/ WebReceive(k) \/ SdkReceive(k)
         \/ Refuse(k) \/ Admit(k) \/ Ping(k) \/ Join(k) \/ ReadReplay(k) \/ SendReplay(k)
         \/ Relay(k) \/ HandlerCastStep(k) \/ Disconnect(k) \/ MarkOffline(k) \/ Fail(k)
  PROVE  Kept
  <1>1. CASE WebReceive(k) \/ SdkReceive(k)
    BY <1>1, TakeKept
  <1>2. CASE Drop(k)
    <2>1. /\ link' = link \ {k} /\ wire' = [wire EXCEPT ![k] = <<>>] /\ UNCHANGED shown
      BY <1>2 DEF Drop, client
    <2>2. \A o \in link' : wire'[o] = wire[o]
      BY <2>1 DEF Ground, TypeOK
    <2>3. QED
      BY <2>1, <2>2, SameWire DEF Ground
  <1>3. CASE \/ Refuse(k) \/ Admit(k) \/ Ping(k) \/ Join(k) \/ ReadReplay(k) \/ Relay(k)
             \/ Disconnect(k) \/ MarkOffline(k) \/ Fail(k)
    <2>1. UNCHANGED <<wire, shown>>
      BY <1>3 DEF Refuse, Admit, Ping, Join, ReadReplay, Relay, Disconnect, MarkOffline, Fail,
                  network, client
    <2>2. QED
      BY <2>1, SameWire DEF Ground
  <1>4. CASE SendReplay(k)
    <2> DEFINE f == [kind |-> "replay", msgs |-> replay[k]]
    <2>1. wire' = wire \/ wire' = [wire EXCEPT ![k] = Append(@, f)]
      BY <1>4 DEF SendReplay
    <2>2. UNCHANGED <<link, shown>> /\ f \in Frame
      BY <1>4 DEF SendReplay, client, Ground, TypeOK, Frame
    <2> HIDE DEF f
    <2>3. CASE wire' = wire
      BY <2>2, <2>3, SameWire DEF Ground
    <2>4. CASE wire' = [wire EXCEPT ![k] = Append(@, f)]
      <3>1. \A o \in Conns, m \in Messages : OnWire(o, m) => OnWire(o, m)'
        BY <2>2, <2>4, AppendWire DEF Ground
      <3>2. link' \subseteq Conns
        BY <2>2 DEF Ground, TypeOK
      <3>3. QED
        BY <2>2, <3>1, <3>2, QuietKept DEF Ground
    <2>5. QED
      BY <2>1, <2>3, <2>4
  <1>5. CASE HandlerCastStep(k)
    <2>1. k \in Casts /\ k \notin Messages /\ cast[k] # None /\ CastStep(k, at[k])
      BY <1>5, CastsApart DEF HandlerCastStep
    <2>2. PICK o, dead : SendStep(k, at[k], o, dead)
      BY <2>1, CastStepIs DEF Ground
    <2>3. UNCHANGED <<wire, shown>>
      BY <1>5, <2>1, <2>2
      DEF HandlerCastStep, SendStep, Delivered, SendVanishes, SendFails, client
    <2>4. QED
      BY <2>3, SameWire DEF Ground
  <1>6. QED
    BY <1>1, <1>2, <1>3, <1>4, <1>5

\* A step of message m's broadcast removes a socket that got it or is lost.
LEMMA MessageCastIs ==
  ASSUME Ground, NEW m \in Messages, MessageCastStep(m)
  PROVE  \E k \in Conns :
           /\ k \in cast[m].todo
           /\ \A o \in cast[m].todo : o # k => cast'[m] # None /\ o \in cast'[m].todo
           /\ \A n \in Messages : n # m => cast'[n] = cast[n]
           /\ \/ wire' = [wire EXCEPT ![k] = Append(@, [kind |-> "event", msgs |-> {m}])]
              \/ wire' = wire /\ (k \notin link \/ pc[k] = "gone")
  <1>1. m \in Casts /\ cast[m] # None /\ CastStep(m, home[m])
    BY CastsApart DEF MessageCastStep
  <1>2. PICK k \in Conns, dead \in SUBSET Conns : SendStep(m, home[m], k, dead)
    BY <1>1, CastStepIs DEF Ground
  <1>3. /\ \A i \in Casts : i # m => cast'[i] = cast[i]
        /\ IF cast[m].todo = {k}
           THEN cast'[m] = None
           ELSE cast'[m] = [todo |-> cast[m].todo \ {k}, dead |-> dead]
    BY <1>1, <1>2, SendStepIs DEF Ground
  <1>4. [todo |-> cast[m].todo \ {k}, dead |-> dead] # None
    <2>1. cast[m] \in Cast
      BY <1>1, CastStepIs DEF Ground
    <2>2. [todo |-> cast[m].todo \ {k}, dead |-> dead] \in Cast
      BY <2>1 DEF Cast
    <2>3. QED
      BY <2>2, NoneAssumption
  <1>5. \A o \in cast[m].todo : o # k => cast'[m] # None /\ o \in cast'[m].todo
    BY <1>3, <1>4
  <1>6. \/ wire' = [wire EXCEPT ![k] = Append(@, [kind |-> "event", msgs |-> {m}])]
        \/ wire' = wire /\ (k \notin link \/ pc[k] = "gone")
    BY <1>2 DEF SendStep, Delivered, SendVanishes, SendFails
  <1>7. k \in cast[m].todo /\ \A n \in Messages : n # m => cast'[n] = cast[n]
    BY <1>2, <1>3, CastsApart DEF SendStep
  <1>8. QED
    BY <1>5, <1>6, <1>7

LEMMA MessageKept ==
  ASSUME Ground, Display, NEW m \in Messages,
         Store(m) \/ Stage(m) \/ BeginMessageCast(m) \/ MessageCastStep(m) \/ CommitRest(m)
  PROVE  Kept
  <1>1. UNCHANGED <<link, shown>>
    BY DEF Store, Stage, BeginMessageCast, MessageCastStep, CommitRest, network, client
  <1>2. CASE wire' = wire
    BY <1>1, <1>2, SameWire DEF Ground
  <1>3. CASE MessageCastStep(m)
    <2> DEFINE f == [kind |-> "event", msgs |-> {m}]
    <2>1. PICK k \in Conns : wire' = wire \/ wire' = [wire EXCEPT ![k] = Append(@, f)]
      BY <1>3, MessageCastIs
    <2>2. f \in Frame
      BY DEF Frame
    <2> HIDE DEF f
    <2>3. CASE wire' = [wire EXCEPT ![k] = Append(@, f)]
      <3>1. \A o \in Conns, n \in Messages : OnWire(o, n) => OnWire(o, n)'
        BY <2>2, <2>3, AppendWire DEF Ground
      <3>2. link' \subseteq Conns
        BY <1>1 DEF Ground, TypeOK
      <3>3. QED
        BY <1>1, <3>1, <3>2, QuietKept DEF Ground
    <2>4. QED
      BY <1>2, <2>1, <2>3
  <1>4. QED
    BY <1>2, <1>3 DEF Store, Stage, BeginMessageCast, CommitRest, network

LEMMA CrashKept ==
  ASSUME Ground, NEW w \in Workers, CrashWorker(w)
  PROVE  Kept
  <1>1. \A k \in link' : k \in Conns /\ wire'[k] = wire[k]
    BY DEF CrashWorker, Ground, TypeOK
  <1>2. UNCHANGED shown
    BY DEF CrashWorker, client
  <1>3. QED
    BY <1>1, <1>2, SameWire DEF Ground

-------------------------------------------------------------------------------
\* A message that the sync of connection k has to cover is displayed, on the
\* wire, or due: the replay or the broadcast still has it, or the replay was full.
Reading == {"replaying", "announcing", "live"}
Due(k, m) ==
  \/ pc[k] = "joining"
  \/ pc[k] = "replaying" /\ m \in replay[k]
  \/ m \notin began
  \/ cast[m] # None /\ k \in cast[m].todo
  \/ pc[k] \in Reading /\ Cardinality(replay[k]) >= ReplayLimit
Covers(k, m) ==
  /\ k \in link /\ pc[k] \in Synced /\ m \in Stored \ Rest
  /\ home[m] = at[k] /\ num[m] > asked[k]
Gap == \A k \in Conns, m \in Messages : Covers(k, m) => Reaches(k, m) \/ Due(k, m)

\* What a replay has to hold, below one of its messages.
Below(k, m, n) ==
  /\ k \in link /\ pc[k] \in Reading /\ m \in Stored /\ n \in replay[k]
  /\ asked[k] < num[m] /\ num[m] <= num[n]
Holes == \A k \in Conns, m, n \in Messages :
           Below(k, m, n) => Reaches(k, m) \/ (pc[k] = "replaying" /\ m \in replay[k])

\* Handler k does not move between its sync's steps.
Calm(k) ==
  k \in link' /\ pc'[k] \in Synced =>
    /\ k \in link /\ pc[k] \in Synced
    /\ at'[k] = at[k] /\ asked'[k] = asked[k] /\ replay'[k] = replay[k]
    /\ pc'[k] = "joining" <=> pc[k] = "joining"
    /\ pc'[k] = "replaying" <=> pc[k] = "replaying"

\* Message m's broadcast does not move, as far as handler k's worker sees.
CalmCast(k, m) ==
  home[m] = at[k] => cast'[m] = cast[m] /\ (m \in began' => m \in began)

\* The messages a step stores were not stored before, and have a new number.
Carry == Ground /\ GroundNext /\ Display /\ Kept

LEMMA CalmGap ==
  ASSUME Carry, Gap, NEW k \in Conns, NEW m \in Messages, Calm(k), CalmCast(k, m),
         Covers(k, m)'
  PROVE  Reaches(k, m)' \/ Due(k, m)'
  <1>1. /\ k \in link' /\ pc'[k] \in Synced /\ m \in Stored' /\ m \notin Rest
        /\ home'[m] = at'[k] /\ num'[m] > asked'[k]
    BY DEF Covers
  <1>2. /\ k \in link /\ pc[k] \in Synced
        /\ at'[k] = at[k] /\ asked'[k] = asked[k] /\ replay'[k] = replay[k]
        /\ pc'[k] = "joining" <=> pc[k] = "joining"
        /\ pc'[k] = "replaying" <=> pc[k] = "replaying"
    BY <1>1 DEF Calm
  <1>3. CASE m \notin Stored
    BY <1>1, <1>3 DEF Carry, GroundNext, Grows, Due
  <1>4. CASE m \in Stored
    <2>1. Sent(m) /\ num'[m] = num[m] /\ home'[m] = home[m]
      BY <1>4 DEF Stored, Sent, Carry, GroundNext, Grows
    <2>2. Covers(k, m)
      BY <1>1, <1>2, <1>4, <2>1 DEF Covers
    <2>3. Reaches(k, m) => Reaches(k, m)'
      BY <1>1, <1>2 DEF Carry, Kept
    <2>4. cast'[m] = cast[m] /\ (m \in began' => m \in began)
      BY <2>2 DEF Covers, CalmCast
    <2>5. Due(k, m) => Due(k, m)'
      BY <1>1, <1>2, <2>4 DEF Due, Reading, Synced
    <2>6. QED
      BY <2>2, <2>3, <2>5 DEF Gap
  <1>5. QED
    BY <1>3, <1>4

LEMMA CalmHoles ==
  ASSUME Carry, Holes, NEW k \in Conns, NEW m \in Messages, NEW n \in Messages, Calm(k),
         Below(k, m, n)'
  PROVE  Reaches(k, m)' \/ (pc'[k] = "replaying" /\ m \in replay'[k])
  <1>1. /\ k \in link' /\ pc'[k] \in Reading /\ m \in Stored' /\ n \in replay'[k]
        /\ asked'[k] < num'[m] /\ num'[m] <= num'[n]
    BY DEF Below
  <1>2. /\ k \in link /\ pc[k] \in Reading
        /\ asked'[k] = asked[k] /\ replay'[k] = replay[k]
        /\ pc'[k] = "replaying" <=> pc[k] = "replaying"
    BY <1>1 DEF Calm, Reading, Synced
  <1>3. n \in Stored
    BY <1>1, <1>2 DEF Carry, Display, Carried
  <1>4. num'[n] = num[n] /\ num[n] \in Nat
    BY <1>3 DEF Stored, Sent, Carry, GroundNext, Grows, Ground, TypeOK
  <1>5. m \in Stored
    <2>1. SUFFICES ASSUME m \notin Stored PROVE FALSE
      OBVIOUS
    <2>2. num[n] < num'[m] /\ num'[m] = NextNumber
      BY <1>1, <1>3, <2>1 DEF Carry, GroundNext, Grows
    <2>3. NextNumber \in Nat
      BY NextNumberIs DEF Carry, Ground
    <2>4. QED
      BY <1>1, <1>4, <2>2, <2>3
  <1>6. num'[m] = num[m]
    BY <1>5 DEF Stored, Sent, Carry, GroundNext, Grows
  <1>7. Below(k, m, n)
    BY <1>1, <1>2, <1>4, <1>5, <1>6 DEF Below
  <1>8. Reaches(k, m) => Reaches(k, m)'
    BY <1>1, <1>2 DEF Carry, Kept
  <1>9. QED
    BY <1>2, <1>7, <1>8 DEF Holes

Arrival == Gap /\ Holes

LEMMA AllCalm ==
  ASSUME Carry, Arrival, \A k \in Conns : Calm(k),
         \A k \in Conns, m \in Messages : CalmCast(k, m)
  PROVE  Arrival'
  BY CalmGap, CalmHoles DEF Arrival, Gap, Holes

\* All is calm but connection k's own sync.
LEMMA OthersCalm ==
  ASSUME Carry, Arrival, NEW k \in Conns, \A o \in Conns : o # k => Calm(o),
         \A o \in Conns, m \in Messages : CalmCast(o, m),
         \A m \in Messages : Covers(k, m)' => Reaches(k, m)' \/ Due(k, m)',
         \A m, n \in Messages : Below(k, m, n)' =>
           Reaches(k, m)' \/ (pc'[k] = "replaying" /\ m \in replay'[k])
  PROVE  Arrival'
  <1>1. Gap'
    BY CalmGap DEF Arrival, Gap
  <1>2. Holes'
    BY CalmHoles DEF Arrival, Holes
  <1>3. QED
    BY <1>1, <1>2 DEF Arrival

\* Steps of clients, and of handlers outside their sync.
LEMMA ClientCalm ==
  ASSUME Ground,
         \/ \E c \in Clients : \E ms : Start(c, ms)
         \/ \E c \in Clients, w \in Workers : Open(c, w)
         \/ \E k \in Conns : Drop(k) \/ \E times : Take(k, times)
  PROVE  (\A k \in Conns : Calm(k)) /\ \A k \in Conns, m \in Messages : CalmCast(k, m)
  <1>1. UNCHANGED <<began, cast>>
    BY DEF Start, Open, Drop, Take, hub
  <1>2. CASE UNCHANGED <<pc, at, asked, replay>> /\ link' \subseteq link
    BY <1>1, <1>2 DEF Calm, CalmCast
  <1>3. CASE \E c \in Clients, w \in Workers : Open(c, w)
    <2>1. PICK c \in Clients, w \in Workers : Open(c, w)
      BY <1>3
    <2> DEFINE o == <<c, opened[c] + 1>>
    <2>2. /\ link' = link \cup {o} /\ pc' = [pc EXCEPT ![o] = "open"]
          /\ at' = [at EXCEPT ![o] = w] /\ asked' = [asked EXCEPT ![o] = known[c]]
          /\ UNCHANGED replay
      BY <2>1 DEF Open
    <2> HIDE DEF o
    <2>3. ASSUME NEW k \in Conns PROVE Calm(k)
      BY <2>2 DEF Calm, Ground, TypeOK, Synced
    <2>4. QED
      BY <1>1, <2>3 DEF CalmCast
  <1>4. QED
    BY <1>2, <1>3 DEF Start, Drop, Take, handler, network

LEMMA HandlerCalm ==
  ASSUME Ground, NEW k \in Conns,
         \/ Refuse(k) \/ Admit(k) \/ Ping(k) \/ Join(k) \/ ReadReplay(k) \/ SendReplay(k)
         \/ Relay(k) \/ HandlerCastStep(k) \/ Disconnect(k) \/ MarkOffline(k) \/ Fail(k)
  PROVE  /\ \A o \in Conns : o # k => Calm(o)
         /\ \A o \in Conns, m \in Messages : CalmCast(o, m)
  <1>1. UNCHANGED <<began, at, link>>
    BY DEF Refuse, Admit, Ping, Join, ReadReplay, SendReplay, Relay, HandlerCastStep,
           Disconnect, MarkOffline, Fail, hub, handler, network
  <1>2. \A o \in Conns : o # k => pc'[o] = pc[o] /\ asked'[o] = asked[o] /\ replay'[o] = replay[o]
    BY DEF Refuse, Admit, Ping, Join, ReadReplay, SendReplay, Relay, HandlerCastStep,
           Disconnect, MarkOffline, Fail, Leave, handler, Ground, TypeOK
  <1>3. k \in Casts /\ k \notin Messages
    BY CastsApart
  <1>4. \A m \in Messages : cast'[m] = cast[m]
    <2>1. CASE HandlerCastStep(k)
      <3>1. PICK o, dead : SendStep(k, at[k], o, dead)
        BY <1>3, <2>1, CastStepIs DEF Ground, HandlerCastStep
      <3>2. QED
        BY <1>3, <3>1, SendStepIs, CastsApart DEF Ground
    <2>2. CASE SendReplay(k) \/ Relay(k) \/ MarkOffline(k)
      <3>1. \E ks : BeginCast(k, ks)
        BY <2>2 DEF SendReplay, Relay, MarkOffline
      <3>2. QED
        BY <1>3, <3>1, BeginCastKeeps, CastsApart
    <2>3. QED
      BY <2>1, <2>2
      DEF Refuse, Admit, Ping, Join, ReadReplay, Disconnect, Fail, hub
  <1>5. QED
    BY <1>1, <1>2, <1>4 DEF Calm, CalmCast

LEMMA HandlerArrival ==
  ASSUME Carry, Arrival, NEW k \in Conns,
         \/ Refuse(k) \/ Admit(k) \/ Ping(k) \/ Join(k) \/ ReadReplay(k) \/ SendReplay(k)
         \/ Relay(k) \/ HandlerCastStep(k) \/ Disconnect(k) \/ MarkOffline(k) \/ Fail(k)
  PROVE  Arrival'
  <1>1. /\ \A o \in Conns : o # k => Calm(o)
        /\ \A o \in Conns, m \in Messages : CalmCast(o, m)
    BY HandlerCalm DEF Carry
  <1>2. CASE Calm(k)
    BY <1>1, <1>2, AllCalm
  <1>3. CASE \/ Refuse(k) \/ Admit(k) \/ Ping(k) \/ Relay(k) \/ HandlerCastStep(k)
             \/ Disconnect(k) \/ MarkOffline(k) \/ Fail(k)
    <2>1. UNCHANGED <<at, link>>
      BY <1>3 DEF Refuse, Admit, Ping, Relay, HandlerCastStep, Disconnect, MarkOffline, Fail,
                  handler, network
    <2>2. \/ pc'[k] \notin Synced
          \/ /\ UNCHANGED <<asked, replay>>
             /\ pc'[k] = pc[k] \/ (pc[k] \in {"live", "announcing"} /\ pc'[k] \in {"live", "announcing"})
      BY <1>3 DEF Refuse, Admit, Ping, Relay, HandlerCastStep, Disconnect, MarkOffline, Fail,
                  Leave, handler, Ground, TypeOK, Carry, Synced
    <2>3. Calm(k)
      BY <2>1, <2>2 DEF Calm, Synced
    <2>4. QED
      BY <1>2, <2>3
  <1>4. CASE Join(k)
    <2>1. pc'[k] = "joining"
      BY <1>4 DEF Join, Carry, Ground, TypeOK
    <2>2. \A m \in Messages : Covers(k, m)' => Due(k, m)'
      BY <2>1 DEF Due
    <2>3. \A m, n \in Messages : ~Below(k, m, n)'
      BY <2>1 DEF Below, Reading
    <2>4. QED
      BY <1>1, <2>2, <2>3, OthersCalm
  <1>5. CASE ReadReplay(k)
    <2> DEFINE H == HistoryAfter(asked[k], ReplayLimit)
    <2>1. /\ pc'[k] = "replaying" /\ replay'[k] = H
          /\ UNCHANGED <<phase, num, home, at, asked, link>> /\ asked[k] \in Nat
      BY <1>5 DEF ReadReplay, Carry, Ground, TypeOK, database, network
    <2>2. Stored' = Stored
      BY <2>1 DEF Stored
    <2>3. ASSUME NEW m \in Messages, Covers(k, m)' PROVE Due(k, m)'
      <3>1. m \in Stored /\ num[m] > asked[k]
        BY <2>1, <2>2, <2>3 DEF Covers
      <3>2. m \in H \/ Cardinality(H) >= ReplayLimit
        BY <2>1, <3>1, ReplayWhole DEF Carry, Ground
      <3>3. QED
        BY <2>1, <3>2 DEF Due, Reading
    <2>4. ASSUME NEW m \in Messages, NEW n \in Messages, Below(k, m, n)'
          PROVE  m \in replay'[k]
      <3>1. m \in Stored /\ n \in H /\ asked[k] < num[m] /\ num[m] <= num[n]
        BY <2>1, <2>2, <2>4 DEF Below
      <3>2. QED
        BY <2>1, <3>1, ReplayDown DEF Carry, Ground
    <2>5. QED
      BY <1>1, <2>1, <2>3, <2>4, OthersCalm
  <1>6. CASE SendReplay(k)
    <2> DEFINE f == [kind |-> "replay", msgs |-> replay[k]]
    <2>1. /\ pc[k] = "replaying" /\ pc'[k] \in {"announcing", "live"}
          /\ UNCHANGED <<phase, num, home, began, at, asked, replay, link>>
          /\ k \in link => wire' = [wire EXCEPT ![k] = Append(@, f)]
      BY <1>6 DEF SendReplay, AfterCast, Carry, Ground, TypeOK, database
    <2>2. f \in Frame /\ f.msgs = replay[k]
      BY DEF Carry, Ground, TypeOK, Frame
    <2> HIDE DEF f
    <2>3. k \in link => \A m \in replay[k] : Reaches(k, m)'
      BY <2>1, <2>2, AppendWire DEF Reaches, Carry, Ground
    <2>4. Stored' = Stored
      BY <2>1 DEF Stored
    <2>5. ASSUME NEW m \in Messages, Covers(k, m)' PROVE Reaches(k, m)' \/ Due(k, m)'
      <3>1. Covers(k, m) /\ k \in link
        BY <2>1, <2>4, <2>5 DEF Covers, Synced
      <3>2. Reaches(k, m) => Reaches(k, m)'
        BY <2>1, <3>1 DEF Carry, Kept
      <3>3. CASE Due(k, m)
        <4>1. cast'[m] = cast[m]
          BY <1>1, <3>1 DEF CalmCast, Covers
        <4>2. QED
          BY <2>1, <2>3, <3>1, <3>3, <4>1 DEF Due, Reading
      <3>4. QED
        BY <3>1, <3>2, <3>3 DEF Arrival, Gap
    <2>6. ASSUME NEW m \in Messages, NEW n \in Messages, Below(k, m, n)'
          PROVE  Reaches(k, m)'
      <3>1. Below(k, m, n) /\ k \in link
        BY <2>1, <2>4, <2>6 DEF Below, Reading
      <3>2. Reaches(k, m) => Reaches(k, m)'
        BY <2>1, <3>1 DEF Carry, Kept
      <3>3. QED
        BY <2>3, <3>1, <3>2 DEF Arrival, Holes
    <2>7. QED
      BY <1>1, <2>5, <2>6, OthersCalm
  <1>7. QED
    BY <1>3, <1>4, <1>5, <1>6

\* Steps of a message leave the handlers alone.
LEMMA MessageArrival ==
  ASSUME Carry, Arrival, NEW m \in Messages,
         Store(m) \/ Stage(m) \/ BeginMessageCast(m) \/ MessageCastStep(m) \/ CommitRest(m)
  PROVE  Arrival'
  <1>1. UNCHANGED <<pc, at, asked, replay, link>>
    BY DEF Store, Stage, BeginMessageCast, MessageCastStep, CommitRest, handler, network
  <1>2. \A k \in Conns : Calm(k)
    BY <1>1 DEF Calm
  <1>3. CASE Store(m) \/ Stage(m) \/ CommitRest(m)
    <2>1. \A k \in Conns, n \in Messages : CalmCast(k, n)
      BY <1>3 DEF Store, Stage, CommitRest, CalmCast, hub
    <2>2. QED
      BY <1>2, <2>1, AllCalm
  <1>4. Holes'
    BY <1>2, CalmHoles DEF Arrival, Holes
  <1>5. CASE BeginMessageCast(m)
    <2>1. /\ began' = began \cup {m} /\ BeginCast(m, registered[home[m]])
          /\ UNCHANGED <<phase, num, home>> /\ m \in Casts
      BY <1>5, CastsApart DEF BeginMessageCast, database
    <2>2. \A n \in Messages : n # m => cast'[n] = cast[n]
      BY <2>1, BeginCastKeeps, CastsApart
    <2>3. ASSUME NEW k \in Conns, NEW n \in Messages, Covers(k, n)'
          PROVE  Reaches(k, n)' \/ Due(k, n)'
      <3>1. CASE n # m
        BY <1>2, <2>1, <2>2, <2>3, <3>1, CalmGap DEF CalmCast, Arrival
      <3>2. CASE n = m
        <4>1. k \in link /\ pc[k] \in Synced /\ home[m] = at[k]
          BY <1>1, <2>1, <2>3, <3>2 DEF Covers
        <4>2. k \in registered[home[m]]
          BY <4>1 DEF Carry, Ground, Rooms, RoomsExact
        <4>3. cast'[m] = [todo |-> registered[home[m]], dead |-> {}]
          BY <2>1, <4>2 DEF BeginCast, Carry, Ground, TypeOK
        <4>4. cast'[m] # None
          <5>1. at[k] \in Workers
            BY <4>1 DEF Carry, Ground, Rooms, Handlers, Synced
          <5>2. registered[home[m]] \in SUBSET Conns
            BY <4>1, <5>1 DEF Carry, Ground, TypeOK
          <5>3. cast'[m] \in Cast
            BY <4>3, <5>2 DEF Cast
          <5>4. QED
            BY <5>3, NoneAssumption
        <4>5. QED
          BY <3>2, <4>2, <4>3, <4>4 DEF Due
      <3>3. QED
        BY <3>1, <3>2
    <2>4. QED
      BY <1>4, <2>3 DEF Arrival, Gap
  <1>6. CASE MessageCastStep(m)
    <2>1. PICK o \in Conns :
           /\ o \in cast[m].todo
           /\ \A i \in cast[m].todo : i # o => cast'[m] # None /\ i \in cast'[m].todo
           /\ \A n \in Messages : n # m => cast'[n] = cast[n]
           /\ \/ wire' = [wire EXCEPT ![o] = Append(@, [kind |-> "event", msgs |-> {m}])]
              \/ wire' = wire /\ (o \notin link \/ pc[o] = "gone")
      BY <1>6, MessageCastIs DEF Carry
    <2>2. UNCHANGED <<phase, num, home, began>> /\ cast[m] # None
      BY <1>6 DEF MessageCastStep, database
    <2>3. ASSUME NEW k \in Conns, NEW n \in Messages, Covers(k, n)'
          PROVE  Reaches(k, n)' \/ Due(k, n)'
      <3>1. CASE n # m
        BY <1>2, <2>1, <2>2, <2>3, <3>1, CalmGap DEF CalmCast, Arrival
      <3>2. CASE n = m
        <4>1. Covers(k, m) /\ k \in link /\ pc[k] \in Synced
          BY <1>1, <2>2, <2>3, <3>2 DEF Covers, Stored
        <4>2. Reaches(k, m) => Reaches(k, m)'
          BY <1>1, <4>1 DEF Carry, Kept
        <4>3. CASE k = o
          <5>1. wire' = [wire EXCEPT ![k] = Append(@, [kind |-> "event", msgs |-> {m}])]
            BY <2>1, <4>1, <4>3 DEF Synced
          <5>2. [kind |-> "event", msgs |-> {m}] \in Frame
            BY EventFrame
          <5>3. OnWire(k, m)'
            BY <5>1, <5>2, AppendWire DEF Carry, Ground
          <5>4. QED
            BY <3>2, <5>3 DEF Reaches
        <4>4. CASE k # o
          <5>1. Due(k, m) => Due(k, m)'
            BY <1>1, <2>1, <2>2, <4>4 DEF Due
          <5>2. QED
            BY <3>2, <4>1, <4>2, <5>1 DEF Arrival, Gap
        <4>5. QED
          BY <4>3, <4>4
      <3>3. QED
        BY <3>1, <3>2
    <2>4. QED
      BY <1>4, <2>3 DEF Arrival, Gap
  <1>7. QED
    BY <1>3, <1>5, <1>6

LEMMA CrashArrival ==
  ASSUME Carry, Arrival, NEW w \in Workers, CrashWorker(w)
  PROVE  Arrival'
  <1>1. /\ link' = {k \in link : at[k] # w} /\ UNCHANGED at
        /\ \A k \in Conns : at[k] # w =>
             pc'[k] = pc[k] /\ asked'[k] = asked[k] /\ replay'[k] = replay[k]
    BY DEF CrashWorker
  <1>2. \A k \in Conns : Calm(k)
    BY <1>1 DEF Calm
  <1>3. /\ began' = began \cup {m \in Messages : home[m] = w}
        /\ \A m \in Messages : home[m] # w => cast'[m] = cast[m]
    BY CastsApart DEF CrashWorker
  <1>4. \A k \in Conns, m \in Messages : at[k] # w => CalmCast(k, m)
    BY <1>3 DEF CalmCast
  <1>5. \A k \in Conns, m \in Messages : Covers(k, m)' => at[k] # w
    BY <1>1 DEF Covers
  <1>6. Gap'
    BY <1>2, <1>4, <1>5, CalmGap DEF Arrival, Gap
  <1>7. Holes'
    BY <1>2, CalmHoles DEF Arrival, Holes
  <1>8. QED
    BY <1>6, <1>7 DEF Arrival

-------------------------------------------------------------------------------
\* The inductive invariant.
IInv == Ground /\ Display /\ Arrival

LEMMA IInvInit == Init => IInv
  <1> SUFFICES ASSUME Init PROVE IInv
    OBVIOUS
  <1>1. Ground
    BY GroundInit
  <1>2. Carried
    BY DEF Init, Carried, Frames
  <1>3. Started /\ WebShowsOnce
    BY DEF Init, Started, WebShowsOnce
  <1>4. CursorWithinLog
    <2>1. NextNumber \in Nat /\ NextNumber > 0 /\ \A c \in Clients : known[c] = 0
      BY <1>1, NextNumberIs DEF Init, Ground
    <2>2. QED
      BY <2>1 DEF CursorWithinLog
  <1>5. Arrival
    BY DEF Init, Arrival, Gap, Covers, Holes, Below
  <1>6. QED
    BY <1>1, <1>2, <1>3, <1>4, <1>5 DEF IInv, Display

LEMMA IInvStutter ==
  ASSUME IInv, UNCHANGED vars
  PROVE  IInv'
  <1>1. /\ UNCHANGED <<phase, num, home, began, cast, registered, pc, at, asked, replay, link>>
        /\ UNCHANGED <<wire, web, opened, running, shown, known, presence>>
    BY DEF vars, database, hub, handler, network, client
  <1>2. Ground'
    BY GroundStep DEF IInv
  <1>3. Stored' = Stored
    BY <1>1 DEF Stored
  <1>4. NextNumber' = NextNumber
    BY <1>1, <1>3 DEF NextNumber, Highest
  <1>5. Carried' /\ Started' /\ WebShowsOnce'
    BY <1>1, <1>3 DEF IInv, Display, Carried, Frames, Legal, Sent, Started, WebShowsOnce
  <1>6. CursorWithinLog'
    BY <1>1, <1>3, <1>4 DEF IInv, Display, CursorWithinLog
  <1>7. Arrival'
    BY <1>1, <1>3 DEF IInv, Arrival, Gap, Covers, Reaches, OnWire, Due, Holes, Below
  <1>8. QED
    BY <1>2, <1>5, <1>6, <1>7 DEF IInv, Display

LEMMA IInvStep ==
  ASSUME IInv, [Next]_vars
  PROVE  IInv'
  <1> USE DEF IInv
  <1>1. CASE UNCHANGED vars
    BY <1>1, IInvStutter
  <1>2. CASE \E c \in Clients : WebStart(c) \/ CliStart(c)
    <2>1. PICK c \in Clients, ms \in SUBSET Stored : Start(c, ms)
      BY <1>2, StartsAre
    <2>2. GroundNext
      <3>1. TypeOK' /\ Rooms'
        BY <2>1, StartType, QuietRooms DEF Ground, Stored
      <3>2. QED
        BY <2>1, <3>1, SameLog DEF Start
    <2>3. Display' /\ Kept
      BY <2>1, <2>2, StartDisplay, StartKept DEF GroundNext
    <2>4. Arrival'
      BY <2>1, <2>2, <2>3, ClientCalm, AllCalm DEF Carry
    <2>5. QED
      BY <2>2, <2>3, <2>4 DEF GroundNext
  <1>3. CASE \E c \in Clients : WebConnect(c) \/ SdkConnect(c)
    <2>1. PICK c \in Clients, w \in Workers : Open(c, w)
      BY <1>3, OpensAre
    <2>2. GroundNext
      <3>1. TypeOK' /\ Rooms'
        BY <2>1, OpenType, OpenRooms DEF Ground
      <3>2. QED
        BY <2>1, <3>1, SameLog DEF Open
    <2>3. Display'
      BY <2>1, <2>2, OpenDisplay DEF GroundNext
    <2>4. Kept
      BY <2>1 DEF Open, Kept, Reaches, OnWire
    <2>5. Arrival'
      BY <2>1, <2>2, <2>4, ClientCalm, AllCalm DEF Carry
    <2>6. QED
      BY <2>2, <2>3, <2>5 DEF GroundNext
  <1>4. CASE \E k \in Conns : Drop(k) \/ WebReceive(k) \/ SdkReceive(k)
    <2>1. PICK k \in Conns : Drop(k) \/ WebReceive(k) \/ SdkReceive(k)
      BY <1>4
    <2>2. GroundNext
      BY <2>1, HandlerGround
    <2>3. Display' /\ Kept
      BY <2>1, <2>2, HandlerDisplay, HandlerKept DEF GroundNext
    <2>4. Drop(k) \/ \E times : Take(k, times)
      BY <2>1, TakeShows DEF Ground
    <2>5. Arrival'
      BY <2>2, <2>3, <2>4, ClientCalm, AllCalm DEF Carry
    <2>6. QED
      BY <2>2, <2>3, <2>5 DEF GroundNext
  <1>5. CASE \E k \in Conns :
               \/ Refuse(k) \/ Admit(k) \/ Ping(k) \/ Join(k) \/ ReadReplay(k) \/ SendReplay(k)
               \/ Relay(k) \/ HandlerCastStep(k) \/ Disconnect(k) \/ MarkOffline(k) \/ Fail(k)
    <2>1. PICK k \in Conns :
               \/ Refuse(k) \/ Admit(k) \/ Ping(k) \/ Join(k) \/ ReadReplay(k) \/ SendReplay(k)
               \/ Relay(k) \/ HandlerCastStep(k) \/ Disconnect(k) \/ MarkOffline(k) \/ Fail(k)
      BY <1>5
    <2>2. GroundNext
      BY <2>1, HandlerGround
    <2>3. Display' /\ Kept
      BY <2>1, <2>2, HandlerDisplay, HandlerKept DEF GroundNext
    <2>4. Arrival'
      BY <2>1, <2>2, <2>3, HandlerArrival DEF Carry
    <2>5. QED
      BY <2>2, <2>3, <2>4 DEF GroundNext
  <1>6. CASE \E m \in Messages : \/ Store(m) \/ Stage(m) \/ BeginMessageCast(m)
                                 \/ MessageCastStep(m) \/ CommitRest(m)
    <2>1. PICK m \in Messages : \/ Store(m) \/ Stage(m) \/ BeginMessageCast(m)
                                \/ MessageCastStep(m) \/ CommitRest(m)
      BY <1>6
    <2>2. GroundNext
      BY <2>1, MessageGround
    <2>3. Display' /\ Kept
      BY <2>1, <2>2, MessageDisplay, MessageKept DEF GroundNext
    <2>4. Arrival'
      BY <2>1, <2>2, <2>3, MessageArrival DEF Carry
    <2>5. QED
      BY <2>2, <2>3, <2>4 DEF GroundNext
  <1>7. CASE \E w \in Workers : CrashWorker(w)
    <2>1. PICK w \in Workers : CrashWorker(w)
      BY <1>7
    <2>2. GroundNext
      BY <2>1, CrashGround
    <2>3. Display' /\ Kept
      BY <2>1, <2>2, CrashDisplay, CrashKept DEF GroundNext
    <2>4. Arrival'
      BY <2>1, <2>2, <2>3, CrashArrival DEF Carry
    <2>5. QED
      BY <2>2, <2>3, <2>4 DEF GroundNext
  <1>8. QED
    BY <1>1, <1>2, <1>3, <1>4, <1>5, <1>6, <1>7 DEF Next

\* IInv holds in every state.
THEOREM Invariance == Spec => []IInv
  <1>1. Init => IInv
    BY IInvInit
  <1>2. IInv /\ [Next]_vars => IInv'
    BY IInvStep
  <1>3. QED
    BY <1>1, <1>2, PTL DEF Spec

\* Every variable of the hub keeps its type.
THEOREM TypeCorrect == Spec => []TypeOK
  <1>1. IInv => TypeOK
    BY DEF IInv, Ground
  <1>2. QED
    BY <1>1, Invariance, PTL

\* A worker's room holds running handlers of its own only, and every synced
\* handler whose client is still there is in it: websocket_endpoint,
\* register, unregister and broadcast_to_room.
THEOREM RoomsExactAlways == Spec => []RoomsExact
  <1>1. IInv => RoomsExact
    BY DEF IInv, Ground, Rooms
  <1>2. QED
    BY <1>1, Invariance, PTL

\* A page never shows a message of somebody else twice: onMessage and onReplay.
THEOREM WebShowsOnceAlways == Spec => []WebShowsOnce
  <1>1. IInv => WebShowsOnce
    BY DEF IInv, Display
  <1>2. QED
    BY <1>1, Invariance, PTL

\* A client's cursor, lastKnownSequence, passes the log by one at most, and only
\* for an uncommitted REST message that the client shows.
THEOREM CursorWithinLogAlways == Spec => []CursorWithinLog
  <1>1. IInv => CursorWithinLog
    BY DEF IInv, Display
  <1>2. QED
    BY <1>1, Invariance, PTL

\* A client whose sync was answered with a replay that was not full misses no
\* message that was committed and broadcast in its own worker: the socket is
\* registered before the history is read.
THEOREM NoGap == Spec => []NoGapWhileJoined
  <1>1. IInv => NoGapWhileJoined
    <2>1. SUFFICES ASSUME IInv, NEW k \in Conns, NEW m \in Stored \ Rest,
                          Joined(k), home[m] = at[k], num[m] > asked[k],
                          Cardinality(replay[k]) < ReplayLimit
                   PROVE  shown[OwnerOf(k)][m] > 0 \/ InFlight(k, m)
      BY DEF NoGapWhileJoined
    <2>2. m \in Messages /\ Covers(k, m) /\ pc[k] \in {"announcing", "live"}
      BY <2>1 DEF Joined, Covers, Synced, Stored
    <2>3. Reaches(k, m) \/ Due(k, m)
      BY <2>1, <2>2 DEF IInv, Arrival, Gap
    <2>4. ~(Cardinality(replay[k]) >= ReplayLimit)
      <3>1. replay[k] \subseteq Stored
        BY <2>1 DEF IInv, Display, Carried
      <3>2. Cardinality(replay[k]) \in Nat
        BY <3>1, StoredFinite, FS_Subset, FS_CardinalityType
      <3>3. QED
        BY <2>1, <3>2, BoundsAssumption
    <2>5. QED
      BY <2>1, <2>2, <2>3, <2>4 DEF Reaches, Due, InFlight
  <1>2. QED
    BY <1>1, Invariance, PTL

\* A replay has no holes, whichever worker or entry its messages came by, and
\* none appears later: get_history and the numbers of send_message.
THEOREM NoHoles == Spec => []ReplayHasNoHoles
  <1>1. IInv => ReplayHasNoHoles
    <2>1. SUFFICES ASSUME IInv, NEW k \in Conns, NEW m \in Stored, NEW n \in replay[k],
                          Joined(k), asked[k] < num[m], num[m] <= num[n]
                   PROVE  shown[OwnerOf(k)][m] > 0 \/ OnWire(k, m)
      BY DEF ReplayHasNoHoles
    <2>2. m \in Messages /\ n \in Messages
      BY <2>1 DEF IInv, Ground, TypeOK, Stored
    <2>3. Below(k, m, n) /\ pc[k] # "replaying"
      BY <2>1 DEF Below, Joined, Reading
    <2>4. QED
      BY <2>1, <2>2, <2>3 DEF IInv, Arrival, Holes, Reaches
  <1>2. QED
    BY <1>1, Invariance, PTL

-------------------------------------------------------------------------------
\* The last number of the feed is the highest number of the log.
LEMMA LastOfFeed ==
  Service!Last("the conversation") + 1 = NextNumber
  <1>1. Service!Numbers("the conversation") = {num[m] : m \in Stored}
    BY DEF Service!Numbers, Stored
  <1>2. Service!Last("the conversation") = Highest({num[m] : m \in Stored})
    BY <1>1 DEF Service!Last, Highest
  <1>3. QED
    BY <1>2 DEF NextNumber

\* Store and Stage: a message enters the conversation.
LEMMA EntersFeed ==
  ASSUME TypeOK, NEW m \in Messages, Store(m) \/ Stage(m)
  PROVE  Service!Enter(m, "the conversation")
  <1>1. /\ phase[m] = "unsent" /\ Staged = {}
        /\ num' = [num EXCEPT ![m] = NextNumber]
        /\ \E p \in {"staged", "stored"} : phase' = [phase EXCEPT ![m] = p]
    BY DEF Store, Stage
  <1>2. \A n \in Messages : phase[n] # "staged"
    BY <1>1 DEF Staged
  <1>3. num' = [num EXCEPT ![m] = Service!Last("the conversation") + 1]
    BY <1>1, LastOfFeed
  <1>4. [n \in Messages |-> IF phase'[n] = "unsent" THEN None ELSE "the conversation"] =
        [[n \in Messages |-> IF phase[n] = "unsent" THEN None ELSE "the conversation"]
           EXCEPT ![m] = "the conversation"]
    BY <1>1 DEF TypeOK
  <1>5. QED
    BY <1>1, <1>2, <1>3, <1>4 DEF Service!Enter

\* get_db's COMMIT stores the message or aborts it.
LEMMA CommitsFeed ==
  ASSUME TypeOK, NEW m \in Messages, CommitRest(m)
  PROVE  Service!Store(m) \/ Service!Abort({m})
  <1>1. PICK p \in {"stored", "aborted"} : phase' = [phase EXCEPT ![m] = p]
    BY DEF CommitRest
  <1>2. phase[m] = "staged" /\ num' = num
    BY DEF CommitRest
  <1>3. [n \in Messages |-> IF phase'[n] = "unsent" THEN None ELSE "the conversation"] =
        [n \in Messages |-> IF phase[n] = "unsent" THEN None ELSE "the conversation"]
    BY <1>1, <1>2 DEF TypeOK
  <1>4. CASE p = "stored"
    BY <1>1, <1>2, <1>3, <1>4 DEF Service!Store
  <1>5. CASE p = "aborted"
    <2>1. phase' = [n \in Messages |-> IF n \in {m} THEN "aborted" ELSE phase[n]]
      BY <1>1, <1>5 DEF TypeOK
    <2>2. QED
      BY <1>2, <1>3, <2>1 DEF Service!Abort
  <1>6. QED
    BY <1>4, <1>5

\* A dead worker's uncommitted messages are aborted.
LEMMA CrashAborts ==
  ASSUME TypeOK, NEW w \in Workers, CrashWorker(w)
  PROVE  \E ms \in SUBSET Messages : Service!Abort(ms)
  <1> DEFINE ms == {m \in Messages : home[m] = w /\ phase[m] = "staged"}
  <1>1. /\ phase' = [m \in Messages |-> IF m \in ms THEN "aborted" ELSE phase[m]]
        /\ num' = num
    BY DEF CrashWorker
  <1>2. [n \in Messages |-> IF phase'[n] = "unsent" THEN None ELSE "the conversation"] =
        [n \in Messages |-> IF phase[n] = "unsent" THEN None ELSE "the conversation"]
    BY <1>1
  <1>3. Service!Abort(ms)
    BY <1>1, <1>2 DEF Service!Abort
  <1>4. QED
    BY <1>3

LEMMA FeedStep ==
  ASSUME TypeOK, [Next]_vars
  PROVE  [Service!Next]_(Service!vars)
  <1>1. CASE phase' = phase /\ num' = num
    BY <1>1 DEF Service!vars
  <1>2. ASSUME NEW m \in Messages, Store(m) \/ Stage(m)  PROVE Service!Next
    BY <1>2, EntersFeed DEF Service!Next
  <1>3. ASSUME NEW m \in Messages, CommitRest(m)  PROVE Service!Next
    <2>1. Service!Store(m) \/ Service!Abort({m})
      BY <1>3, CommitsFeed
    <2>2. {m} \in SUBSET Messages
      OBVIOUS
    <2>3. QED
      BY <2>1, <2>2 DEF Service!Next
  <1>4. ASSUME NEW w \in Workers, CrashWorker(w)  PROVE Service!Next
    BY <1>4, CrashAborts DEF Service!Next
  <1>5. ASSUME NEW c \in Clients,
               WebStart(c) \/ CliStart(c) \/ WebConnect(c) \/ SdkConnect(c)
        PROVE  phase' = phase /\ num' = num
    BY <1>5 DEF WebStart, CliStart, WebConnect, SdkConnect, Start, Open, database
  <1>6. ASSUME NEW k \in Conns, Drop(k) \/ WebReceive(k) \/ SdkReceive(k)
        PROVE  phase' = phase /\ num' = num
    BY <1>6 DEF Drop, WebReceive, SdkReceive, Take, database
  <1>7. ASSUME NEW k \in Conns,
               \/ Refuse(k) \/ Admit(k) \/ Ping(k) \/ Join(k) \/ ReadReplay(k)
               \/ SendReplay(k) \/ Relay(k) \/ HandlerCastStep(k) \/ Disconnect(k)
               \/ MarkOffline(k) \/ Fail(k)
        PROVE  phase' = phase /\ num' = num
    BY <1>7 DEF Refuse, Admit, Ping, Join, ReadReplay, SendReplay, Relay, HandlerCastStep,
                Disconnect, MarkOffline, Fail, database
  <1>8. ASSUME NEW m \in Messages, BeginMessageCast(m) \/ MessageCastStep(m)
        PROVE  phase' = phase /\ num' = num
    BY <1>8 DEF BeginMessageCast, MessageCastStep, database
  <1>9. ASSUME UNCHANGED vars  PROVE phase' = phase /\ num' = num
    BY <1>9 DEF vars, database
  <1>10. QED
    BY <1>1, <1>2, <1>3, <1>4, <1>5, <1>6, <1>7, <1>8, <1>9 DEF Next

LEMMA FeedInit == Init => Service!Init
  BY DEF Init, Service!Init

\* The hub's messages live as the message service lets them: what REST
\* broadcasts is the next message of the log or is never stored.
THEOREM HubFollowsFeed == Spec => FollowsFeed
  <1>1. IInv /\ [Next]_vars => [Service!Next]_(Service!vars)
    BY FeedStep DEF IInv, Ground
  <1>2. QED
    BY <1>1, FeedInit, Invariance, PTL DEF Spec, FollowsFeed, Service!Spec

===============================================================================
