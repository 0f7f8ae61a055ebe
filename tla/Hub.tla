--------------------------------- MODULE Hub ----------------------------------
(***************************************************************************)
(* The WebSocket hub of one conversation: the connection handler           *)
(* (websocket_endpoint), the worker's ConnectionManager, the broadcasts    *)
(* that send_message's callers start, and the two clients, the web page    *)
(* and the terminal client on the Python SDK.  A handler awaits between    *)
(* its steps.  Every worker process has a ConnectionManager of its own:    *)
(* workers share the database and nothing else.                            *)
(*                                                                         *)
(* Of the message service the hub sees what Feed says: a message gets the  *)
(* next sequence number, and only one is known and uncommitted, a REST     *)
(* message, which is broadcast before its COMMIT.                          *)
(***************************************************************************)
EXTENDS Naturals, Sequences, FiniteSets

CONSTANTS
  Clients,      \* running chat applications, each displaying the conversation
  UserOf,       \* UserOf[c]: the user logged in on client c
  MaxConns,     \* bound: WebSockets one client opens in its life
  Workers,      \* uvicorn worker processes
  Messages,     \* messages somebody else may send to these clients
  Rest,         \* those sent through REST; the others: WebSocket or webhook
  ReplayLimit,  \* messages one replay carries (100)
  HistoryLimit, \* messages a client preloads through REST (50 web, 30 terminal)
  None          \* "no connection", "no worker", "no broadcast"

ASSUME UsersAssumption == UserOf \in [Clients -> Clients]
ASSUME BoundsAssumption == {MaxConns, ReplayLimit, HistoryLimit} \subseteq Nat
ASSUME MessagesAssumption == Rest \subseteq Messages /\ IsFiniteSet(Messages)

Conns == Clients \X (1..MaxConns)
Cast == [todo : SUBSET Conns, dead : SUBSET Conns]
ASSUME NoneAssumption ==
  None \notin Workers \cup Conns /\ None \notin Cast /\ Messages \cap Conns = {}

\* A broadcast is named by its message, or by the connection whose handler
\* announces presence, typing or a read position: a handler does one at a time.
Casts == Messages \cup Conns
OwnerOf(k) == k[1]

VARIABLES
  phase,      \* phase[m]: unsent, staged (flushed), stored (committed), aborted
  num,        \* num[m]: the sequence number of m, 0 before it has one
  home,       \* home[m]: the worker that serves the call that sends m
  began,      \* the messages whose broadcast has begun, or died with its worker
  cast,       \* cast[j]: sockets broadcast j has still to reach, and failed ones
  registered, \* registered[w]: sockets in worker w's active_rooms and metadata
  pc,         \* pc[k]: the step connection k's handler awaits next
  at,         \* at[k]: the worker that serves connection k
  asked,      \* asked[k]: last_sequence of the sync frame sent on connection k
  replay,     \* replay[k]: the messages the sync of k read from the database
  link,       \* the connections whose client end is open
  wire,       \* wire[k]: frames on their way to the client, in order
  web,        \* the clients that are web pages; the others are terminals
  opened,     \* opened[c]: connections client c has opened
  running,    \* the clients that have preloaded their history and started
  shown,      \* shown[c][m]: times client c displays message m
  known,      \* known[c]: lastKnownSequence
  presence    \* presence[u]: the status in user u's row of user_presence

database == <<phase, num, home>>
hub == <<began, cast, registered>>
handler == <<pc, at, asked, replay>>
network == <<link, wire>>
client == <<web, opened, running, shown, known>>
vars == <<database, hub, handler, network, client, presence>>

Frame == [kind : {"event", "replay"}, msgs : SUBSET Messages]

\* The handler runs inside its try block in these steps.
Guarded == {"ready", "joining", "replaying", "announcing", "live"}
Synced == {"joining", "replaying", "announcing", "live"}

TypeOK ==
  /\ phase \in [Messages -> {"unsent", "staged", "stored", "aborted"}]
  /\ num \in [Messages -> Nat]
  /\ home \in [Messages -> Workers \cup {None}]
  /\ began \subseteq Messages
  /\ cast \in [Casts -> Cast \cup {None}]
  /\ registered \in [Workers -> SUBSET Conns]
  /\ pc \in [Conns -> {"free", "open", "offline", "gone"} \cup Guarded]
  /\ at \in [Conns -> Workers \cup {None}]
  /\ asked \in [Conns -> Nat]
  /\ replay \in [Conns -> SUBSET Messages]
  /\ link \subseteq Conns
  /\ wire \in [Conns -> Seq(Frame)]
  /\ web \subseteq Clients
  /\ opened \in [Clients -> 0..MaxConns]
  /\ running \subseteq Clients
  /\ shown \in [Clients -> [Messages -> Nat]]
  /\ known \in [Clients -> Nat]
  /\ presence \in [Clients -> {"none", "online", "offline"}]

Init ==
  /\ phase = [m \in Messages |-> "unsent"]
  /\ num = [m \in Messages |-> 0]
  /\ home = [m \in Messages |-> None]
  /\ began = {}
  /\ cast = [j \in Casts |-> None]
  /\ registered = [w \in Workers |-> {}]
  /\ pc = [k \in Conns |-> "free"]
  /\ at = [k \in Conns |-> None]
  /\ asked = [k \in Conns |-> 0]
  /\ replay = [k \in Conns |-> {}]
  /\ link = {}
  /\ wire = [k \in Conns |-> <<>>]
  /\ web \in SUBSET Clients
  /\ opened = [c \in Clients |-> 0]
  /\ running = {}
  /\ shown = [c \in Clients |-> [m \in Messages |-> 0]]
  /\ known = [c \in Clients |-> 0]
  /\ presence = [c \in Clients |-> "none"]

-------------------------------------------------------------------------------
Stored == {m \in Messages : phase[m] = "stored"}
Staged == {m \in Messages : phase[m] = "staged"}
Highest(S) == CHOOSE n \in S \cup {0} : \A s \in S : s <= n
\* Mutant of NextNumber: the number of a rolled back row is not given again.
NextNumberReserved == Highest({num[m] : m \in Messages}) + 1

NextNumber == Highest({num[m] : m \in Stored}) + 1

\* Mutant of HistoryAfter: the limit keeps the newest messages.
HistoryAfterNewest(seq, limit) ==
  {m \in Stored : num[m] > seq /\
     Cardinality({n \in Stored : num[n] >= num[m]}) <= limit}

\* get_history with after_seq: the first `limit` messages beyond seq.
HistoryAfter(seq, limit) ==
  {m \in Stored : num[m] > seq /\
     Cardinality({n \in Stored : num[n] \in (seq + 1)..num[m]}) <= limit}

\* get_history without a cursor: the last `limit` messages.
LatestHistory(limit) ==
  {m \in Stored : Cardinality({n \in Stored : num[n] >= num[m]}) <= limit}

\* The connection client c uses; the ones it opened before are abandoned.
Current(c) == <<c, opened[c]>>
Connected(c) == Current(c) \in link

-------------------------------------------------------------------------------
\* The four callbacks that display messages.  The page ignores an event it
\* already shows; the terminal appends every event; both skip the messages of
\* a replay that they show.  The page's sort does not change what is shown.
\* Mutant of WebOnMessage: the page appends every event.
WebAppend(times, m) == [times EXCEPT ![m] = @ + 1]

WebOnMessage(times, m) == [times EXCEPT ![m] = IF @ = 0 THEN 1 ELSE @]
WebOnReplay(times, ms) ==
  [m \in Messages |-> IF m \in ms /\ times[m] = 0 THEN 1 ELSE times[m]]
CliOnMessage(times, m) == [times EXCEPT ![m] = @ + 1]
CliOnReplay(times, ms) ==
  [m \in Messages |-> IF m \in ms /\ times[m] = 0 THEN 1 ELSE times[m]]

\* A client starts, displaying the messages ms; its cursor stays 0, as nothing
\* calls setLastKnownSequence.
Start(c, ms) ==
  /\ c \notin running
  /\ running' = running \cup {c}
  /\ shown' = [shown EXCEPT ![c] = [m \in Messages |-> IF m \in ms THEN 1 ELSE 0]]
  /\ UNCHANGED <<database, hub, handler, network, web, opened, known, presence>>

\* The page starts only once the history is loaded, the terminal in any case.
WebStart(c) == c \in web /\ Start(c, LatestHistory(HistoryLimit))
CliStart(c) ==
  c \notin web /\ \E ms \in {LatestHistory(HistoryLimit), {}} : Start(c, ms)

\* The server accepts a client's next connection at some worker; the client's
\* sync frame carries its cursor.
Open(c, w) ==
  LET k == <<c, opened[c] + 1>> IN
  /\ c \in running /\ ~Connected(c) /\ opened[c] < MaxConns
  /\ opened' = [opened EXCEPT ![c] = @ + 1]
  /\ link' = link \cup {k}
  /\ pc' = [pc EXCEPT ![k] = "open"]
  /\ at' = [at EXCEPT ![k] = w]
  /\ asked' = [asked EXCEPT ![k] = known[c]]
  /\ UNCHANGED <<database, hub, replay, wire, web, running, shown, known, presence>>

WebConnect(c) == c \in web /\ \E w \in Workers : Open(c, w)
SdkConnect(c) == c \notin web /\ \E w \in Workers : Open(c, w)

\* The client's end closes: the network fails, the page stops or the server
\* closed.  What is on the wire is lost; the handler has not noticed.
Drop(k) ==
  /\ k \in link
  /\ link' = link \ {k}
  /\ wire' = [wire EXCEPT ![k] = <<>>]
  /\ UNCHANGED <<database, hub, handler, client, presence>>

\* Mutant of Advance: the cursor is the number to expect next.
AdvanceNext(c, frame) == Highest({num[m] + 1 : m \in frame.msgs} \cup {known[c]})

\* The cursor after a frame: the larger of itself and the frame's numbers.
Advance(c, frame) == Highest({num[m] : m \in frame.msgs} \cup {known[c]})

\* The client takes the next frame of connection k; it then displays `times`.
Take(k, times) ==
  LET c == OwnerOf(k) IN
  /\ k \in link /\ wire[k] # <<>>
  /\ known' = [known EXCEPT ![c] = Advance(c, Head(wire[k]))]
  /\ shown' = [shown EXCEPT ![c] = times]
  /\ wire' = [wire EXCEPT ![k] = Tail(@)]
  /\ UNCHANGED <<database, hub, handler, link, web, opened, running, presence>>

WebReceive(k) ==
  /\ OwnerOf(k) \in web /\ wire[k] # <<>>
  /\ \/ /\ Head(wire[k]).kind = "event"
        /\ \E m \in Head(wire[k]).msgs : Take(k, WebOnMessage(shown[OwnerOf(k)], m))
     \/ /\ Head(wire[k]).kind = "replay"
        /\ Take(k, WebOnReplay(shown[OwnerOf(k)], Head(wire[k]).msgs))

SdkReceive(k) ==
  /\ OwnerOf(k) \notin web /\ wire[k] # <<>>
  /\ \/ /\ Head(wire[k]).kind = "event"
        /\ \E m \in Head(wire[k]).msgs : Take(k, CliOnMessage(shown[OwnerOf(k)], m))
     \/ /\ Head(wire[k]).kind = "replay"
        /\ Take(k, CliOnReplay(shown[OwnerOf(k)], Head(wire[k]).msgs))

-------------------------------------------------------------------------------
\* Mutant of Unregister: the set in active_rooms keeps the socket.
UnregisterNothing(rooms, w, ks) == rooms

\* Mutant of Register: rooms are kept by client, not by socket.
RegisterClient(rooms, w, k) == [rooms EXCEPT ![w] = @ \cup {OwnerOf(k)}]

\* ConnectionManager.register and unregister.
Register(rooms, w, k) == [rooms EXCEPT ![w] = @ \cup {k}]
Unregister(rooms, w, ks) == [rooms EXCEPT ![w] = @ \ ks]

\* broadcast_to_room takes a copy of the room; an empty one ends it at once.
BeginCast(j, ks) ==
  cast' = [cast EXCEPT ![j] = IF ks = {} THEN None ELSE [todo |-> ks, dead |-> {}]]

\* A frame that reaches an open link is delivered in order; with the link down
\* send_text may fail or the bytes may vanish, after the handler's end it fails.
Delivered(j, k) ==
  /\ k \in link /\ pc[k] # "gone"
  /\ wire' = IF j \in Messages
             THEN [wire EXCEPT ![k] = Append(@, [kind |-> "event", msgs |-> {j}])]
             ELSE wire
SendFails(k) == (k \notin link \/ pc[k] = "gone") /\ UNCHANGED wire
SendVanishes(k) == k \notin link /\ pc[k] # "gone" /\ UNCHANGED wire

\* The next send_text of broadcast j, run in worker w; after the last one it
\* unregisters the sockets that failed.  Presence, typing and read frames
\* change nothing a client displays as a message and are left off the wire.
CastStep(j, w) ==
  \E k \in cast[j].todo : \E dead \in {cast[j].dead, cast[j].dead \cup {k}} :
    /\ IF dead = cast[j].dead THEN Delivered(j, k) \/ SendVanishes(k) ELSE SendFails(k)
    /\ IF cast[j].todo = {k}
       THEN /\ cast' = [cast EXCEPT ![j] = None]
            /\ registered' = Unregister(registered, w, dead)
       ELSE /\ cast' = [cast EXCEPT ![j] = [todo |-> @.todo \ {k}, dead |-> dead]]
            /\ UNCHANGED registered

\* A message's broadcast.
MessageCastStep(m) ==
  /\ cast[m] # None
  /\ CastStep(m, home[m])
  /\ UNCHANGED <<database, began, handler, link, client, presence>>

\* The broadcast of connection k's handler; then it reads its next frame, or ends.
HandlerCastStep(k) ==
  /\ cast[k] # None
  /\ CastStep(k, at[k])
  /\ pc' = IF cast'[k] = None /\ pc[k] = "announcing" THEN [pc EXCEPT ![k] = "live"] ELSE pc
  /\ UNCHANGED <<database, began, at, asked, replay, link, client, presence>>

-------------------------------------------------------------------------------
\* Handler k is left: its locals are gone.
Leave(k, step) ==
  /\ pc' = [pc EXCEPT ![k] = step]
  /\ asked' = [asked EXCEPT ![k] = 0]
  /\ replay' = [replay EXCEPT ![k] = {}]

\* The token in the URL is refused; the sync frame is then no auth frame.
Refuse(k) ==
  /\ pc[k] = "open"
  /\ Leave(k, "gone")
  /\ UNCHANGED <<database, hub, at, network, client, presence>>

SetPresence(k, status) == presence' = [presence EXCEPT ![UserOf[OwnerOf(k)]] = status]

\* The token is accepted and the user is marked online.
Admit(k) ==
  /\ pc[k] = "open"
  /\ pc' = [pc EXCEPT ![k] = "ready"]
  /\ SetPresence(k, "online")
  /\ UNCHANGED <<database, hub, at, asked, replay, network, client>>

\* Mutant of Ping: the heartbeat is answered without touching the row.
PingOnly(k) == pc[k] = "live" /\ UNCHANGED vars

\* A heartbeat, which a client sends every 20 seconds while its end is open.  The
\* SELECT and the UPDATE of update_presence are one step.
Ping(k) ==
  /\ pc[k] = "live"
  /\ SetPresence(k, "online")
  /\ UNCHANGED <<database, hub, handler, network, client>>

\* Mutant of Join: sync leaves the socket out of the room.
JoinUnregistered(k) ==
  /\ pc[k] = "ready"
  /\ pc' = [pc EXCEPT ![k] = "joining"]
  /\ UNCHANGED <<database, hub, at, asked, replay, network, client, presence>>

\* sync: access is checked, then the socket is registered.
Join(k) ==
  /\ pc[k] = "ready"
  /\ pc' = [pc EXCEPT ![k] = "joining"]
  /\ registered' = Register(registered, at[k], k)
  /\ UNCHANGED <<database, began, cast, at, asked, replay, network, client, presence>>

\* sync: the replay is read from the database.
ReadReplay(k) ==
  /\ pc[k] = "joining"
  /\ pc' = [pc EXCEPT ![k] = "replaying"]
  /\ replay' = [replay EXCEPT ![k] = HistoryAfter(asked[k], ReplayLimit)]
  /\ UNCHANGED <<database, hub, at, asked, network, client, presence>>

Others(k) == registered[at[k]] \ {k}
AfterCast(ks) == IF ks = {} THEN "live" ELSE "announcing"

\* sync: the replay is sent, then the user's presence is announced.
SendReplay(k) ==
  /\ pc[k] = "replaying"
  /\ wire' = IF k \in link
             THEN [wire EXCEPT ![k] = Append(@, [kind |-> "replay", msgs |-> replay[k]])]
             ELSE wire
  /\ BeginCast(k, Others(k))
  /\ pc' = [pc EXCEPT ![k] = AfterCast(Others(k))]
  /\ UNCHANGED <<database, began, registered, at, asked, replay, link, client, presence>>

\* A typing indicator or a read receipt is passed on.
Relay(k) ==
  /\ pc[k] = "live" /\ Others(k) # {}
  /\ BeginCast(k, Others(k))
  /\ pc' = [pc EXCEPT ![k] = "announcing"]
  /\ UNCHANGED <<database, began, registered, at, asked, replay, network, client, presence>>

\* WebSocketDisconnect, raised by receive_text or send_text.  A socket that a
\* broadcast has unregistered has no metadata left: nothing more is done.
Disconnect(k) ==
  LET w == at[k]  rooms == Unregister(registered, w, {k})
      last == k \in registered[w]
              /\ ~\E o \in rooms[w] : UserOf[OwnerOf(o)] = UserOf[OwnerOf(k)] IN
  /\ pc[k] \in Guarded \ {"joining", "announcing"} /\ k \notin link
  /\ registered' = rooms
  /\ Leave(k, IF last THEN "offline" ELSE "gone")
  /\ UNCHANGED <<database, began, cast, at, network, client, presence>>

\* The user's last socket of this worker has closed: the row says offline, and
\* the room is told.
MarkOffline(k) ==
  /\ pc[k] = "offline"
  /\ pc' = [pc EXCEPT ![k] = "gone"]
  /\ SetPresence(k, "offline")
  /\ BeginCast(k, registered[at[k]])
  /\ UNCHANGED <<database, began, registered, at, asked, replay, network, client>>

\* Any other exception (a malformed frame, a refused sync, a database error):
\* the socket is unregistered and closed, and presence is left as it is.
Fail(k) ==
  /\ pc[k] \in Guarded \ {"announcing"}
  /\ Leave(k, "gone")
  /\ registered' = Unregister(registered, at[k], {k})
  /\ UNCHANGED <<database, began, cast, at, network, client, presence>>

-------------------------------------------------------------------------------
\* A WebSocket or webhook call commits message m; its broadcast follows.
Store(m) ==
  /\ m \notin Rest /\ phase[m] = "unsent" /\ Staged = {}
  /\ \E w \in Workers : home' = [home EXCEPT ![m] = w]
  /\ phase' = [phase EXCEPT ![m] = "stored"]
  /\ num' = [num EXCEPT ![m] = NextNumber]
  /\ UNCHANGED <<hub, handler, network, client, presence>>

\* A REST call flushes message m; its broadcast comes before get_db's COMMIT.
Stage(m) ==
  /\ m \in Rest /\ phase[m] = "unsent" /\ Staged = {}
  /\ \E w \in Workers : home' = [home EXCEPT ![m] = w]
  /\ phase' = [phase EXCEPT ![m] = "staged"]
  /\ num' = [num EXCEPT ![m] = NextNumber]
  /\ UNCHANGED <<hub, handler, network, client, presence>>

\* The callers' broadcast of m begins.
BeginMessageCast(m) ==
  /\ phase[m] \in {"staged", "stored"} /\ m \notin began
  /\ began' = began \cup {m}
  /\ BeginCast(m, registered[home[m]])
  /\ UNCHANGED <<database, registered, handler, network, client, presence>>

\* get_db commits the REST call, or the commit fails.
CommitRest(m) ==
  /\ phase[m] = "staged" /\ m \in began /\ cast[m] = None
  /\ \E end \in {"stored", "aborted"} : phase' = [phase EXCEPT ![m] = end]
  /\ UNCHANGED <<num, home, hub, handler, network, client, presence>>

\* A worker process dies and is restarted: its sockets close, its broadcasts
\* stop, its uncommitted row is rolled back.
CrashWorker(w) ==
  LET mine == {k \in Conns : at[k] = w /\ pc[k] \notin {"free", "gone"}}
      lost == {m \in Messages : home[m] = w} IN
  /\ mine # {} \/ \E m \in lost : m \notin began \/ cast[m] # None
  /\ phase' = [m \in Messages |->
       IF m \in lost /\ phase[m] = "staged" THEN "aborted" ELSE phase[m]]
  /\ began' = began \cup lost
  /\ cast' = [j \in Casts |-> IF j \in lost \cup {k \in Conns : at[k] = w} THEN None ELSE cast[j]]
  /\ registered' = [registered EXCEPT ![w] = {}]
  /\ pc' = [k \in Conns |-> IF k \in mine THEN "gone" ELSE pc[k]]
  /\ link' = {k \in link : at[k] # w}
  /\ wire' = [k \in Conns |-> IF at[k] = w THEN <<>> ELSE wire[k]]
  /\ asked' = [k \in Conns |-> IF k \in mine THEN 0 ELSE asked[k]]
  /\ replay' = [k \in Conns |-> IF k \in mine THEN {} ELSE replay[k]]
  /\ UNCHANGED <<num, home, at, client, presence>>

Next ==
  \/ \E c \in Clients : WebStart(c) \/ CliStart(c) \/ WebConnect(c) \/ SdkConnect(c)
  \/ \E k \in Conns :
       \/ Drop(k) \/ WebReceive(k) \/ SdkReceive(k)
       \/ Refuse(k) \/ Admit(k) \/ Ping(k) \/ Join(k) \/ ReadReplay(k) \/ SendReplay(k)
       \/ Relay(k) \/ HandlerCastStep(k) \/ Disconnect(k) \/ MarkOffline(k) \/ Fail(k)
  \/ \E m \in Messages :
       Store(m) \/ Stage(m) \/ BeginMessageCast(m) \/ MessageCastStep(m) \/ CommitRest(m)
  \/ \E w \in Workers : CrashWorker(w)

Spec == Init /\ [][Next]_vars

\* A client pings as long as its end is open, the handler takes the frames of a
\* socket in order between its broadcasts, and every send_text ends: uvicorn
\* closes a peer that answers no protocol ping.
OpenOf(c) == {k \in link : OwnerOf(k) = c}
Fairness ==
  \A c \in Clients : /\ SF_vars(\E k \in OpenOf(c) : Ping(k))
                     /\ WF_vars(\E k \in OpenOf(c) : HandlerCastStep(k))
FairSpec == Spec /\ Fairness

-------------------------------------------------------------------------------
OnWire(k, m) == \E i \in DOMAIN wire[k] : m \in wire[k][i].msgs
\* Message m is still on its way to connection k: on the wire, in the replay
\* that is being prepared, or in a broadcast that will or does include k.
InFlight(k, m) ==
  \/ OnWire(k, m)
  \/ pc[k] \in {"open", "ready", "joining"} /\ num[m] > asked[k]
  \/ pc[k] = "replaying" /\ m \in replay[k]
  \/ home[m] = at[k] /\ m \notin began
  \/ cast[m] # None /\ k \in cast[m].todo
\* The client has an open connection whose sync was answered.
Joined(k) == k \in link /\ pc[k] \in {"announcing", "live"}

\* A client whose sync was answered misses no message that a WebSocket or a
\* webhook call of its own worker committed after the position it asked for:
\* the socket is registered before the history is read, so that a message is
\* in the replay or in the broadcast.  A full replay may have left some out.
NoGapWhileJoined ==
  \A k \in Conns, m \in Stored \ Rest :
    Joined(k) /\ home[m] = at[k] /\ num[m] > asked[k]
      /\ Cardinality(replay[k]) < ReplayLimit
    => shown[OwnerOf(k)][m] > 0 \/ InFlight(k, m)

\* A replay has no holes, whichever worker or entry the messages came by, and
\* none appears later: no message takes a number below one already read.
ReplayHasNoHoles ==
  \A k \in Conns, m \in Stored : \A n \in replay[k] :
    Joined(k) /\ asked[k] < num[m] /\ num[m] <= num[n]
    => shown[OwnerOf(k)][m] > 0 \/ OnWire(k, m)

\* The page shows a message of somebody else once, however preload, replays of
\* several connections and live events overlap.
WebShowsOnce == \A c \in web, m \in Messages : shown[c][m] <= 1

\* A worker's room holds running handlers of its own only, and every synced
\* handler whose client is still there is in it: no path out of the handler
\* leaks a socket, no broadcast forgets one.
RoomsExact ==
  /\ \A w \in Workers : \A k \in registered[w] : pc[k] \in Synced /\ at[k] = w
  /\ \A k \in link : pc[k] \in Synced => k \in registered[at[k]]

\* A client's cursor passes the log by at most one, and only by an uncommitted
\* or rolled back REST message it was shown: the number it will skip.
CursorWithinLog ==
  \A c \in Clients :
    known[c] >= NextNumber =>
      /\ known[c] = NextNumber
      /\ \E m \in Rest \ Stored : num[m] = known[c] /\ shown[c][m] > 0

\* A user with a socket that stays synced is shown online again and again: an
\* OFFLINE that the handler of an older socket writes late is corrected by a
\* heartbeat, however often it happens.
PresenceRecovers ==
  \A c \in Clients :
    <>[](\E k \in OpenOf(c) : Joined(k)) => []<>(presence[UserOf[c]] = "online")

\* The hub's messages live as the message service lets them.
Service == INSTANCE Feed WITH
  Convs <- {"the conversation"},
  place <- [m \in Messages |-> IF phase[m] = "unsent" THEN None ELSE "the conversation"]
FollowsFeed == Service!Spec

\* CLI.md says that reconnecting with the last sequence loses no message:
\* a stored message at or below a client's cursor is shown or on its way.
NothingLost ==
  \A c \in Clients, m \in Stored :
    num[m] <= known[c] =>
      shown[c][m] > 0 \/ (Connected(c) /\ InFlight(Current(c), m))

===============================================================================
