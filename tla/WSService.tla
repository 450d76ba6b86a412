----------------------------- MODULE WSService ------------------------------
(***************************************************************************)
(* The WebSocket service of src/src/ws/service.go: the registry of live    *)
(* connections (userIdToConns, convIdToConns, both under s.mu), the life   *)
(* of a connection from ServeHTTP to the deferred cleanup of               *)
(* handleIncomingWSMessages, and what the read loop starts for a chat      *)
(* message (store and acknowledge, relay) and for a new conversation       *)
(* (store, then notify the participants).                                  *)
(*                                                                         *)
(* The goroutines of one connection run one after the other (ServeHTTP,    *)
(* then the read loop, then its deferred cleanup), so pc[c] stands for all *)
(* of them.  The goroutines of an item run next to them.  A critical       *)
(* section of s.mu that only reads (the relay's lookup, the notifier's     *)
(* loop) is one step guarded by mu = Free.  A write to a connection        *)
(* (WriteJSONSafely, under that connection's own mutex) is one step.       *)
(* What a signaling item does to a connection is module Signaling.         *)
(***************************************************************************)
EXTENDS Naturals, FiniteSets

CONSTANTS Conns,         \* WebSocket connections (UserCtx pointers)
          Users,         \* user ids
          Convs,         \* conversation ids
          Msgs,          \* "MongoChatMessage" items
          Notices,       \* "MongoChatConv" items
          UserOf,        \* UserOf[c]: the x-vibe-user-id of the connection
          ConvIds,       \* ConvIds[c]: the x-vibe-convo-id list
          Sender,        \* Sender[i]: the connection an item arrives on
          ConvOf,        \* ConvOf[m]: ChatId of a message
          AuthorOf,      \* AuthorOf[m]: CreatedByUserId of a message
          Participants,  \* Participants[n]: ParticipantUserIds
          Free           \* s.mu is not held

Items == Msgs \cup Notices

ASSUME ConstantsAssumption ==
    /\ UserOf \in [Conns -> Users]
    /\ ConvIds \in [Conns -> SUBSET Convs]
    /\ Sender \in [Items -> Conns]
    /\ ConvOf \in [Msgs -> Convs]
    /\ AuthorOf \in [Msgs -> Users]
    /\ Participants \in [Notices -> SUBSET Users]
    /\ Msgs \cap Notices = {}
    /\ Free \notin Conns

VARIABLES
    mu,             \* the connection whose goroutine holds s.mu, or Free
    userIdToConns,  \* user id -> connections ({} when the key is absent)
    convIdToConns,  \* conversation id -> connections
    pc,             \* where the goroutine of a connection is
    sock,           \* the TCP side of a connection
    IsConnClosed,   \* the flag of the UserCtx
    phase,          \* where the goroutine that relays or notifies an item is
    db,             \* the insert of an item
    rangeKeys,      \* keys present when the relay's range loop began
    targets,        \* started sends of an item that have not run yet
    got,            \* got[c]: items written to connection c
    acked,          \* messages acknowledged to their sender
    crashed         \* the runtime aborted the process

vars == <<mu, userIdToConns, convIdToConns, pc, sock, IsConnClosed, phase, db,
          rangeKeys, targets, got, acked, crashed>>

registry == <<mu, userIdToConns, convIdToConns>>
conn == <<pc, sock, IsConnClosed>>
traffic == <<phase, db, rangeKeys, targets, got, acked>>

PCs == {"idle", "rejected", "register", "regConvs", "reading", "closing",
        "cleanLock", "relock", "done"}
Phases == {"idle", "refused", "started", "held", "ranging", "sent"}

TypeOK ==
    /\ mu \in Conns \cup {Free}
    /\ userIdToConns \in [Users -> SUBSET Conns]
    /\ convIdToConns \in [Convs -> SUBSET Conns]
    /\ pc \in [Conns -> PCs]
    /\ sock \in [Conns -> {"none", "open", "down", "closed"}]
    /\ IsConnClosed \in [Conns -> BOOLEAN]
    /\ phase \in [Items -> Phases]
    /\ db \in [Items -> {"idle", "pending", "stored", "failed", "answered"}]
    /\ rangeKeys \in [Msgs -> SUBSET Conns]
    /\ targets \in [Items -> SUBSET Conns]
    /\ got \in [Conns -> SUBSET Items]
    /\ acked \subseteq Msgs
    /\ crashed \in BOOLEAN

Init ==
    /\ mu = Free
    /\ userIdToConns = [u \in Users |-> {}]
    /\ convIdToConns = [k \in Convs |-> {}]
    /\ pc = [c \in Conns |-> "idle"]
    /\ sock = [c \in Conns |-> "none"]
    /\ IsConnClosed = [c \in Conns |-> FALSE]
    /\ phase = [i \in Items |-> "idle"]
    /\ db = [i \in Items |-> "idle"]
    /\ rangeKeys = [m \in Msgs |-> {}]
    /\ targets = [i \in Items |-> {}]
    /\ got = [c \in Conns |-> {}]
    /\ acked = {}
    /\ crashed = FALSE

-----------------------------------------------------------------------------
(* ServeHTTP                                                               *)

Goto(c, l) == pc' = [pc EXCEPT ![c] = l]

\* A header is missing or malformed, or the handshake fails: an HTTP error.
Reject(c) ==
    /\ pc[c] = "idle"
    /\ Goto(c, "rejected")
    /\ UNCHANGED <<registry, sock, IsConnClosed, traffic, crashed>>

\* The headers are valid and Upgrade takes over the TCP connection.
Upgrade(c) ==
    /\ pc[c] = "idle"
    /\ Goto(c, "register")
    /\ sock' = [sock EXCEPT ![c] = "open"]
    /\ UNCHANGED <<registry, IsConnClosed, traffic, crashed>>

\* Fault: the inner map is keyed by the user id instead of the connection.
RegisterUserById(c) ==
    /\ pc[c] = "register"
    /\ mu = Free
    /\ mu' = c
    /\ userIdToConns' = [userIdToConns EXCEPT ![UserOf[c]] = @ \cup {UserOf[c]}]
    /\ Goto(c, "regConvs")
    /\ UNCHANGED <<convIdToConns, sock, IsConnClosed, traffic, crashed>>

\* Fault: the registration does not wait for s.mu.
RegisterUserUnlocked(c) ==
    /\ pc[c] = "register"
    /\ mu' = c
    /\ userIdToConns' = [userIdToConns EXCEPT ![UserOf[c]] = @ \cup {c}]
    /\ Goto(c, "regConvs")
    /\ UNCHANGED <<convIdToConns, sock, IsConnClosed, traffic, crashed>>

\* s.mu.Lock(); the connection enters the map of its user.
RegisterUser(c) ==
    /\ pc[c] = "register"
    /\ mu = Free
    /\ mu' = c
    /\ userIdToConns' = [userIdToConns EXCEPT ![UserOf[c]] = @ \cup {c}]
    /\ Goto(c, "regConvs")
    /\ UNCHANGED <<convIdToConns, sock, IsConnClosed, traffic, crashed>>

\* One turn of the loop over uc.ConvIds: a write to the inner map of k.
RegisterConv(c, k) ==
    /\ pc[c] = "regConvs"
    /\ k \in ConvIds[c]
    /\ c \notin convIdToConns[k]
    /\ convIdToConns' = [convIdToConns EXCEPT ![k] = @ \cup {c}]
    /\ UNCHANGED <<mu, userIdToConns, conn, traffic, crashed>>

\* Fault: s.mu is released before the loop over uc.ConvIds has ended.
RegisterDoneEarly(c) ==
    /\ pc[c] = "regConvs"
    /\ mu' = Free
    /\ Goto(c, "reading")
    /\ UNCHANGED <<userIdToConns, convIdToConns, sock, IsConnClosed, traffic,
                   crashed>>

\* s.mu.Unlock(), and the read loop starts.
RegisterDone(c) ==
    /\ pc[c] = "regConvs"
    /\ \A k \in ConvIds[c] : c \in convIdToConns[k]
    /\ mu' = Free
    /\ Goto(c, "reading")
    /\ UNCHANGED <<userIdToConns, convIdToConns, sock, IsConnClosed, traffic,
                   crashed>>

-----------------------------------------------------------------------------
(* The read loop and its deferred cleanup                                  *)

\* The network or the client drops the connection without a close frame.
PeerGone(c) ==
    /\ sock[c] = "open"
    /\ sock' = [sock EXCEPT ![c] = "down"]
    /\ UNCHANGED <<registry, pc, IsConnClosed, traffic, crashed>>

\* ReadMessage fails: the loop marks the connection and returns.
ReadError(c) ==
    /\ pc[c] = "reading"
    /\ sock[c] = "down"
    /\ IsConnClosed' = [IsConnClosed EXCEPT ![c] = TRUE]
    /\ Goto(c, "closing")
    /\ UNCHANGED <<registry, sock, traffic, crashed>>

\* ReadMessage calls the close handler, which marks the connection, and the
\* test that follows ReadMessage leaves the loop.
CloseFrame(c) ==
    /\ pc[c] = "reading"
    /\ sock[c] = "open"
    /\ IsConnClosed' = [IsConnClosed EXCEPT ![c] = TRUE]
    /\ Goto(c, "closing")
    /\ UNCHANGED <<registry, sock, traffic, crashed>>

\* uc.SafeClose(false), the first part of the deferred cleanup.
SafeClose(c) ==
    /\ pc[c] = "closing"
    /\ sock' = [sock EXCEPT ![c] = "closed"]
    /\ IsConnClosed' = [IsConnClosed EXCEPT ![c] = TRUE]
    /\ Goto(c, "cleanLock")
    /\ UNCHANGED <<registry, traffic, crashed>>

\* Fault: the mutex is released between the two maps.
CleanUpUnlocksEarly(c) ==
    /\ pc[c] = "cleanLock"
    /\ mu = Free
    /\ userIdToConns' = [userIdToConns EXCEPT ![UserOf[c]] = @ \ {c}]
    /\ IF ConvIds[c] = {} THEN Goto(c, "done") ELSE Goto(c, "relock")
    /\ UNCHANGED <<mu, convIdToConns, sock, IsConnClosed, traffic, crashed>>

\* Fault: a connection is only removed when it is the last of its user.
CleanUpKeepsSiblings(c) ==
    /\ pc[c] = "cleanLock"
    /\ mu = Free
    /\ userIdToConns' =
          [userIdToConns EXCEPT ![UserOf[c]] = IF @ = {c} THEN {} ELSE @]
    /\ IF ConvIds[c] = {}
       THEN mu' = Free /\ Goto(c, "done")
       ELSE mu' = c /\ Goto(c, "relock")
    /\ UNCHANGED <<convIdToConns, sock, IsConnClosed, traffic, crashed>>

\* s.mu.Lock() with its unlock deferred, and the connection leaves the map of
\* its user.  Without conversations the cleanup ends here.  With one, the
\* loop over uc.ConvIds calls s.mu.Lock() again in the goroutine that holds
\* s.mu: at "relock" it waits for itself, and nothing after that line runs.
CleanUp(c) ==
    /\ pc[c] = "cleanLock"
    /\ mu = Free
    /\ userIdToConns' = [userIdToConns EXCEPT ![UserOf[c]] = @ \ {c}]
    /\ IF ConvIds[c] = {}
       THEN mu' = Free /\ Goto(c, "done")
       ELSE mu' = c /\ Goto(c, "relock")
    /\ UNCHANGED <<convIdToConns, sock, IsConnClosed, traffic, crashed>>

-----------------------------------------------------------------------------
(* What the read loop starts for an item                                   *)

\* A "MongoChatMessage" item: refused with an error frame unless its author
\* is the user of the connection, else one goroutine stores it and another
\* relays it.
DispatchMessage(m) ==
    /\ pc[Sender[m]] = "reading"
    /\ phase[m] = "idle"
    /\ IF AuthorOf[m] = UserOf[Sender[m]]
       THEN /\ phase' = [phase EXCEPT ![m] = "started"]
            /\ db' = [db EXCEPT ![m] = "pending"]
       ELSE /\ phase' = [phase EXCEPT ![m] = "refused"]
            /\ UNCHANGED db
    /\ UNCHANGED <<registry, conn, rangeKeys, targets, got, acked, crashed>>

\* A "MongoChatConv" item: one goroutine stores it, and notifies after that.
DispatchNotice(n) ==
    /\ pc[Sender[n]] = "reading"
    /\ phase[n] = "idle"
    /\ phase' = [phase EXCEPT ![n] = "started"]
    /\ db' = [db EXCEPT ![n] = "pending"]
    /\ UNCHANGED <<registry, conn, rangeKeys, targets, got, acked, crashed>>

\* DoInsertOne returns, with or without an error.
Insert(i) ==
    /\ db[i] = "pending"
    /\ \E r \in {"stored", "failed"} : db' = [db EXCEPT ![i] = r]
    /\ UNCHANGED <<registry, conn, phase, rangeKeys, targets, got, acked,
                   crashed>>

\* Outcomes of WriteJSONSafely.  The read loop sets IsConnClosed without
\* uc.Mtx, so a writer may still see FALSE and write to an open socket.
MayWrite(c) == sock[c] = "open"
MayFail(c) == IsConnClosed[c] \/ sock[c] # "open"

\* Fault: the acknowledgement does not look at the error of the insert.
AckSenderAnyway(m) ==
    /\ db[m] \in {"stored", "failed"}
    /\ db' = [db EXCEPT ![m] = "answered"]
    /\ \/ MayWrite(Sender[m]) /\ acked' = acked \cup {m}
       \/ MayFail(Sender[m]) /\ UNCHANGED acked
    /\ UNCHANGED <<registry, conn, phase, rangeKeys, targets, got, crashed>>

\* The acknowledgement to the sender after a successful insert.
AckSender(m) ==
    /\ db[m] = "stored"
    /\ db' = [db EXCEPT ![m] = "answered"]
    /\ \/ MayWrite(Sender[m]) /\ acked' = acked \cup {m}
       \/ MayFail(Sender[m]) /\ UNCHANGED acked
    /\ UNCHANGED <<registry, conn, phase, rangeKeys, targets, got, crashed>>

\* The relay takes a reference to the inner map under s.mu and releases s.mu.
RelayLookup(m) ==
    /\ phase[m] = "started"
    /\ mu = Free
    /\ phase' = [phase EXCEPT
                   ![m] = IF convIdToConns[ConvOf[m]] = {} THEN "sent" ELSE "held"]
    /\ UNCHANGED <<registry, conn, db, rangeKeys, targets, got, acked, crashed>>

\* for k := range connsInConv, outside s.mu.
RelayRange(m) ==
    /\ phase[m] = "held"
    /\ phase' = [phase EXCEPT ![m] = "ranging"]
    /\ rangeKeys' = [rangeKeys EXCEPT ![m] = convIdToConns[ConvOf[m]]]
    /\ UNCHANGED <<registry, conn, db, targets, got, acked, crashed>>

\* Fault: the relay also sends to the connection the message came from.
RelaySpawnEchoes(m) ==
    /\ phase[m] = "ranging"
    /\ \E seen \in SUBSET convIdToConns[ConvOf[m]] :
          /\ rangeKeys[m] \subseteq seen
          /\ targets' = [targets EXCEPT ![m] = seen]
    /\ phase' = [phase EXCEPT ![m] = "sent"]
    /\ UNCHANGED <<registry, conn, db, rangeKeys, got, acked, crashed>>

\* Fault: the loop leaves out the other devices of the sender's user too.
RelaySpawnSkipsDevices(m) ==
    /\ phase[m] = "ranging"
    /\ \E seen \in SUBSET convIdToConns[ConvOf[m]] :
          /\ rangeKeys[m] \subseteq seen
          /\ targets' = [targets EXCEPT ![m] =
                            {p \in seen : UserOf[p] # UserOf[Sender[m]]}]
    /\ phase' = [phase EXCEPT ![m] = "sent"]
    /\ UNCHANGED <<registry, conn, db, rangeKeys, got, acked, crashed>>

\* The range loop ends and a goroutine is started per connection found,
\* except for the sender's.  A key that entered the map during the loop may
\* or may not have been visited.
RelaySpawn(m) ==
    /\ phase[m] = "ranging"
    /\ \E seen \in SUBSET convIdToConns[ConvOf[m]] :
          /\ rangeKeys[m] \subseteq seen
          /\ targets' = [targets EXCEPT ![m] = seen \ {Sender[m]}]
    /\ phase' = [phase EXCEPT ![m] = "sent"]
    /\ UNCHANGED <<registry, conn, db, rangeKeys, got, acked, crashed>>

\* Fault: the notifier does not wait for the insert.
NotifyLookupEarly(n) ==
    /\ phase[n] = "started"
    /\ mu = Free
    /\ targets' = [targets EXCEPT
                     ![n] = UNION {userIdToConns[u] : u \in Participants[n]}]
    /\ phase' = [phase EXCEPT ![n] = "sent"]
    /\ UNCHANGED <<registry, conn, db, rangeKeys, got, acked, crashed>>

\* Fault: only one participant is looked up.
NotifyLookupOne(n) ==
    /\ phase[n] = "started"
    /\ db[n] = "stored"
    /\ mu = Free
    /\ \E u \in Participants[n] :
          targets' = [targets EXCEPT ![n] = userIdToConns[u]]
    /\ phase' = [phase EXCEPT ![n] = "sent"]
    /\ UNCHANGED <<registry, conn, db, rangeKeys, got, acked, crashed>>

\* After the insert, all connections of all participants, under s.mu.
NotifyLookup(n) ==
    /\ phase[n] = "started"
    /\ db[n] = "stored"
    /\ mu = Free
    /\ targets' = [targets EXCEPT
                     ![n] = UNION {userIdToConns[u] : u \in Participants[n]}]
    /\ phase' = [phase EXCEPT ![n] = "sent"]
    /\ UNCHANGED <<registry, conn, db, rangeKeys, got, acked, crashed>>

\* One started send runs.
Send(i, p) ==
    /\ p \in targets[i]
    /\ targets' = [targets EXCEPT ![i] = @ \ {p}]
    /\ \/ MayWrite(p) /\ got' = [got EXCEPT ![p] = @ \cup {i}]
       \/ MayFail(p) /\ UNCHANGED got
    /\ UNCHANGED <<registry, conn, phase, db, rangeKeys, acked, crashed>>

\* A registration is about to write the inner map that a relay ranges over.
RangeRaces(m) ==
    /\ phase[m] = "ranging"
    /\ \E c \in Conns : /\ pc[c] = "regConvs"
                        /\ ConvOf[m] \in ConvIds[c]
                        /\ c \notin convIdToConns[ConvOf[m]]

\* The runtime may notice: "concurrent map iteration and map write" is fatal.
MapFault ==
    /\ \E m \in Msgs : RangeRaces(m)
    /\ crashed' = TRUE
    /\ UNCHANGED <<registry, conn, traffic>>

-----------------------------------------------------------------------------
ConnStep(c) ==
    \/ RegisterUser(c)
    \/ \E k \in Convs : RegisterConv(c, k)
    \/ RegisterDone(c)
    \/ ReadError(c)
    \/ SafeClose(c)
    \/ CleanUp(c)

ItemStep(i) == Insert(i) \/ \E p \in Conns : Send(i, p)

MessageStep(m) ==
    \/ AckSender(m)
    \/ RelayLookup(m)
    \/ RelayRange(m)
    \/ RelaySpawn(m)

Next ==
    /\ ~crashed
    /\ \/ \E c \in Conns :
            ConnStep(c) \/ Reject(c) \/ Upgrade(c) \/ PeerGone(c) \/ CloseFrame(c)
       \/ \E i \in Items : ItemStep(i)
       \/ \E m \in Msgs : MessageStep(m) \/ DispatchMessage(m)
       \/ \E n \in Notices : NotifyLookup(n) \/ DispatchNotice(n)
       \/ MapFault

Spec == Init /\ [][Next]_vars

\* Runnable goroutines run, and sync.Mutex is starvation free: a goroutine
\* that finds s.mu free again and again gets it.  Clients, the network and
\* the arrival of items owe nothing.
Fairness ==
    /\ \A c \in Conns : WF_vars(~crashed /\ ConnStep(c))
    /\ \A c \in Conns : SF_vars(~crashed /\ (RegisterUser(c) \/ CleanUp(c)))
    /\ \A i \in Items : WF_vars(~crashed /\ ItemStep(i))
    /\ \A m \in Msgs : WF_vars(~crashed /\ MessageStep(m))
    /\ \A m \in Msgs : SF_vars(~crashed /\ RelayLookup(m))
    /\ \A n \in Notices : SF_vars(~crashed /\ NotifyLookup(n))

FairSpec == Spec /\ Fairness

-----------------------------------------------------------------------------
(* Properties                                                              *)

\* A goroutine waits in its own deferred cleanup for the mutex it holds.
Wedged == \E c \in Conns : pc[c] = "relock"

\* Whenever s.mu is free, userIdToConns and convIdToConns list the same
\* connections: registration and cleanup change both inside one critical
\* section, which is what "The single Service mutex" of the cleanup is for.
MapsAgree ==
    mu = Free =>
        \A c \in Conns : \A k \in ConvIds[c] :
            c \in convIdToConns[k] <=> c \in userIdToConns[UserOf[c]]

\* Why the maps agree, as an inductive invariant.  s.mu is held exactly by a
\* connection inside its registration or stuck in its cleanup; a connection
\* is in the map of its user, and of no other, from its registration to its
\* cleanup; it is in the maps of its conversations from the end of its
\* registration for good, for a cleanup only ends without conversations.
Listed == {"regConvs", "reading", "closing", "cleanLock"}
LockOwner == \A c \in Conns : mu = c <=> pc[c] \in {"regConvs", "relock"}
UserEntries ==
    \A c \in Conns, u \in Users :
        c \in userIdToConns[u] <=> u = UserOf[c] /\ pc[c] \in Listed
ConvEntries ==
    \A c \in Conns, k \in Convs :
        /\ c \in convIdToConns[k] =>
              k \in ConvIds[c] /\ pc[c] \in Listed \cup {"relock"}
        /\ k \in ConvIds[c] /\ pc[c] \in {"reading", "closing", "cleanLock", "relock"}
              => c \in convIdToConns[k]
        /\ pc[c] = "done" => ConvIds[c] = {}
RegistryInv == LockOwner /\ UserEntries /\ ConvEntries

\* A connection that is told of a new conversation belongs to one of its
\* participants, and the conversation is in the database by then: the
\* notifier runs after the insert, in the same goroutine.
NoticesAreStored ==
    \A n \in Notices, c \in Conns :
        n \in got[c] => db[n] = "stored" /\ UserOf[c] \in Participants[n]

\* After the cleanup of a connection with a conversation has begun, no
\* connection is ever added to or removed from either map again: the second
\* s.mu.Lock() of the cleanup never returns.
WedgeFreezesRegistry == [][Wedged => UNCHANGED registry]_vars

\* Why a relay never delivers twice: before its range loop ends nothing has been
\* sent, and a send that has not run goes to another connection of the
\* conversation that has not got the message.  Only an accepted message is
\* inserted, only an inserted one acknowledged.
SentOnce ==
    \A m \in Msgs :
        /\ phase[m] \in {"idle", "refused"} => db[m] = "idle"
        /\ m \in acked => db[m] = "answered"
        /\ phase[m] # "sent" => targets[m] = {} /\ \A c \in Conns : m \notin got[c]
        /\ \A p \in targets[m] : /\ m \notin got[p]
                                 /\ p # Sender[m]
                                 /\ p \in convIdToConns[ConvOf[m]]

\* Why it leaves nobody out: the connections it has found stay in the map, and
\* when its loop has ended each of them but the sender's has a send that is
\* still to run, or has the message, or is closing.
SentToAll ==
    \A m \in Msgs :
        /\ rangeKeys[m] \subseteq convIdToConns[ConvOf[m]]
        /\ phase[m] = "sent" =>
              \A p \in rangeKeys[m] \ {Sender[m]} :
                  p \in targets[m] \/ m \in got[p] \/ MayFail(p)

\* A relay sends a message once to every peer it has found and to nobody else,
\* however registrations, cleanups and other relays interleave with its loop
\* outside s.mu (service.go:1038-1096).
RelayInv == SentOnce /\ SentToAll

\* Stored before acknowledged; delivered at most once, only to other
\* connections of the conversation, and only for a message that passed the
\* author check: the service implements ChatRoom.
AcceptedMsgs == {m \in Msgs : phase[m] \notin {"idle", "refused"}}
StoredMsgs == {m \in Msgs : db[m] \in {"stored", "answered"}}
DeliveredMsgs == [c \in Conns |-> got[c] \cap Msgs]

Room == INSTANCE ChatRoom WITH
            members <- convIdToConns,
            accepted <- AcceptedMsgs,
            stored <- StoredMsgs,
            delivered <- DeliveredMsgs

ImplementsRoom == Room!RoomSpec

\* A relayed message reaches every other connection registered in its
\* conversation when the relay starts, except one that is closing, unless
\* the registry is wedged or the process aborts.
RelayReachesPeers ==
    \A m \in Msgs, p \in Conns :
        (/\ phase[m] = "started"
         /\ p \in convIdToConns[ConvOf[m]]
         /\ p # Sender[m])
        ~> (m \in got[p] \/ MayFail(p) \/ Wedged \/ crashed)

\* A stored new conversation is announced to every registered connection of
\* every participant, with the same exceptions.
NoticeReachesParticipants ==
    \A n \in Notices, p \in Conns :
        (/\ phase[n] = "started"
         /\ db[n] = "stored"
         /\ UserOf[p] \in Participants[n]
         /\ p \in userIdToConns[UserOf[p]])
        ~> (n \in got[p] \/ MayFail(p) \/ Wedged \/ crashed)

\* The frames of relays and notifications arrive, whatever order the goroutines run
\* in and whoever else connects or leaves (service.go:1038-1096, 1157-1204).
FramesArrive == RelayReachesPeers /\ NoticeReachesParticipants

UpgradeStartsReading ==
    \A c \in Conns :
        pc[c] = "register" ~> (pc[c] = "reading" \/ Wedged \/ crashed)

ClosedLeavesUnlessWedged ==
    \A c \in Conns :
        pc[c] = "closing"
        ~> (\/ crashed
            \/ Wedged
            \/ /\ c \notin userIdToConns[UserOf[c]]
               /\ \A k \in Convs : c \notin convIdToConns[k])

\* Registrations (service.go:1766) and cleanups (service.go:474) of all connections
\* get s.mu and give it back: an upgraded connection gets to its read loop, and a
\* closed one leaves both maps, unless the registry is wedged or the process
\* aborts.
RegistryServes == UpgradeStartsReading /\ ClosedLeavesUnlessWedged

\* "Remove the client and its connection from the Service maps when the
\* connection is closed" (the cleanup's comment).
ClosedConnLeavesMaps ==
    \A c \in Conns :
        pc[c] = "closing"
        ~> (\/ crashed
            \/ /\ c \notin userIdToConns[UserOf[c]]
               /\ \A k \in Convs : c \notin convIdToConns[k])

\* "Mutex for protecting userIdToConns and convIdToConns maps" (the field's
\* comment): no relay ranges over an inner map that is about to be written.
MapsOnlyUnderMutex == \A m \in Msgs : ~RangeRaces(m)
=============================================================================
