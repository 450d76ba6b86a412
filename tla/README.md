# A verification of chat.webrtc

TLA+ modules for the chat server in `src/src` (Go): a WebSocket service that
relays chat messages and answers WebRTC signaling, a REST service, MongoDB
behind both, and what is left of three message brokers. TLC checks the
modules on small instances; TLAPS proves the invariants for every value of the
constants.

The tree does not compile as committed (for example the closing `})` of
`service.go:1104`, `service.go:1029`, which uses the package
`vibelog` under a name it is not imported by, or `service.go:1742`, which names unexported
fields of another package). The modules follow what the statements say, with Go's
semantics of maps, channels, `sync.Mutex` (not reentrant) and goroutines, and
treat such slips as typing errors that change no behaviour.

## The system

| Component | State | Operations | Where it is hard |
|---|---|---|---|
| WebSocket service, `ws/service.go` | `userIdToConns`, `convIdToConns` under `s.mu`; one `UserCtx` per connection | `ServeHTTP` (check headers, upgrade, register), read loop, deferred cleanup; a chat message is stored and acknowledged by one goroutine and relayed by another; a new conversation is stored, then announced | every item starts goroutines that use connections found earlier; cleanup races with them; one mutex for everything |
| `UserCtx` and signaling, `ws/uc/user-ctx.go`, `handleWebRTCMessage` | `Mtx` (writes), `webrtcPCsMtx` (peer connections), `IsConnClosed` | `WriteJSONSafely`, `SafeClose`, `GetOrCreatePeerConnection`, `RemovePeerConnection`, offer / answer / ice / close | two mutexes taken in nested order by different goroutines |
| Polling, `service.go:2023-2363`, `mongo.go:516-562` | a cursor, a limiter channel, fetching goroutines | poll of named conversations, poll of all conversations | fetches run concurrently; completion frame; errors are only logged |
| Process, `main.go`, `common/cleanup`, `common/apm` | list of cleanup functions under a mutex that is never released; two servers, two MongoDB clients, the trace channel | start, `AddCleanupFunc`, `RunCleanUpFuncs`, signals, stdin, the shutdown route | registration during the shutdown; ways out that run no cleanup |
| Writing routes, `rest/routes/v1/{conversations,chats-map,users}` | documents in MongoDB, queues and bindings in RabbitMQ | create a conversation, add and remove a user, create a user | work after the commit, goroutines that outlive the request |
| MongoDB access, `common/mongo` | sessions, the sequence of conversations, contexts and cursors | `DoTrx`, `IncrementSequence`, `DoInsertOne`, updates, finds, cursors | conflicts, retries, unknown outcome of a commit, abandoned transactions; what a helper leaves open |
| Request bodies, `common/zmap`, `rest/ctx` | none | typed getters, answers | a getter that is silent about an absent key |
| Middleware, `rest/middleware`, `registerRestRoutes` | values of a request in `gorilla/context` | the chain of adapters, a second goroutine per request | values and body across two goroutines, panics |
| Authentication, `mw-auth`, `load-user.go`, `common/jwt` | request history in the token, a session in Redis | three ways to load the user, roles | boundary of the rate-limit window, chained tokens |
| Login and sign-up, `rest/routes/v1/{login,sign-up}` | rows in PostgreSQL | login, forgotten and reset password, sign-up | read-modify-write of whole rows without a transaction |
| Connection pools, `common/{rabbitmq,redis,kafka,mongo}` | slots under readers-writer locks | `GetConnection` | a look under one lock, an act under the other |
| Publishers, `rest/io` | none | to RabbitMQ, Redis, Kafka, one topic or many; subscriber of Redis | a goroutine per broker and per topic, retries, panics |
| Goroutine tracker, `common/gor` | global map and mutex, a timer per goroutine | `Gor`, `UpdateLastActive`, `CloseOut` | draining a timer under a mutex |
| Configuration, logging, push notifications, types, generated code | none worth modelling | | |

The components meet in few places. The read loop of a connection runs in a
tracked goroutine (`gor.Gor`), starts a goroutine per item, and these share the
maps (through `s.mu`) and the connection (through `Mtx`). Relay and notifier
write to the `UserCtx` of other connections. REST and WebSocket share MongoDB
and the process: a panic in a goroutine of a REST handler ends both. `main` gives
its services nil for every broker pool (`main.go:628`): what the deployed server
does is in Backend and Lifecycle, what the code would do with pools in Brokers,
Outbox and Bindings. mw-auth, login and sign-up are library code that no import of
`main` reaches.

What makes each component correct. The service: the two maps agree, a message
reaches the members of its conversation once and is acknowledged only when
stored, closed connections leave. Signaling: no goroutine waits for ever, a call
can connect. Polling: each message once and in order, completion last. The
handlers that write: all of a request or nothing of it, unique numbers, an
answer that is true. Shutdown: every cleanup runs once, in reverse, and a clean
exit leaves nothing open. Bodies: a handler works with what it has checked.
Middleware: a request keeps its values as long as a goroutine works on it. Login:
no attempt counts that was not made. Pools: no connection that works is lost.
Tracker: nothing waits for what cannot happen. All of them: what is begun ends.

## Modules

### ChatRoom (abstract)

What a client may rely on: connections join conversations they asked for; a
message is stored, acknowledged only once stored, and delivered at most once to
other members of its conversation. A message is one item on the wire: an item
sent twice is two messages. The order between `Deliver` and `Store` is open,
because the code relays without waiting for the insert (`service.go:998`,
`:1038`).

### WSService

| TLA+ | Code |
|---|---|
| `mu` | holder of `s.mu` between steps |
| `userIdToConns`, `convIdToConns` | the maps; an absent key is the empty set |
| `pc[c]` | where the connection's one goroutine at a time is: `ServeHTTP`, read loop, deferred cleanup |
| `sock`, `IsConnClosed` | the TCP connection and the flag of the `UserCtx` |
| `phase`, `rangeKeys`, `targets` | the relay or notification of an item: before the lookup, holding a reference to the inner map, ranging over it, sends started |
| `db` | the insert of an item and its acknowledgement |
| `got`, `acked` | frames that went out |
| `crashed` | the runtime aborted on concurrent access to a map |

Actions follow the code in order: `Reject`, `Upgrade`, `RegisterUser`,
`RegisterConv` (one turn of the loop), `RegisterDone`; `ReadError`,
`CloseFrame`, `SafeClose`, `CleanUp`; `DispatchMessage`, `DispatchNotice`,
`Insert`, `AckSender`, `RelayLookup`, `RelayRange`, `RelaySpawn`,
`NotifyLookup`, `Send`. `PeerGone` is the network, `MapFault` the Go runtime.

A critical section that only reads (the relay's lookup, the notifier's loop)
or cannot be observed half done (`CleanUp`) is one step. The registration is not: it is
split at each write so that the relay's unlocked `range` can be seen next to
it. `CleanUp` ends at `relock` for a connection with conversations: the
second `s.mu.Lock()` (`service.go:496`) waits for the first, and no action
leads on from there.

A write to a connection is one step: it succeeds only on an open socket, and may
fail when the connection is marked closed or the socket is not open. `IsConnClosed` is
set by the read loop without `Mtx`, so both outcomes are possible in between.

Checks of identifiers and payloads are one choice (`Reject`), and the refusal of
a message whose author is not the user of the connection is kept. Error frames
are in Frames.

### Signaling

One connection and the goroutines that share its two mutexes: one per signaling
item, one per chat frame, and the read loop. `at[h]` is where a signaling
goroutine is; `Mtx` and `webrtcPCsMtx` name their holder between steps.
`AfterLookup` is the control flow of `handleWebRTCMessage` after the lookup:
what may follow for each kind of item, with and without a peer connection.
`GetOrCreate` keeps `webrtcPCsMtx` and stops at `relock` when it has created
a peer connection (`user-ctx.go:410`). `SafeClose` is two steps, because it
waits for `webrtcPCsMtx` with `Mtx` held.

The callbacks of peer connections and data channels (`user-ctx.go:309-389`,
`419-501`) need a peer connection whose descriptions are set, and
`NoCallConnects` shows that none is ever stored. They are not modelled.

Seen from WSService, a connection with a stuck offer never gets from `closing`
to `cleanLock`, and writes to it may never return. The liveness properties of
WSService are about connections without one.

### Polling

One poll of either kind. `main` is its goroutine, `fetch[q]` and `pos[q]` the
cursor of a query, `slots` the limiter channel, `frames` what the client
receives. Messages are numbered by `CreatedAt`. A query may fail at once, a
cursor may end early (an error, or the limit of 5000 rows), a row may not decode, a
frame may be lost, and the connection may close at any time; the code only logs these.
`failed` records the queries that lost something in this way, and `NothingMissing` says
that the others lose nothing.

A frame goes out with `WriteJSONSafely`, which waits for `uc.Mtx`: `Send` and `SendDone`
are therefore steps after `Row` and `Complete`. `conn` is where the read loop is (reading,
left, or over with its `SafeClose`), and `Pin` takes `uc.Mtx` for good, as `SafeClose` does
after a stuck offer (Signaling) and a write does to a peer that has stopped reading. A poll
whose write meets that never ends; `PollEnds` says that nothing else holds up a poll or one
of its fetches.

The poll of all conversations selects the rows of a user (`Rows`, `RowChat`), and
there may be several for one conversation: `removeUserFromChat` adds a second one
(`chats-map/handlers.go:409`), after which two goroutines fetch that
conversation. A frame carries its query as a history variable, and `OrderedOnce`
says what the client can count on: order and uniqueness within each query, so
that a message arrives at most once per row, and a conversation with one row
arrives in order and without repetition.

### Backend

The handlers that write in transactions, and the life of the process they run
in.

| TLA+ | Code |
|---|---|
| `up` | the process runs; `Start` is what `main` does to MongoDB |
| `pc[r]`, `kind[r]` | where the handler of a request is; `lost` when the process ended under it |
| `writes[r]` | documents its open transaction has written, its increment of the sequence included |
| `db` | committed documents of all collections but the sequence |
| `seeds`, `seqValue`, `seqNum[r]` | seed documents, the first one's committed value, what `IncrementSequence` returned |
| `answer[r]`, `task[r]` | the status code, and the goroutine started for RabbitMQ |
| `transient[r]`, `tries[r]` | that a transient error ended the transaction, and how often `M.DoTrx` has called the critical section |

MongoDB is external and does what the code relies on: a transaction is private
until it commits; a write to a document that another open transaction has
written fails with a transient error; `_id` is unique in a collection; any call
may fail; a commit that reports an error may have taken effect; and a
transaction whose client is gone stays open (and in the way) until the server
ends it (`Expire`). The sequence is the first seed document that
`FindOneAndUpdate` finds: later seeds are inserted by later starts, as no unique
index on `SeqName` is ever created, and never used.

The creation is `IncrementSequence`, `InsertConv`, one `InsertMember` per user
and the commit, then the Kafka topic and the answer (`CreateTopic`). The removal
runs under `session.WithTransaction`, which repeats the callback
(`RetryRemoval`); its answer is always 500, because it uses the nil pool in
the goroutine of the request (`RemovalPanics`). The sign-up goes on whatever its
transaction did (`ignoreTransErr`). The goroutine that creation and sign-up start for
RabbitMQ panics on the nil pool without a recover, which ends the process
(`RabbitTask`).

A document is its collection, its `_id` and the request that wrote it; members
and devices have fresh ids. A refused request, the increment of a missing
sequence and a panic of validation are `Reject` and `Fail`.

### AtomicStore (abstract)

What a client of the writing routes may rely on, without transactions, retries and
restarts: `TakeEffect` stores the documents of a request at once, under a key that no
other effect has and with the next number; `Answer` gives 200 only for what is in
effect, except for the sign-up, which looks at no error; `Crash` loses what is under
way. `Backend` implements it (`ImplementsStore`): `committed` is read off the
database, `open` off the places of the handlers, and `number` hides the number that
a transaction has drawn until it commits. A commit is `Succeed`, a commit whose report is lost
is `SucceedUnheard`, and conflicts, retries, inserts, expiry and abandoned
transactions are stutters. What the module leaves open is what the code does not
promise: that a request answered 500 has not taken effect.

### Lifecycle

`main` from its first line to `select {}`, the goroutines that start the two
servers, the callers of `RunCleanUpFuncs`, the cleanup functions, and the trace
channel of apm.

| TLA+ | Code |
|---|---|
| `main`, `at[s]` | where main and the starter of server `s` are |
| `hooks`, `ran`, `runner` | the registered cleanup functions, those that have returned, the holder of the mutex that is never released |
| `call[c]` | a caller of `RunCleanUpFuncs` and the error it gives |
| `lis[s]`, `client[k]` | listeners and MongoDB clients |
| `req[r]`, `late` | requests in flight, hijacked or over; servers whose `Shutdown` gave up |
| `doomed` | a goroutine is about to use a pool that is nil |
| `apm`, `seen` | the reader of the trace channel, and the identifiers sent lately |

What the model shows of the code: the routes of meta subscribe with a nil Redis pool
when they are mounted (`rest/io/read.go`), so the deployed process ends soon after it
listens (`RoutesEndProcess`, a part of `ProcessEnds`); an upgraded connection is hijacked, and
`http.Server.Shutdown` neither waits for it nor closes it, although `main.go:580`
speaks of closing all existing connections gracefully; when `Serve` returns an error
the process goes on without that server; a start that fails calls `os.Exit(1)`, which
may pre-empt a cleanup under way; the deferred functions of `main` never run, as
`select {}` does not return; the trace channel has no reader after its cleanup
function.

### The other parts

These components share no state with each other in the code. Each is a module of its
own with `Init`, `Next`, `Spec` and its properties. `Parts` composes them: `part` says
which one a behaviour of `PSpec` runs, a step of `PNext` is a step of that one and leaves
the variables of the other nine alone, and the properties of the parts are stated again under
one name each. `MCParts` gives its constants values.

| Module | What it follows | State |
|---|---|---|
| Accounts | requests of login, forgotten and reset password and sign-up over one database | rows, their copies in handlers, row locks of open transactions, mailed tokens |
| Session | one client whose tokens are replaced by responses, or not | clock, request history, expiries, the session in Redis |
| Chain | requests through the middleware, two goroutines each | where both are, layers of the route, values, body, status |
| Gor | the read loop and the ListeningAck function of some connections in the tracker | global mutex, map, timers, monitors |
| Brokers | calls of `GetConnection` on one pool of any kind, with publish and retry | slots, open connections, counter |
| Payload | a request's body through the getters of a handler | value of each key, nil pointers, answer |
| Queries | one call of a helper of MongoDB | context, cursor, rows, channel |
| Frames | the frames of one client, item by item, up to the handler | read loop, goroutine of each item, refused and accepted items, `uc.Mtx` |
| Outbox | a call of `SendMessageOut` or `SendMessageOutToMultipleTopics` | goroutine per broker, per topic; pools; whether RabbitMQ can be reached |
| Bindings | queues of devices next to a creation, a removal and a sign-up with pools | bindings made and under way, shared channel, tasks, rows |

Accounts. Every handler writes a whole row back. An account that was stored with a
capital letter can never log in, because the login looks for the lower-case form.
The handler of a forgotten password removes the password before it sends the mail.
Session. Expiry is not enforced; `GetLoggedInUser` casts to a type that no adapter
stores; `CreateToken` never succeeds; the login signs seconds where the rest counts
milliseconds; and the rate limit never applies (`RateNeverLimited`). Chain. The layers
before a handler are those of its route: user and body for the conversations and for the removal
of a user, the body for the creation of users and topics, none for the others (and the
user alone for `add_user_to_chat`, which mux never matches). `RequestIntact` says that a
handler finds what these have prepared. Brokers. The pools of
RabbitMQ look again under the write lock, the one of MongoDB redials without a second
look, those of Kafka and Redis never reach their redial; the count of the Redis
subscriber's retries is never reset; the closed notification channel of `pool2` makes
its goroutine spin. Gor. The monitoring goroutine never ends, and `CloseOut` waits with the
global mutex when the function has received its own tick. The timers are those of Go 1.23 and
later (`go.mod` asks for 1.24): `Stop` and `Reset` take back a tick that nobody has received.

Payload. Values are what the getters tell apart: strings that are ids, dates or
neither, numbers, arrays of each. Three getters named `Must` pass over an absent
array (`zmap.go:377`), and creation dereferences what it did not get. `EndTime` replaces
the filter of `StartTime`. The readers decode rows and answer an empty list. `addUserToChat` may
store its rows and never answers 200; and its route lacks a slash, so nobody
calls it. `GET /v1/chat_conversations` is mounted on the handler that creates one, and the
reading handlers on no route.

Queries. `MustFindOne` and `FindMany` do not close their cursor, the upserts do not cancel
their context, and the caller of `CursorIterator` waits for ever when `Find` fails.

Frames. Error frames wait for `uc.Mtx`, which may be held for ever (`Pin`, as in Polling). The
read loop writes some of them itself, so the items behind such a one are not taken then;
`ItemsAnswered` names just these as exceptions.

Outbox. `GetConnection` dials RabbitMQ again every three seconds for as long as it is away
(`down`, which `Outage` changes at any time); the topics of Redis and Kafka do not wait for it.
A deferred function that calls `HandlePanic` does not recover, so of the
goroutines without a pool only the one of `SendMessageOut` for Redis survives.

Bindings. A creation answers 200 before it binds anything, over one channel for all its
tasks that is closed when the last one has started. It binds with no-wait
(`conversations/handlers.go:686`): `BindRow` sends the frame, or loses it on a channel that is
closing, and knows nothing more. The broker binds later (`BrokerBinds`), or refuses, which
closes the channel and drops what is under way (`BrokerCloses`); the client learns of it
some time after (`ClientLearns`). `ch.Close` is answered after the frames before it
(`ChannelClosed`). Both queries for devices have a limit of 100 rows and no order (`Page`,
with `Limit`). A removal that comes first unbinds nothing, and a binding under way may land
after it; one whose cursor fails answers 200 for what it has not seen. `BindingsSettle` says
what is left to rely on, with these exceptions.

## Runs

| Run | Instance | Question |
|---|---|---|
| `WSRegistry` | 3 connections, 2 users (one with two devices), 1 conversation, 1 message, 1 new conversation | type, registry and relay invariants, agreement of the maps, order of insert and notice, refinement of ChatRoom, a wedged cleanup freezes the maps |
| `WSDelivery` | 2 connections, one without a conversation; 1 message, 1 new conversation | under fairness frames arrive (`FramesArrive`), an upgraded connection gets to its read loop and a closed one leaves the maps (`RegistryServes`) |
| `WSCleanupWedge` | connections with a conversation, no items | violated: a closed connection leaves the maps |
| `WSMapRace` | 3 connections in one conversation, 1 message | violated: the maps are used under `s.mu` only |
| `Signaling` | 2 offers and a candidate for one call, a close, 2 chat frames | types, no peer connection is ever stored, consequences of a stuck offer, both mutexes serve everything else (`MutexesServe`) |
| `SignalingOffer` | an offer, a candidate, an item without call, 1 chat frame | violated: a new peer connection is stored |
| `Polling` | 2 conversations, 3 rows, 3 messages, limiter of 2 | order and uniqueness, nothing missing without an error, completion last, limiter never blocks, termination unless a write waits for ever |
| `PollingDone` | same | violated: all fetches are over when the completion frame is sent |
| `Backend` | 3 requests of any kind, two for one id, 2 users; at most 2 seeds | refinement of AtomicStore (whole effects or none, before the answer), dense numbers, true answers, one removal ever, handlers end, creations and removals end the process |
| `BackendRetry` | same | violated: a creation that met a transient error was tried twice |
| `Lifecycle` | 1 request of each server, 1 trace identifier | cleanup functions run once and in reverse, a clean exit leaves nothing open, requests keep their client, the cleanup is never stuck half-way (`CleanupGoesOn`), callers end the process, mounted routes end it too |
| `Parts` | the ten parts above, see the bounds below | a safety property of every part, and that what is begun ends (`CallsComplete`) |

Why these bounds are enough to be interesting. Three connections are the fewest
with a sender, a peer, and a third connection that registers or leaves while
the relay of the first runs; two of them belong to one user, so that a user has
a second device. One conversation suffices for the races on its inner map; the
proofs cover any number. A single message suffices because relays of different
messages share nothing but `s.mu`; a notice runs next to it. Two offers of one
call are what it takes for one to wait for the other. A limiter of 2 with 3
rows makes the limiter smaller than the number of fetches, as 5 is in
the code for a user with more than five rows, and two of the rows share a
conversation with two messages, so that its fetches overlap. `Last`, `Cap` and the
sets are the only bounds; no counter grows without end. In Backend three requests
are the fewest for two that conflict and one that runs after a restart; two
of them share an id, so that a duplicate and a conflict on a document other than
the sequence happen, and one has two members, so that a transaction can end
between them. `MaxSeeds` is 2: one seed and one too many. Restarts are not
bounded. The theorems have none of these bounds.

In Lifecycle every caller of the cleanup exists once, as in the code; two requests
are one for each server, which differ in their client. In Parts two
requests of Accounts are the fewest that overwrite each other's row, and the
two addresses are one with a capital letter and its lower-case form; the clock of
Session runs nine ticks, past the window of three and the life of every token, with a history of
two; two requests of Chain share the process; two callers and two slots make a caller
find what another one stored; two connections of Gor share the mutex; a cursor of three
rows is what `MustFindOne` asks for at most; two items are enough for one to be
refused while the other one starts; two topics are enough for an error at one and work at
the other. Bindings has one user, whose creation and removal meet, with three devices and a
`Limit` of two: a query returns some of them, two rows can be at different places (sent, on
the way, bound, lost), and the bad one of `BadRows` (none or one of them) can be among them.
More users only share the channel; the theorem covers any number of both, and any set of bad rows.
Payload goes through every value of every key of every
route.

The runs leave deadlock checking off: in each of them the system stops once every
connection is closed, every item handled and every poll answered, and when the
registry is wedged; so does a process that has ended, and a part whose requests are
answered. That goroutines are not stuck where they should go on is
what the liveness properties say.

### Fairness

A goroutine that can run is run by the Go scheduler: weak fairness of each
goroutine's steps. `sync.Mutex` hands the lock to a waiter that has waited for
more than 1 ms (its starvation mode), so a goroutine that finds `s.mu` free
again and again gets it: strong fairness of the steps that lock `s.mu`.
Nothing is assumed of clients, of the network, or of the arrival of items:
`Upgrade`, `Reject`, `PeerGone`, `CloseFrame`, `Dispatch...`, `StartWrite`,
`ReadEnds`, `SafeClose` of Polling and Frames, and `Pin` have no fairness. An insert or a query returns in the
end, with or without an error: the driver's calls run under a timeout context. In Backend each handler and each
goroutine is weakly fair, and so is `Expire`, as the server bounds the life of a
transaction; the arrival of requests, `Start` and `Killed` are not. In
Lifecycle the cleanup and the goroutine with the nil pool are fair: `Shutdown` gives up
after five seconds, and no other cleanup function waits. In Parts the goroutines of
Accounts, Gor, Queries, Frames and Outbox are, and nothing that a client, a broker or a clock does. A write waits for `uc.Mtx` in Polling and
Frames and is fair only while the mutex is given back; the write of the ListeningAck in Gor
has no fairness at all. That RabbitMQ comes back is a premise of `TopicsReached`
(`<>[]~down`) for the topics of RabbitMQ alone.
The parts about safety only (Session, Chain, Brokers, Payload, Bindings) need none.

### Five disagreements

* `service.go:496`: the cleanup of a connection with a conversation locks
  `s.mu` again in the goroutine that holds it. From then on no connection can
  register, be relayed to, be notified or be cleaned up (`WSCleanupWedge`; that it
  is final is the theorem `WedgeIsFinal`).
* `service.go:1069`: the keys of the inner map are copied after `s.mu` has been
  released (`WSMapRace`). The delivery properties hold because the copy contains
  every connection registered before it.
* `user-ctx.go:410`: a new peer connection is stored under a lock that is held
  already (`SignalingOffer`); `NoCallEverConnects` is the theorem.
* `service.go:2226`: the limiter slot is freed by the callback instead of the
  goroutine it starts (`PollingDone`). `LimiterIsIdle` is the theorem that the
  limiter has no effect.
* `mongo.go:252`: `M.DoTrx` looks for a `*mongo.CommandError` among the errors,
  the driver returns `CommandError` values, and the retry its caller's comment
  speaks of never happens (`BackendRetry`).

Each property of a passing run has a mutant in the module, an operator marked
`Fault`, that a small mistake could turn the action into and that breaks the
property. Some of them are repairs: the property records a consequence of a
defect, so repairing the defect breaks it (`NoCallConnects`,
`LimiterNeverBlocks`, `AtMostOneRemoval`, `WritesEndProcess`, `ProcessEnds`,
`RateNeverLimited`). A property that joins several has a mutant for each that is not
covered elsewhere.

## Proofs

For all values of the constants that satisfy the assumption of the module:
`ConstantsAssumption` (WSService), `SignalingAssumption`, `PollingAssumption`,
`BackendAssumption`, `LifecycleAssumption`, the four of Accounts, and `PartsAssumption`,
which joins those of Session, Brokers and Bindings. They say that functions have their domains and ranges, that markers are
distinct from members, and that bounds are natural numbers; `Size <= MaxConns` (Brokers)
says that a pool can be made at all. Every invariant that a passing run checks is the
statement of a theorem, and so are its refinements and action properties. Liveness is
not; what it rests on and one state can show is: `RelayInv` for `FramesArrive`,
`RegistryInv` for `RegistryServes` (`LockOwner`: the holder of `s.mu` is in the loop of
its registration, or at the second lock of its cleanup), `OnlyStuckOffersBlock` for `MutexesServe`, `LimiterIsIdle` for `PollEnds`,
`CleanupNeverStuck` for `ProcessEnds`, `NeverTwiceOrLost` for `CallsComplete`.

`WSService_proofs`
: `TypeCorrect` first. `RegistryInvariant` is the inductive invariant
  `LockOwner /\ UserEntries /\ ConvEntries`: whose critical section is open, and for
  each map which points of its life a listed connection can be at. `MapsAgree`
  is not inductive: it speaks only of states with `s.mu` free, and from such a state
  says nothing of the connection inside a critical section; it follows from the
  invariant because with `s.mu` free no connection is at `regConvs` or `relock`,
  the two places where the maps differ. `WedgeIsFinal` follows too: at `relock`
  the lock is taken, only its holder changes the maps, and the holder has no
  step. `RelayInvariant` has two halves. `SentOnce` says what the pending sends of a
  message are, which gives at-most-once delivery and excludes the sender.
  `SentToAll` says that no connection the loop has found is left out: it is in the map
  of the conversation, hence upgraded (`ConvEntries`), and its failure or its end, once
  they have happened, stay. With
  `ConvEntriesGrow` (a connection never leaves a conversation, for the reason
  above) a send that runs late still goes to a member. `Implementation` maps every
  step to a step of ChatRoom or to a stutter. `NoticesAreStoredAlways` is
  inductive with the fact that targets exist only after the insert.

`Signaling_proofs`
: `NoCallConnects` is inductive with the types: a peer connection could only be
  stored after `relock`, and `webrtcPCsMtx` is held there and nowhere else.
  `LocksNeverCrossed`, that no handler waits for `Mtx` while it holds `webrtcPCsMtx`,
  and `StuckIsFinal` follow. `OnlyStuckOffersBlock` joins the places at which each
  mutex is held: apart from stuck offers, the only holder at rest is a `SafeClose` that
  waits for `webrtcPCsMtx`, which is free.

`Polling_proofs`
: the slots of the limiter are counted by the place of the goroutine (`held`: 1,
  `fill`: as many as turns of the loop), which gives `PollingTypes` and
  `LimiterIsIdle`: with no other holder left, the loop has room for each of its turns. `OrderedOnce` compares received frames with each other and says
  nothing of the next one; `FramesInv` adds that no cursor is behind what it has
  sent, and `KindInv` that the merged query and the queries per conversation
  never run in one poll. `NothingIsMissing` needs that every message a cursor has passed has
  been received, but the one about to be sent, unless its query has failed; then a query that
  is over with nothing ahead of it has delivered all, and when a poll of named conversations
  completes, its query is over.

`Backend_proofs`
: `NothingPartial` and `SeqNumbersDense` speak of committed documents only, and a
  commit adds documents they say nothing of. The inductive invariant `IInv`
  therefore adds four parts. `InOrder`: where a handler is says what its
  transaction holds, so that a complete one misses nothing (`CompleteIsWhole`).
  `Closed`: a committed document is its request's, and the transaction of that
  request is over, so its number stays (`OverStaysOver`). `KeysExclusive`: no two
  documents with one key in the open transactions and the database, hence at
  most one transaction that has incremented the sequence (`OneIncrement`).
  `Numbered`: that one holds the number after the last. The lemma `Effects` sums up the
  actions in the four things a step can do to transactions and database.
  `StoreImplemented` maps every step to a step of AtomicStore or to a stutter. Of
  the commit, `CommitIsEffect` says that the transaction holds exactly the documents of its
  effect (from `InOrder`), `KeysOfEffects` that its key is new (from
  `KeysExclusive`), `OneIncrement` and `Numbered` that its number is the next one;
  `CommitTakesEffect` joins them. `EffectsStay` covers the steps that leave the
  database alone.
  `Answered` gives `AnsweredIsStored`, and `OneRemoval` follows from the key of
  the empty conversation.

`Lifecycle_proofs`
: `HooksReversed` is inductive with the kinds of steps (`StepKinds`): one appends to
  the list while nobody holds the mutex, or one runs the next function from its end.
  `CleanExitReleases` and `ClientOutlivesServer` need to know who opened what and
  where its starter is: `Ordered` (a starter's functions are in the list in the order
  of its steps), `Released` (a function that has returned has released its
  resource) and `Served`. The lemmas `MainPreserved` to `RequestPreserved` have one
  part each, and `LifecycleInvariant` joins them. `CleanupNeverStuck` adds that the
  reader of the trace channel is there until its own function has returned
  (`ReaderStays`), which happens once, as functions are registered once (`Ordered`), and
  that a registered server has a listener (`ListenerStays`).

`Accounts_proofs`
: `CountBounded` is inductive with a bound of the counters that handlers hold in
  memory (`CopiesBounded`): what a login writes back was bounded when it was read, and
  the wrong passwords only grow.

`Bindings_proofs`
: `BindingsSettle` speaks of work that is over. `Bound` and `Unbound` say the same of
  tasks and removals under way, for the rows they have passed. `Owned`: rows belong to their
  user. `Closing` ties the channel to the goroutine that closes it and to the broker: nothing
  is under way once it is closed, and a task that was over by then has sent what it had. `NotRaced`
  is why a removal before which nothing was under way never meets a binding of its user later: his task is
  over, or its channel is closed, and nothing is pending.

`Parts_proofs`
: one section for each of the eight parts without a module of proofs. In the order of the
  sections:
  Session, `HistoryBounded`: the copy that the loop of `LoadUser` makes is never longer than
  `MaxReqs` (`CopiedIsShort`), whatever the token carries, so the test for more than that
  fails.
  Chain: `RequestIntact` needs what the goroutine of the server has done before it starts the
  second one (`Begun`), that the layers of its route bring a request to where it is, and which
  value each of them has left (`Layered`).
  Gor: the map follows the functions in every step; that only a ListeningAck function wedges
  the mutex needs `ReceivedByAck`, that no other one receives from its timer.
  Brokers: `Unmade` (a pool of RabbitMQ has no watcher, and is not used before it is made);
  then a slot is overwritten by a caller only that found it closed under the write lock
  (`RedialStep`). `TriesBounded` keeps the types of the retries.
  Payload: `PayloadChecked` speaks of a handler that works or has answered 200.
  `Progress` adds what it has read on the way: every key of its route was read well or is
  still to be read. The ids a handler needs are among the keys of its route (`NeedsAreRead`)
  and their getters take an id or fail (`IdsAreStrict`); the only getters named Must that skip
  a key are the three for arrays (`MustIsStrict`). `NilExplained` and `Adding` say which nil
  pointers are met, and that an addition never answers 200.
  Queries: `Returning` says with which of its context, cursor and channel each helper comes to
  its return, `RowsBounded` what is left of its cursor.
  Frames: an item has no goroutine before it is taken (`FrameTaken`) and no answer while its
  goroutine is undecided (`Undecided`).
  Outbox: `OneByOne` says that a topic is in one place on a broker; `Quiet`, in none before
  the call.

: The composition: `PartStep` shows that a step of `PNext` is a step of every part or leaves
  it unchanged, hence `PartsRun`, that `PSpec` implies the specification of every part. What
  is proved of a part by itself therefore holds of `PSpec`: `TypesHold`, `NeverLimited`,
  `RequestsStayIntact`, `ConnectionsKept`, `PayloadsChecked`, `BindingsSettleHere` and
  `NeverTwiceOrLost`, for any length of a frame, of a cursor and of a message's list of topics.
  Bindings is reached through a second instance of its module, with the same substitution,
  and `SameNext` is the step between the two.

Model-checked only: the liveness properties (`FramesArrive`, `RegistryServes`, `MutexesServe`,
`PollEnds`, `HandlersEnd`, `WritesEndProcess`, `ProcessEnds`,
`CallsComplete`), since TLAPS does not do fairness or ENABLED. `NeverTwiceOrLost`
is the part of `CallsComplete` that one state can violate. The violation runs are
counterexamples and have no theorem.

## Not modelled

Logging and statistics; functions without a caller (`handleChatMessageAck`,
`writeToUserTopic`, `writeToConvTopic`, `gracefulShutdown`, `handleNewChatMessage`,
together with their helpers `service.go:1277-1547` and `1852-2022`) or whose body
returns at once (`killOldSubs`); message types that gorilla/websocket never returns from
`ReadMessage` (`service.go:642-660`); the callbacks of peer connections and
data channels, as no peer connection is ever stored. Not called, and therefore not
modelled: `CreateIndexes` and `CreateVibeMongoCollections`, the sample transactions of
`transaction-2.go` and `transaction-3.go`, the job queue of `cursor-job-queue.go`. Health,
sequence, message and Kafka routes are thin wrappers without state. `FilterQueryParamToMap` is
middleware that no route mounts, so no request has its value; the Kafka topic of a new user is
made in a goroutine that only logs its errors (`users/handlers.go:118`). Some 6000 lines are
marshalling generated by easyjson, and the types, configuration, logging, schema and
utility packages hold no state that a property could be about. `PROJECT.json` lists
every component with its reason, and the hazards that no property covers, each
with a note.

## Plan

Done: WSService with ChatRoom, Signaling, Polling, Backend with AtomicStore, Lifecycle and
the ten parts, with the proofs of their safety properties.

Left: Lifecycle and Backend composed, for kills of the process in the middle of a cleanup that
disconnects the client of an open transaction.
