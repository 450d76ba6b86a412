----------------------------- MODULE Lifecycle ------------------------------
(***************************************************************************)
(* The life of the server process: main and the two goroutines it starts,  *)
(* one for the WebSocket server ("wss") and one for the REST server        *)
(* ("rest"), the goroutines that ask for the shutdown (signals, stdin),    *)
(* the list of cleanup functions, and the goroutine of the trace channel.  *)
(*                                                                         *)
(* A cleanup function is named for what it releases; the first one main    *)
(* registers only logs.  RunCleanUpFuncs never gives its mutex back, for   *)
(* it ends the process: runner is the goroutine that holds it.             *)
(* AddCleanupFunc takes the same mutex, and gives it back.                 *)
(*                                                                         *)
(* A request is in flight from the moment its connection is accepted.  A   *)
(* request of the WebSocket server is hijacked by the upgrade, and then    *)
(* http.Server.Shutdown neither waits for it nor closes it.                *)
(***************************************************************************)
EXTENDS Naturals, Sequences

CONSTANTS Requests,  \* requests of clients
          ServerOf,  \* ServerOf[r]: the server request r is for
          Ids,       \* identifiers of traces
          None       \* nobody

Servers == {"wss", "rest"}
Clients == {"mongo", "restMongo"}
Callers == {"main", "wss", "rest", "signal", "stdin"}
Hooks == {"apm", "first"} \cup Clients \cup Servers

\* The MongoDB client that the handlers of a server use.
ClientOf(s) == IF s = "wss" THEN "mongo" ELSE "restMongo"

ASSUME LifecycleAssumption ==
    /\ ServerOf \in [Requests -> Servers]
    /\ None \notin Callers

VARIABLES
    main,    \* where main is
    at,      \* at[s]: where the goroutine that starts server s is
    stdin,   \* lines of stdin are read
    lis,     \* lis[s]: the listener of server s
    client,  \* client[k]: the MongoDB client k
    req,     \* req[r]: what became of request r
    late,    \* servers whose Shutdown gave up after five seconds
    doomed,  \* a goroutine is about to use a pool that is nil
    apm,     \* the goroutine of the trace channel reads it
    seen,    \* identifiers of the traces sent lately
    call,    \* call[c]: the error caller c gives RunCleanUpFuncs, if it calls
    hooks,   \* registered cleanup functions
    runner,  \* the caller that holds the mutex for good
    ran,     \* cleanup functions that have returned
    exit     \* how the process ended

vars == <<main, at, stdin, lis, client, req, late, doomed, apm, seen, call,
          hooks, runner, ran, exit>>

serving == <<lis, client, req, late>>
traces == <<apm, seen>>
shutdown == <<call, runner, ran, exit>>

TypeOK ==
    /\ main \in {"start", "check", "trace", "connect", "ping", "register",
                 "collections", "blocked", "failed"}
    /\ at \in [Servers -> {"none", "connect", "client", "routes", "listen",
                           "register", "serve", "ended", "failed"}]
    /\ stdin \in BOOLEAN
    /\ lis \in [Servers -> {"none", "open", "closed"}]
    /\ client \in [Clients -> {"none", "open", "closed"}]
    /\ req \in [Requests -> {"none", "served", "tracing", "hijacked", "over"}]
    /\ late \subseteq Servers
    /\ doomed \in BOOLEAN
    /\ apm \in BOOLEAN
    /\ seen \subseteq Ids
    /\ call \in [Callers -> {"no", "nil", "err"}]
    /\ hooks \in Seq(Hooks)
    /\ runner \in Callers \cup {None}
    /\ ran \in Seq(Hooks)
    /\ exit \in {"no", "clean", "error", "abrupt", "panic"}

\* The packages are initialised: the trace channel has its goroutine, and the
\* cleanup function that ends it.  main has installed the signal handler.
Init ==
    /\ main = "start"
    /\ at = [s \in Servers |-> "none"]
    /\ stdin = FALSE
    /\ lis = [s \in Servers |-> "none"]
    /\ client = [k \in Clients |-> "none"]
    /\ req = [r \in Requests |-> "none"]
    /\ late = {}
    /\ doomed = FALSE
    /\ apm = TRUE
    /\ seen = {}
    /\ call = [c \in Callers |-> "no"]
    /\ hooks = <<"apm">>
    /\ runner = None
    /\ ran = <<>>
    /\ exit = "no"

-----------------------------------------------------------------------------
(* Cleanup functions. *)

\* Fault: the list is extended without the mutex.
AddCleanupFuncAnyTime(h) == hooks' = Append(hooks, h)

AddCleanupFunc(h) ==
    /\ runner = None
    /\ hooks' = Append(hooks, h)

\* Goroutine c calls RunCleanUpFuncs, which never returns.
Calls(c, err) ==
    /\ call[c] = "no"
    /\ call' = [call EXCEPT ![c] = err]
    /\ UNCHANGED <<runner, ran, exit>>

\* Fault: a caller that finds the cleanup running does not wait for it, and
\* goes on to the os.Exit that follows its call.
LockOrLeave(c) ==
    /\ exit = "no"
    /\ call[c] # "no"
    /\ runner # c
    /\ runner' = IF runner = None THEN c ELSE runner
    /\ exit' = IF runner = None THEN "no" ELSE "error"
    /\ UNCHANGED <<main, at, stdin, serving, doomed, traces, call, hooks, ran>>

Lock(c) ==
    /\ exit = "no"
    /\ call[c] # "no"
    /\ runner = None
    /\ runner' = c
    /\ UNCHANGED <<main, at, stdin, serving, doomed, traces, call, hooks, ran,
                   exit>>

\* Fault: the functions run in the order of their registration.
RunningInOrder == hooks[Len(ran) + 1]

\* The last registered function that has not run.
Running == hooks[Len(hooks) - Len(ran)]

Turn(h) ==
    /\ exit = "no"
    /\ runner # None
    /\ Len(ran) < Len(hooks)
    /\ Running = h

Return(h) == ran' = Append(ran, h)

HookFirst ==
    /\ Turn("first")
    /\ Return("first")
    /\ UNCHANGED <<main, at, stdin, serving, doomed, traces, call, hooks,
                   runner, exit>>

\* Disconnect has no deadline: it closes the connections in use as well.
HookDisconnect(k) ==
    /\ Turn(k)
    /\ client' = [client EXCEPT ![k] = "closed"]
    /\ Return(k)
    /\ UNCHANGED <<main, at, stdin, lis, req, late, doomed, traces, call,
                   hooks, runner, exit>>

HookClose(s) ==
    /\ Turn(s)
    /\ lis[s] = "open"
    /\ lis' = [lis EXCEPT ![s] = "closed"]
    /\ UNCHANGED <<main, at, stdin, client, req, late, doomed, traces,
                   shutdown, hooks>>

InFlight(s) == {r \in Requests : ServerOf[r] = s /\ req[r] \in {"served", "tracing"}}

HookShutdown(s) ==
    /\ Turn(s)
    /\ lis[s] = "closed"
    /\ late' = IF InFlight(s) = {} THEN late ELSE late \cup {s}
    /\ Return(s)
    /\ UNCHANGED <<main, at, stdin, lis, client, req, doomed, traces, call,
                   hooks, runner, exit>>

\* The channel is not buffered: the function waits for its reader.
HookApm ==
    /\ Turn("apm")
    /\ apm
    /\ apm' = FALSE
    /\ Return("apm")
    /\ UNCHANGED <<main, at, stdin, serving, doomed, seen, call, hooks,
                   runner, exit>>

\* Fault: the error decides, whatever the exit status means.
ExitWith ==
    /\ exit = "no"
    /\ runner # None
    /\ Len(ran) = Len(hooks)
    /\ exit' = call[runner]
    /\ UNCHANGED <<main, at, stdin, serving, doomed, traces, call, hooks,
                   runner, ran>>

Exit ==
    /\ exit = "no"
    /\ runner # None
    /\ Len(ran) = Len(hooks)
    /\ exit' = IF call[runner] = "nil" THEN "clean" ELSE "error"
    /\ UNCHANGED <<main, at, stdin, serving, doomed, traces, call, hooks,
                   runner, ran>>

-----------------------------------------------------------------------------
(* main. *)

MainGoes(from, to) ==
    /\ exit = "no"
    /\ main = from
    /\ main' = to

MainFirstHook ==
    /\ MainGoes("start", "check")
    /\ AddCleanupFunc("first")
    /\ UNCHANGED <<at, stdin, serving, doomed, traces, shutdown>>

\* The working directory, go.mod, the directory of the logs, the profile.
MainCheck ==
    /\ MainGoes("check", "trace")
    /\ UNCHANGED <<at, stdin, serving, doomed, traces, hooks, shutdown>>

MainCheckFails ==
    /\ MainGoes("check", "failed")
    /\ Calls("main", "err")
    /\ UNCHANGED <<at, stdin, serving, doomed, traces, hooks>>

\* The traces of main have identifiers of their own: none was sent before.
MainTrace ==
    /\ MainGoes("trace", "connect")
    /\ apm
    /\ UNCHANGED <<at, stdin, serving, doomed, traces, hooks, shutdown>>

MainConnect ==
    /\ MainGoes("connect", "ping")
    /\ client' = [client EXCEPT !["mongo"] = "open"]
    /\ UNCHANGED <<at, stdin, lis, req, late, doomed, traces, hooks, shutdown>>

MainPing ==
    /\ MainGoes("ping", "register")
    /\ UNCHANGED <<at, stdin, serving, doomed, traces, hooks, shutdown>>

MainRegister ==
    /\ MainGoes("register", "collections")
    /\ AddCleanupFunc("mongo")
    /\ UNCHANGED <<at, stdin, serving, doomed, traces, shutdown>>

\* A failure of MongoDB ends the process at once.
MainMongoFails ==
    /\ \E from \in {"connect", "ping", "collections"} : MainGoes(from, "failed")
    /\ exit' = "abrupt"
    /\ UNCHANGED <<at, stdin, serving, doomed, traces, hooks, call, runner,
                   ran>>

\* Both servers are started, and stdin is read when the configuration says so;
\* then main blocks for ever.
MainStart ==
    /\ MainGoes("collections", "blocked")
    /\ at' = [s \in Servers |-> IF s = "wss" THEN "listen" ELSE "connect"]
    /\ stdin' \in BOOLEAN
    /\ UNCHANGED <<serving, doomed, traces, hooks, shutdown>>

-----------------------------------------------------------------------------
(* The goroutines that start the servers. *)

Goes(s, from, to) ==
    /\ exit = "no"
    /\ at[s] = from
    /\ at' = [at EXCEPT ![s] = to]

RestConnect ==
    /\ Goes("rest", "connect", "client")
    /\ client' = [client EXCEPT !["restMongo"] = "open"]
    /\ UNCHANGED <<main, stdin, lis, req, late, doomed, traces, hooks, shutdown>>

RestRegisterClient ==
    /\ Goes("rest", "client", "routes")
    /\ AddCleanupFunc("restMongo")
    /\ UNCHANGED <<main, stdin, serving, doomed, traces, shutdown>>

\* Fault: the subscription is left out when there is no pool.
RestMountChecksPool ==
    /\ Goes("rest", "routes", "listen")
    /\ UNCHANGED <<main, stdin, serving, doomed, traces, hooks, shutdown>>

\* Mounting the meta routes subscribes to a channel of Redis: the goroutine
\* that does so asks the pool for a connection, and main gave nil as the pool.
RestMount ==
    /\ Goes("rest", "routes", "listen")
    /\ doomed' = TRUE
    /\ UNCHANGED <<main, stdin, serving, traces, hooks, shutdown>>

Listen(s) ==
    /\ Goes(s, "listen", "register")
    /\ lis' = [lis EXCEPT ![s] = "open"]
    /\ UNCHANGED <<main, stdin, client, req, late, doomed, traces, hooks,
                   shutdown>>

StartFails(s) ==
    /\ \E from \in {"connect", "listen"} : Goes(s, from, "failed")
    /\ Calls(s, "err")
    /\ UNCHANGED <<main, stdin, serving, doomed, traces, hooks>>

\* A later meta route asks for the working directory, and walking the routes
\* may fail.
RestMountFails ==
    /\ Goes("rest", "routes", "failed")
    /\ doomed' = TRUE
    /\ Calls("rest", "err")
    /\ UNCHANGED <<main, stdin, serving, traces, hooks>>

RegisterServer(s) ==
    /\ Goes(s, "register", "serve")
    /\ AddCleanupFunc(s)
    /\ UNCHANGED <<main, stdin, serving, doomed, traces, shutdown>>

\* Serve returns, with the error of Accept or since the listener is closed, and
\* leaves the listener closed.  The goroutine ends; nobody else learns of it.
ServeReturns(s) ==
    /\ Goes(s, "serve", "ended")
    /\ lis' = [lis EXCEPT ![s] = "closed"]
    /\ UNCHANGED <<main, stdin, client, req, late, doomed, traces, hooks,
                   shutdown>>

-----------------------------------------------------------------------------
(* Those who ask for the shutdown. *)

Signal ==
    /\ exit = "no"
    /\ Calls("signal", "nil")
    /\ UNCHANGED <<main, at, stdin, serving, doomed, traces, hooks>>

\* The command "rs", or the end of stdin.
Stdin ==
    /\ exit = "no"
    /\ stdin
    /\ \E err \in {"nil", "err"} : Calls("stdin", err)
    /\ UNCHANGED <<main, at, stdin, serving, doomed, traces, hooks>>

\* The route of the shutdown answers, and leaves the rest to a goroutine; that
\* one publishes to Redis first, with the pool that is nil.
ShutdownRoute(r) ==
    /\ exit = "no"
    /\ ServerOf[r] = "rest"
    /\ req[r] = "served"
    /\ req' = [req EXCEPT ![r] = "over"]
    /\ doomed' = TRUE
    /\ UNCHANGED <<main, at, stdin, lis, client, late, traces, hooks, shutdown>>

NilPool ==
    /\ exit = "no"
    /\ doomed
    /\ exit' = "panic"
    /\ UNCHANGED <<main, at, stdin, serving, doomed, traces, hooks, call,
                   runner, ran>>

-----------------------------------------------------------------------------
(* Requests and their traces. *)

Handles(r, from, to) ==
    /\ exit = "no"
    /\ req[r] = from
    /\ req' = [req EXCEPT ![r] = to]
    /\ UNCHANGED <<main, at, stdin, lis, client, late, doomed, hooks, shutdown>>

Accept(r) ==
    /\ Handles(r, "none", "served")
    /\ at[ServerOf[r]] = "serve"
    /\ lis[ServerOf[r]] = "open"
    /\ UNCHANGED traces

Upgrade(r) ==
    /\ Handles(r, "served", "hijacked")
    /\ ServerOf[r] = "wss"
    /\ UNCHANGED traces

\* SafeMap.Set: an identifier counts as new when it is not in the map.
SendTrace(r, id) ==
    /\ Handles(r, "served", "tracing")
    /\ id \notin seen
    /\ seen' = seen \cup {id}
    /\ UNCHANGED apm

\* Fault: a trace that cannot be marshalled, or is a duplicate, makes the
\* goroutine of the channel return instead of going on.
TraceTakenOnce(r) ==
    /\ Handles(r, "tracing", "served")
    /\ apm
    /\ apm' \in BOOLEAN
    /\ UNCHANGED seen

TraceTaken(r) ==
    /\ Handles(r, "tracing", "served")
    /\ apm
    /\ UNCHANGED traces

\* An identifier leaves the map when it is full, or after 36 hours.
Forget(id) ==
    /\ exit = "no"
    /\ id \in seen
    /\ seen' = seen \ {id}
    /\ UNCHANGED <<main, at, stdin, serving, doomed, apm, hooks, shutdown>>

Answer(r) ==
    /\ \E from \in {"served", "hijacked"} : Handles(r, from, "over")
    /\ UNCHANGED traces

-----------------------------------------------------------------------------
Start ==
    \/ MainFirstHook \/ MainCheck \/ MainCheckFails \/ MainTrace
    \/ MainConnect \/ MainPing \/ MainRegister \/ MainMongoFails \/ MainStart
    \/ RestConnect \/ RestRegisterClient \/ RestMount \/ RestMountFails
    \/ \E s \in Servers : Listen(s) \/ StartFails(s) \/ RegisterServer(s)

Cleanup ==
    \/ HookFirst \/ HookApm \/ Exit
    \/ \E k \in Clients : HookDisconnect(k)
    \/ \E s \in Servers : HookClose(s) \/ HookShutdown(s)
    \/ \E c \in Callers : Lock(c)

Serve ==
    \/ \E s \in Servers : ServeReturns(s)
    \/ \E r \in Requests :
          \/ ShutdownRoute(r) \/ Accept(r) \/ Upgrade(r) \/ TraceTaken(r)
          \/ Answer(r)
          \/ \E id \in Ids : SendTrace(r, id)
    \/ \E id \in Ids : Forget(id)

Next == Start \/ Cleanup \/ Serve \/ Signal \/ Stdin \/ NilPool

Spec == Init /\ [][Next]_vars

\* Every goroutine that can go on does: Shutdown gives up after five seconds,
\* and nothing else in a cleanup function waits.
FairSpec == Spec /\ WF_vars(Cleanup) /\ WF_vars(NilPool)

-----------------------------------------------------------------------------
\* Cleanup functions run once each, in the reverse order of registration, and
\* the list does not change under the loop that runs them.
HooksReversed ==
    /\ runner = None => ran = <<>>
    /\ Len(ran) <= Len(hooks)
    /\ \A i \in 1..Len(ran) : ran[i] = hooks[Len(hooks) + 1 - i]

\* What is still open when the cleanup has ended the process belongs to a
\* goroutine that waits in AddCleanupFunc to register its release.
CleanExitReleases ==
    exit \in {"clean", "error"} =>
        /\ client["mongo"] = "open" => main \in {"ping", "register"}
        /\ client["restMongo"] = "open" => at["rest"] = "client"
        /\ \A s \in Servers : lis[s] = "open" => at[s] = "register"

\* A request loses its MongoDB client only after the Shutdown of its server
\* gave up waiting for it.
ClientOutlivesServer ==
    \A r \in Requests :
        /\ req[r] \in {"served", "tracing"}
        /\ client[ClientOf(ServerOf[r])] = "closed"
        => ServerOf[r] \in late

\* The cleanup never waits for good half-way: whoever holds its mutex finds the
\* reader of the trace channel when it is the turn of that function, and a
\* listener to close when it is the turn of a server.
CleanupGoesOn ==
    runner # None /\ Len(ran) < Len(hooks) =>
        /\ Running = "apm" => apm
        /\ Running \in Servers => lis[Running] # "none"

\* Whoever asks for the shutdown gets it.
CallersEnd == \A c \in Callers : call[c] # "no" ~> exit # "no"

\* A process that has mounted its routes does not last, though nobody asks it
\* to end: the subscription of the meta routes uses a pool that is nil.
RoutesEndProcess == at["rest"] = "listen" ~> exit # "no"

\* Asked to end or not, a process that got as far as its routes ends.
ProcessEnds == CallersEnd /\ RoutesEndProcess
=============================================================================
