-------------------------- MODULE Lifecycle_proofs --------------------------
(***************************************************************************)
(* Theorems about Lifecycle, for any number of requests and traces.        *)
(***************************************************************************)
EXTENDS Lifecycle, TLAPS

-----------------------------------------------------------------------------
(* Types                                                                   *)

LEMMA TypesPreserved ==
  ASSUME TypeOK, [Next]_vars
  PROVE  TypeOK'
<1> USE LifecycleAssumption
<1> USE DEF Servers, Clients
<1>1. CASE Start
  <2>1. CASE MainFirstHook
    BY <2>1 DEF MainFirstHook, MainGoes, AddCleanupFunc, serving, traces, shutdown, TypeOK, Hooks
  <2>2. CASE MainCheck \/ MainTrace \/ MainPing
    BY <2>2 DEF MainCheck, MainTrace, MainPing, MainGoes, serving, traces, shutdown, TypeOK
  <2>3. CASE MainCheckFails
    BY <2>3 DEF MainCheckFails, MainGoes, Calls, serving, traces, TypeOK
  <2>4. CASE MainConnect
    BY <2>4 DEF MainConnect, MainGoes, traces, shutdown, TypeOK
  <2>5. CASE MainRegister
    BY <2>5 DEF MainRegister, MainGoes, AddCleanupFunc, serving, traces, shutdown, TypeOK, Hooks, Clients
  <2>6. CASE MainMongoFails
    BY <2>6 DEF MainMongoFails, MainGoes, serving, traces, TypeOK
  <2>7. CASE MainStart
    BY <2>7 DEF MainStart, MainGoes, serving, traces, shutdown, TypeOK
  <2>8. CASE RestConnect
    BY <2>8 DEF RestConnect, Goes, traces, shutdown, TypeOK
  <2>13. CASE RestMount
    BY <2>13 DEF RestMount, Goes, serving, traces, shutdown, TypeOK
  <2>9. CASE RestRegisterClient
    BY <2>9 DEF RestRegisterClient, Goes, AddCleanupFunc, serving, traces, shutdown, TypeOK, Hooks, Clients
  <2>10. CASE RestMountFails
    BY <2>10 DEF RestMountFails, Goes, Calls, serving, traces, TypeOK
  <2>11. ASSUME NEW s \in Servers, Listen(s)
         PROVE  TypeOK'
    BY <2>11 DEF Listen, Goes, traces, shutdown, TypeOK
  <2>14. ASSUME NEW s \in Servers, StartFails(s)
         PROVE  TypeOK'
    <3>1. at' \in [Servers -> {"none", "connect", "client", "routes", "listen",
                               "register", "serve", "ended", "failed"}]
      BY <2>14 DEF StartFails, Goes, TypeOK
    <3> QED
      BY <2>14, <3>1 DEF StartFails, Calls, serving, traces, TypeOK
  <2>12. ASSUME NEW s \in Servers, RegisterServer(s)
         PROVE  TypeOK'
    BY <2>12 DEF RegisterServer, AddCleanupFunc, Goes, serving, traces, shutdown, TypeOK, Hooks
  <2> QED
    BY <1>1, <2>1, <2>2, <2>3, <2>4, <2>5, <2>6, <2>7, <2>8, <2>9, <2>10,
       <2>11, <2>12, <2>13, <2>14 DEF Start
<1>2. CASE Cleanup
  <2>1. CASE HookFirst
    BY <2>1 DEF HookFirst, Turn, Return, Hooks, serving, traces, TypeOK
  <2>2. CASE HookApm
    <3>1. ran' \in Seq(Hooks)
      BY <2>2 DEF HookApm, Return, Hooks, TypeOK
    <3> QED
      BY <2>2, <3>1 DEF HookApm, serving, TypeOK
  <2>3. CASE Exit
    BY <2>3 DEF Exit, serving, traces, TypeOK
  <2>4. ASSUME NEW k \in Clients, HookDisconnect(k)
        PROVE  TypeOK'
    BY <2>4 DEF HookDisconnect, Turn, Return, Hooks, traces, TypeOK
  <2>5. ASSUME NEW s \in Servers, HookClose(s)
        PROVE  TypeOK'
    BY <2>5 DEF HookClose, traces, shutdown, TypeOK
  <2>6. ASSUME NEW s \in Servers, HookShutdown(s)
        PROVE  TypeOK'
    BY <2>6 DEF HookShutdown, Turn, Return, Hooks, traces, TypeOK
  <2>7. ASSUME NEW c \in Callers, Lock(c)
        PROVE  TypeOK'
    BY <2>7 DEF Lock, serving, traces, TypeOK
  <2> QED
    BY <1>2, <2>1, <2>2, <2>3, <2>4, <2>5, <2>6, <2>7 DEF Cleanup
<1>3. CASE Serve
  <2>1. ASSUME NEW s \in Servers, ServeReturns(s)
        PROVE  TypeOK'
    BY <2>1 DEF ServeReturns, Goes, traces, shutdown, TypeOK
  <2>2. ASSUME NEW r \in Requests, ShutdownRoute(r)
        PROVE  TypeOK'
    BY <2>2 DEF ShutdownRoute, traces, shutdown, TypeOK
  <2>3. ASSUME NEW r \in Requests,
               Accept(r) \/ Upgrade(r) \/ TraceTaken(r) \/ Answer(r)
        PROVE  TypeOK'
    BY <2>3 DEF Accept, Upgrade, TraceTaken, Answer, Handles, traces, shutdown, TypeOK
  <2>4. ASSUME NEW r \in Requests, NEW id \in Ids, SendTrace(r, id)
        PROVE  TypeOK'
    BY <2>4 DEF SendTrace, Handles, shutdown, TypeOK
  <2>5. ASSUME NEW id \in Ids, Forget(id)
        PROVE  TypeOK'
    BY <2>5 DEF Forget, serving, shutdown, TypeOK
  <2> QED
    BY <1>3, <2>1, <2>2, <2>3, <2>4, <2>5 DEF Serve
<1>4. CASE Signal
  BY <1>4 DEF Signal, Calls, Callers, serving, traces, TypeOK
<1>7. CASE Stdin
  BY <1>7 DEF Stdin, Calls, Callers, serving, traces, TypeOK
<1>5. CASE NilPool
  BY <1>5 DEF NilPool, serving, traces, TypeOK
<1>6. CASE UNCHANGED vars
  BY <1>6 DEF vars, TypeOK
<1> QED
  BY <1>1, <1>2, <1>3, <1>4, <1>5, <1>6, <1>7 DEF Next

\* The state of the process keeps its types.
THEOREM LifecycleTypes == Spec => []TypeOK
<1>1. Init => TypeOK
  <2> SUFFICES ASSUME Init PROVE TypeOK
    OBVIOUS
  <2>1. hooks \in Seq(Hooks) /\ ran \in Seq(Hooks)
    BY DEF Init, Hooks
  <2> QED
    BY <2>1 DEF Init, TypeOK, Servers, Clients
<1>2. TypeOK /\ [Next]_vars => TypeOK'
  BY TypesPreserved
<1> QED
  BY <1>1, <1>2, PTL DEF Spec

-----------------------------------------------------------------------------
(* Cleanup functions                                                       *)

\* Function h is registered; the i-th one registered has returned.
Registered(h) == \E i \in 1..Len(hooks) : hooks[i] = h
Returned(i) == i > Len(hooks) - Len(ran)

\* What a step does to the two lists.
Keeps == UNCHANGED <<hooks, ran>>
Adds(h) == AddCleanupFunc(h) /\ UNCHANGED <<runner, ran, exit>>
Runs(h) == Turn(h) /\ Return(h) /\ UNCHANGED <<hooks, runner, exit>>

LEMMA StepKinds ==
  ASSUME TypeOK, [Next]_vars
  PROVE  /\ Keeps \/ (\E h \in Hooks : Adds(h)) \/ (\E h \in Hooks : Runs(h))
         /\ runner' = None => runner = None
<1> USE LifecycleAssumption DEF Servers, Clients, serving, traces, shutdown,
        Keeps, Adds, Runs
<1>1. CASE Start
  <2>1. CASE MainFirstHook
    BY <2>1 DEF MainFirstHook, Hooks
  <2>2. CASE MainRegister
    BY <2>2 DEF MainRegister, Hooks
  <2>3. CASE RestRegisterClient
    BY <2>3 DEF RestRegisterClient, Hooks
  <2>4. ASSUME NEW s \in Servers, RegisterServer(s)
        PROVE  (\E h \in Hooks : Adds(h)) /\ runner' = runner
    BY <2>4 DEF RegisterServer, Hooks
  <2>5. CASE MainCheck \/ MainCheckFails \/ MainTrace \/ MainConnect \/ MainPing
    BY <2>5 DEF MainCheck, MainCheckFails, MainTrace, MainConnect, MainPing, Calls
  <2>6. CASE MainMongoFails \/ MainStart \/ RestConnect \/ RestMount \/ RestMountFails
    BY <2>6 DEF MainMongoFails, MainStart, RestConnect, RestMount, RestMountFails, Calls
  <2>7. ASSUME NEW s \in Servers, Listen(s) \/ StartFails(s)
        PROVE  Keeps /\ runner' = runner
    BY <2>7 DEF Listen, StartFails, Calls
  <2> QED
    BY <1>1, <2>1, <2>2, <2>3, <2>4, <2>5, <2>6, <2>7 DEF Start
<1>2. CASE Cleanup
  <2>1. CASE HookFirst
    BY <2>1 DEF HookFirst, Hooks
  <2>2. CASE HookApm
    BY <2>2 DEF HookApm, Hooks
  <2>3. CASE Exit
    BY <2>3 DEF Exit
  <2>4. ASSUME NEW k \in Clients, HookDisconnect(k)
        PROVE  (\E h \in Hooks : Runs(h)) /\ runner' = runner
    BY <2>4 DEF HookDisconnect, Hooks
  <2>5. ASSUME NEW s \in Servers, HookClose(s)
        PROVE  Keeps /\ runner' = runner
    BY <2>5 DEF HookClose
  <2>6. ASSUME NEW s \in Servers, HookShutdown(s)
        PROVE  (\E h \in Hooks : Runs(h)) /\ runner' = runner
    BY <2>6 DEF HookShutdown, Hooks
  <2>7. ASSUME NEW c \in Callers, Lock(c)
        PROVE  Keeps /\ runner' # None
    BY <2>7 DEF Lock
  <2> QED
    BY <1>2, <2>1, <2>2, <2>3, <2>4, <2>5, <2>6, <2>7 DEF Cleanup
<1>3. CASE Serve
  BY <1>3 DEF Serve, ServeReturns, ShutdownRoute, Accept, Upgrade, TraceTaken,
              Answer, SendTrace, Forget, Handles
<1>4. CASE Signal \/ Stdin \/ NilPool
  BY <1>4 DEF Signal, Stdin, NilPool, Calls
<1>5. CASE UNCHANGED vars
  BY <1>5 DEF vars
<1> QED
  BY <1>1, <1>2, <1>3, <1>4, <1>5 DEF Next

\* Each function runs once, in its turn.
LEMMA ReversedPreserved ==
  ASSUME TypeOK, HooksReversed, [Next]_vars
  PROVE  HooksReversed'
<1>1. CASE Keeps
  BY <1>1, StepKinds DEF Keeps, HooksReversed, TypeOK
<1>2. ASSUME NEW h \in Hooks, Adds(h)
      PROVE  HooksReversed'
  <2>1. ran' = <<>> /\ Len(ran') = 0
    BY <1>2 DEF Adds, AddCleanupFunc, HooksReversed
  <2>2. Len(hooks') \in Nat
    BY <1>2 DEF Adds, AddCleanupFunc, TypeOK
  <2> QED
    BY <2>1, <2>2 DEF HooksReversed
<1>3. ASSUME NEW h \in Hooks, Runs(h)
      PROVE  HooksReversed'
  <2>1. /\ runner' = runner /\ runner # None /\ hooks' = hooks
        /\ Len(ran) < Len(hooks)
        /\ ran' = Append(ran, hooks[Len(hooks) - Len(ran)])
    BY <1>3 DEF Runs, Turn, Return, Running
  <2>2. Len(ran') = Len(ran) + 1 /\ Len(ran) \in Nat /\ Len(hooks) \in Nat
    BY <2>1 DEF TypeOK
  <2>3. ASSUME NEW i \in 1..Len(ran')
        PROVE  ran'[i] = hooks[Len(hooks) + 1 - i]
    <3>1. CASE i = Len(ran) + 1
      BY <3>1, <2>1, <2>2 DEF TypeOK
    <3>2. CASE i \in 1..Len(ran)
      BY <3>2, <2>1, <2>2 DEF TypeOK, HooksReversed
    <3> QED
      BY <3>1, <3>2, <2>2
  <2> QED
    BY <2>1, <2>2, <2>3 DEF HooksReversed
<1> QED
  BY <1>1, <1>2, <1>3, StepKinds

\* Cleanup functions run once each, in the reverse order of registration.
THEOREM HooksRunReversed == Spec => []HooksReversed
<1>1. Init => HooksReversed
  BY DEF Init, HooksReversed
<1>2. TypeOK /\ HooksReversed /\ [Next]_vars => HooksReversed'
  BY ReversedPreserved
<1> QED
  BY <1>1, <1>2, LifecycleTypes, PTL DEF Spec

-----------------------------------------------------------------------------
(* Resources                                                               *)

\* Where a goroutine is tells what it has registered.
ByStarter ==
    /\ Registered("mongo") => main \in {"collections", "blocked", "failed"}
    /\ Registered("first") => main # "start"
    /\ Registered("restMongo") => at["rest"] \notin {"none", "connect", "client"}
    /\ \A s \in Servers : Registered(s) <=> at[s] \in {"serve", "ended"}
    /\ main \in {"collections", "blocked"} => Registered("mongo")
    /\ at["rest"] \in {"routes", "listen", "register", "serve", "ended"} =>
          Registered("restMongo")
    /\ \A s \in Servers : at[s] # "none" => main = "blocked"

\* What is open is registered, or about to be.
OpenedByStarter ==
    /\ client["mongo"] = "open" =>
          main \in {"ping", "register"} \/ Registered("mongo") \/ exit = "abrupt"
    /\ client["restMongo"] = "open" => at["rest"] = "client" \/ Registered("restMongo")
    /\ \A s \in Servers : lis[s] = "open" => at[s] = "register" \/ Registered(s)

\* Every function is registered once, a server after its client.
Ordered ==
    /\ \A i, j \in 1..Len(hooks) : hooks[i] = hooks[j] => i = j
    /\ \A i \in 1..Len(hooks) : hooks[i] \in Servers =>
          \E j \in 1..(i-1) : hooks[j] = ClientOf(hooks[i])

\* Exactly the functions that have returned have released what they release.
Released ==
    /\ \A k \in Clients : client[k] = "closed" =>
          \E i \in 1..Len(hooks) : hooks[i] = k /\ Returned(i)
    /\ \A i \in 1..Len(hooks) : Returned(i) =>
          /\ hooks[i] \in Clients => client[hooks[i]] = "closed"
          /\ hooks[i] \in Servers =>
                /\ lis[hooks[i]] = "closed"
                /\ InFlight(hooks[i]) # {} => hooks[i] \in late

\* Only a server that serves has requests, and the end comes after the last
\* function.
Served ==
    /\ \A s \in Servers : InFlight(s) # {} => at[s] \in {"serve", "ended"}
    /\ exit \in {"clean", "error"} => Len(ran) = Len(hooks)

Inv ==
    /\ TypeOK
    /\ HooksReversed
    /\ ByStarter
    /\ OpenedByStarter
    /\ Ordered
    /\ Released
    /\ Served

LEMMA KeepsRegistered ==
  ASSUME Keeps
  PROVE  /\ \A h : Registered(h)' <=> Registered(h)
         /\ \A i : Returned(i)' <=> Returned(i)
BY DEF Keeps, Registered, Returned

LEMMA AddsRegistered ==
  ASSUME TypeOK, HooksReversed, NEW h \in Hooks, Adds(h)
  PROVE  /\ \A g : Registered(g)' <=> Registered(g) \/ g = h
         /\ Len(hooks) \in Nat
         /\ Len(hooks') = Len(hooks) + 1
         /\ \A i \in 1..Len(hooks) : hooks'[i] = hooks[i]
         /\ hooks'[Len(hooks) + 1] = h
         /\ \A i \in 1..Len(hooks') : ~ Returned(i)'
         /\ \A i \in 1..Len(hooks) : ~ Returned(i)
<1>1. /\ Len(hooks) \in Nat
      /\ Len(hooks') = Len(hooks) + 1
      /\ \A i \in 1..Len(hooks) : hooks'[i] = hooks[i]
      /\ hooks'[Len(hooks) + 1] = h
  BY DEF Adds, AddCleanupFunc, TypeOK
<1>2. ran = <<>> /\ ran' = <<>>
  BY DEF Adds, AddCleanupFunc, HooksReversed
<1>3. \A i \in 1..Len(hooks') : ~ Returned(i)'
  BY <1>1, <1>2 DEF Returned
<1>4. \A i \in 1..Len(hooks) : ~ Returned(i)
  BY <1>1, <1>2 DEF Returned
<1>5. \A g : Registered(g)' <=> Registered(g) \/ g = h
  BY <1>1 DEF Registered
<1> QED
  BY <1>1, <1>3, <1>4, <1>5

LEMMA RunsRegistered ==
  ASSUME TypeOK, NEW h \in Hooks, Runs(h)
  PROVE  /\ \A g : Registered(g)' <=> Registered(g)
         /\ Len(hooks) - Len(ran) \in 1..Len(hooks)
         /\ hooks[Len(hooks) - Len(ran)] = h
         /\ \A i \in 1..Len(hooks) :
               Returned(i)' <=> Returned(i) \/ i = Len(hooks) - Len(ran)
<1>1. Len(hooks) \in Nat /\ Len(ran) \in Nat /\ Len(ran) < Len(hooks)
  BY DEF Runs, Turn, TypeOK
<1>2. Len(ran') = Len(ran) + 1 /\ hooks' = hooks
  BY DEF Runs, Return, TypeOK
<1>3. hooks[Len(hooks) - Len(ran)] = h
  BY DEF Runs, Turn, Running
<1> QED
  BY <1>1, <1>2, <1>3 DEF Registered, Returned

\* A step that leaves the lists, the requests and the resources alone.
LEMMA QuietStep ==
  ASSUME Inv, TypeOK', HooksReversed', Keeps, UNCHANGED serving,
         ByStarter', exit' \in {"no", "abrupt", "panic"} \/ Len(ran) = Len(hooks),
         \A s \in Servers : at[s] \in {"register", "serve", "ended"} => at'[s] = at[s],
         at["rest"] = "client" => at'["rest"] = "client",
         main \in {"ping", "register"} => main' \in {"ping", "register"} \/ exit' = "abrupt",
         exit = "no"
  PROVE  Inv'
<1> USE DEF Servers, Clients
<1>1. /\ \A h : Registered(h)' <=> Registered(h)
      /\ \A i : Returned(i)' <=> Returned(i)
      /\ hooks' = hooks /\ ran' = ran
  BY KeepsRegistered DEF Keeps
<1>2. \A s : InFlight(s)' = InFlight(s)
  BY DEF serving, InFlight
<1>3. OpenedByStarter'
  BY <1>1 DEF Inv, OpenedByStarter, serving
<1>4. Ordered'
  BY <1>1 DEF Inv, Ordered, ClientOf
<1>5. Released'
  BY <1>1, <1>2 DEF Inv, Released, serving
<1>6. Served'
  BY <1>1, <1>2 DEF Inv, Served
<1> QED
  BY <1>3, <1>4, <1>5, <1>6 DEF Inv

LEMMA MainPreserved ==
  ASSUME Inv, TypeOK', HooksReversed',
         MainCheck \/ MainCheckFails \/ MainTrace \/ MainPing \/ MainMongoFails \/ MainStart
  PROVE  Inv'
<1> USE DEF Servers, Clients
<1>1. /\ Keeps /\ UNCHANGED serving /\ exit = "no"
      /\ exit' \in {"no", "abrupt"}
  BY DEF MainCheck, MainCheckFails, MainTrace, MainPing, MainMongoFails, MainStart, MainGoes,
         Calls, shutdown, Keeps
<1>2. \A h : Registered(h)' <=> Registered(h)
  BY <1>1, KeepsRegistered
<1>3. CASE MainStart
  <2>1. /\ main = "collections" /\ main' = "blocked"
        /\ at' = [s \in Servers |-> IF s = "wss" THEN "listen" ELSE "connect"]
        /\ \A s \in Servers : at[s] = "none"
    BY <1>3 DEF MainStart, MainGoes, Inv, ByStarter
  <2>2. ByStarter'
    BY <2>1, <1>2 DEF Inv, ByStarter
  <2> QED
    BY <1>1, <2>1, <2>2, QuietStep
<1>4. CASE ~ MainStart
  <2>1. /\ at' = at /\ main \notin {"start", "blocked", "failed"}
        /\ main' \notin {"start", "collections", "blocked"}
        /\ main = "ping" => main' = "register" \/ exit' = "abrupt"
        /\ main # "register"
        /\ main = "collections" => main' = "failed"
    BY <1>4 DEF MainCheck, MainCheckFails, MainTrace, MainPing, MainMongoFails, MainGoes
  <2>2. ByStarter'
    BY <2>1, <1>2 DEF Inv, ByStarter
  <2>3. main \in {"ping", "register"} => main' \in {"ping", "register"} \/ exit' = "abrupt"
    BY <2>1
  <2> QED
    BY <1>1, <2>1, <2>2, <2>3, QuietStep
<1> QED
  BY <1>3, <1>4

LEMMA StarterPreserved ==
  ASSUME Inv, TypeOK', HooksReversed', NEW s \in Servers,
         RestMount \/ RestMountFails \/ StartFails(s)
  PROVE  Inv'
<1> USE DEF Servers, Clients
<1>1. /\ Keeps /\ UNCHANGED serving /\ exit = "no" /\ exit' = "no" /\ main' = main
  BY DEF RestMount, RestMountFails, StartFails, Goes, Calls, shutdown, Keeps
<1>2. \A h : Registered(h)' <=> Registered(h)
  BY <1>1, KeepsRegistered
<1>3. PICK t \in Servers, to \in {"listen", "failed"} :
        /\ at[t] \in {"connect", "routes", "listen"}
        /\ at' = [at EXCEPT ![t] = to]
        /\ to = "listen" => at[t] = "routes" /\ t = "rest"
        /\ at[t] = "routes" => t = "rest"
  BY DEF RestMount, RestMountFails, StartFails, Goes
<1>4. \A u \in Servers : at'[u] = IF u = t THEN to ELSE at[u]
  BY <1>3 DEF Inv, TypeOK
<1>5. ByStarter'
  BY <1>1, <1>2, <1>3, <1>4 DEF Inv, ByStarter
<1> QED
  BY <1>1, <1>3, <1>4, <1>5, QuietStep

\* A client or a listener is opened before its release is registered.
LEMMA OpeningPreserved ==
  ASSUME Inv, TypeOK', HooksReversed', NEW s \in Servers,
         MainConnect \/ RestConnect \/ Listen(s)
  PROVE  Inv'
<1> USE DEF Servers, Clients
<1>1. Keeps /\ exit = "no" /\ exit' = "no" /\ req' = req /\ late' = late
  BY DEF MainConnect, RestConnect, Listen, MainGoes, Goes, shutdown, Keeps
<1>2. /\ \A h : Registered(h)' <=> Registered(h)
      /\ \A i : Returned(i)' <=> Returned(i)
      /\ hooks' = hooks /\ ran' = ran
  BY <1>1, KeepsRegistered DEF Keeps
<1>3. \A t : InFlight(t)' = InFlight(t)
  BY <1>1 DEF InFlight
<1>4. Ordered'
  BY <1>2 DEF Inv, Ordered, ClientOf
<1>5. CASE MainConnect
  <2>1. /\ main = "connect" /\ main' = "ping" /\ at' = at /\ lis' = lis
        /\ client' = [client EXCEPT !["mongo"] = "open"]
    BY <1>5 DEF MainConnect, MainGoes
  <2>2. ByStarter'
    BY <2>1, <1>2 DEF Inv, ByStarter
  <2>3. OpenedByStarter'
    BY <2>1, <1>2 DEF Inv, OpenedByStarter, TypeOK
  <2>4. ~ Registered("mongo")
    BY <2>1 DEF Inv, ByStarter
  <2>5. Released'
    BY <2>1, <2>4, <1>1, <1>2, <1>3 DEF Inv, Released, Registered, TypeOK
  <2>6. Served'
    BY <2>1, <1>1, <1>2, <1>3 DEF Inv, Served
  <2> QED
    BY <2>2, <2>3, <2>5, <2>6, <1>4 DEF Inv
<1>6. CASE RestConnect
  <2>1. /\ at["rest"] = "connect" /\ at' = [at EXCEPT !["rest"] = "client"]
        /\ main' = main /\ lis' = lis
        /\ client' = [client EXCEPT !["restMongo"] = "open"]
    BY <1>6 DEF RestConnect, Goes
  <2>2. ByStarter'
    BY <2>1, <1>2 DEF Inv, ByStarter, TypeOK
  <2>7. /\ client'["restMongo"] = "open" /\ client'["mongo"] = client["mongo"]
        /\ at'["rest"] = "client" /\ at'["wss"] = at["wss"]
    BY <2>1 DEF Inv, TypeOK
  <2>3. OpenedByStarter'
    BY <2>1, <2>7, <1>1, <1>2 DEF Inv, OpenedByStarter
  <2>4. \A i \in 1..Len(hooks) : hooks[i] # "restMongo"
    BY <2>1 DEF Inv, ByStarter, Registered
  <2>5. Released'
    BY <2>1, <2>4, <2>7, <1>1, <1>2, <1>3 DEF Inv, Released
  <2>6. Served'
    BY <2>1, <1>1, <1>2, <1>3 DEF Inv, Served, TypeOK
  <2> QED
    BY <2>2, <2>3, <2>5, <2>6, <1>4 DEF Inv
<1>7. CASE Listen(s)
  <2>1. /\ at[s] = "listen" /\ at' = [at EXCEPT ![s] = "register"]
        /\ main' = main /\ client' = client
        /\ lis' = [lis EXCEPT ![s] = "open"]
    BY <1>7 DEF Listen, Goes
  <2>2. ByStarter'
    BY <2>1, <1>2 DEF Inv, ByStarter, TypeOK
  <2>3. OpenedByStarter'
    BY <2>1, <1>1, <1>2 DEF Inv, OpenedByStarter, TypeOK
  <2>4. ~ Registered(s)
    BY <2>1 DEF Inv, ByStarter
  <2>5. Released'
    BY <2>1, <2>4, <1>1, <1>2, <1>3 DEF Inv, Released, Registered, TypeOK
  <2>6. Served'
    BY <2>1, <1>1, <1>2, <1>3 DEF Inv, Served, TypeOK
  <2> QED
    BY <2>2, <2>3, <2>5, <2>6, <1>4 DEF Inv
<1> QED
  BY <1>5, <1>6, <1>7

\* A listener is closed by the return of Serve, or by its cleanup function.
LEMMA ClosingPreserved ==
  ASSUME Inv, TypeOK', HooksReversed', NEW s \in Servers,
         ServeReturns(s) \/ HookClose(s)
  PROVE  Inv'
<1> USE DEF Servers, Clients
<1>1. /\ Keeps /\ exit = "no" /\ exit' = "no" /\ UNCHANGED <<main, client, req, late>>
      /\ lis' = [lis EXCEPT ![s] = "closed"]
      /\ at' = at \/ (at[s] = "serve" /\ at' = [at EXCEPT ![s] = "ended"])
  BY DEF ServeReturns, HookClose, Goes, Turn, shutdown, Keeps
<1>2. /\ \A h : Registered(h)' <=> Registered(h)
      /\ \A i : Returned(i)' <=> Returned(i)
      /\ hooks' = hooks /\ ran' = ran
  BY <1>1, KeepsRegistered DEF Keeps
<1>3. \A t : InFlight(t)' = InFlight(t)
  BY <1>1 DEF InFlight
<1>4. \A t \in Servers : at'[t] = at[t] \/ (at[t] = "serve" /\ at'[t] = "ended")
  BY <1>1 DEF Inv, TypeOK
<1>5. ByStarter'
  BY <1>1, <1>2, <1>4 DEF Inv, ByStarter
<1>6. OpenedByStarter'
  BY <1>1, <1>2, <1>4 DEF Inv, OpenedByStarter, TypeOK
<1>7. Ordered'
  BY <1>2 DEF Inv, Ordered, ClientOf
<1>8. Released'
  BY <1>1, <1>2, <1>3 DEF Inv, Released, TypeOK
<1>9. Served'
  BY <1>1, <1>2, <1>3, <1>4 DEF Inv, Served
<1> QED
  BY <1>5, <1>6, <1>7, <1>8, <1>9 DEF Inv

\* The registration of a function that was not, a server's after its client's.
LEMMA RegistrationStep ==
  ASSUME Inv, NEW h \in Hooks, Adds(h), UNCHANGED serving, ~ Registered(h),
         h \in Servers => Registered(ClientOf(h))
  PROVE  Ordered' /\ Released'
<1>1. /\ \A g : Registered(g)' <=> Registered(g) \/ g = h
      /\ Len(hooks) \in Nat
      /\ Len(hooks') = Len(hooks) + 1
      /\ \A i \in 1..Len(hooks) : hooks'[i] = hooks[i]
      /\ hooks'[Len(hooks) + 1] = h
      /\ \A i \in 1..Len(hooks') : ~ Returned(i)'
      /\ \A i \in 1..Len(hooks) : ~ Returned(i)
  BY AddsRegistered DEF Inv
<1>2. \A i \in 1..Len(hooks) : hooks[i] # h
  BY DEF Registered
<1>3. \A i, j \in 1..Len(hooks') : hooks'[i] = hooks'[j] => i = j
  BY <1>1, <1>2 DEF Inv, Ordered
<1>4. ASSUME NEW i \in 1..Len(hooks'), hooks'[i] \in Servers
      PROVE  \E j \in 1..(i-1) : hooks'[j] = ClientOf(hooks'[i])
  <2>1. CASE i \in 1..Len(hooks)
    <3>1. PICK j \in 1..(i-1) : hooks[j] = ClientOf(hooks[i])
      BY <2>1, <1>1, <1>4 DEF Inv, Ordered
    <3> QED
      BY <3>1, <2>1, <1>1
  <2>2. CASE i = Len(hooks) + 1
    <3>1. PICK j \in 1..Len(hooks) : hooks[j] = ClientOf(h)
      BY <2>2, <1>1, <1>4 DEF Registered
    <3> QED
      BY <3>1, <2>2, <1>1
  <2> QED
    BY <2>1, <2>2, <1>1
<1>5. Ordered'
  BY <1>3, <1>4 DEF Ordered, ClientOf
<1>6. \A k \in Clients : client'[k] # "closed"
  BY <1>1 DEF Inv, Released, serving
<1>7. Released'
  BY <1>1, <1>6 DEF Released
<1> QED
  BY <1>5, <1>7

LEMMA RegistrationPreserved ==
  ASSUME Inv, TypeOK', HooksReversed', NEW s \in Servers,
         MainFirstHook \/ MainRegister \/ RestRegisterClient \/ RegisterServer(s)
  PROVE  Inv'
<1> USE DEF Servers, Clients
<1>1. UNCHANGED serving /\ exit = "no" /\ exit' = "no"
  BY DEF MainFirstHook, MainRegister, RestRegisterClient, RegisterServer, MainGoes, Goes, shutdown
<1>2. \A t : InFlight(t)' = InFlight(t)
  BY <1>1 DEF InFlight, serving
<1>3. ASSUME NEW h \in Hooks, Adds(h), ~ Registered(h),
             h \in Servers => Registered(ClientOf(h)),
             ByStarter', OpenedByStarter',
             \A t \in Servers : at[t] \in {"serve", "ended"} => at'[t] \in {"serve", "ended"}
      PROVE  Inv'
  <2>1. Served'
    BY <1>1, <1>2, <1>3 DEF Inv, Served
  <2> QED
    BY <1>1, <1>3, <2>1, RegistrationStep DEF Inv
<1>4. CASE MainFirstHook
  <2>1. /\ Adds("first") /\ "first" \in Hooks /\ main = "start" /\ main' = "check" /\ at' = at
    BY <1>4 DEF MainFirstHook, MainGoes, Adds, Hooks, shutdown
  <2>2. \A g : Registered(g)' <=> Registered(g) \/ g = "first"
    BY <2>1, AddsRegistered DEF Inv
  <2>3. ~ Registered("first") /\ "first" \notin Servers
    BY <2>1 DEF Inv, ByStarter
  <2>4. ByStarter'
    BY <2>1, <2>2 DEF Inv, ByStarter
  <2>5. OpenedByStarter'
    BY <2>1, <2>2, <1>1 DEF Inv, OpenedByStarter, serving
  <2> QED
    BY <2>1, <2>3, <2>4, <2>5, <1>3
<1>5. CASE MainRegister
  <2>1. /\ Adds("mongo") /\ "mongo" \in Hooks /\ main = "register" /\ main' = "collections"
        /\ at' = at
    BY <1>5 DEF MainRegister, MainGoes, Adds, Hooks, shutdown
  <2>2. \A g : Registered(g)' <=> Registered(g) \/ g = "mongo"
    BY <2>1, AddsRegistered DEF Inv
  <2>3. ~ Registered("mongo") /\ "mongo" \notin Servers
    BY <2>1 DEF Inv, ByStarter
  <2>4. ByStarter'
    BY <2>1, <2>2 DEF Inv, ByStarter
  <2>5. OpenedByStarter'
    BY <2>1, <2>2, <1>1 DEF Inv, OpenedByStarter, serving
  <2> QED
    BY <2>1, <2>3, <2>4, <2>5, <1>3
<1>6. CASE RestRegisterClient
  <2>1. /\ Adds("restMongo") /\ "restMongo" \in Hooks /\ main' = main
        /\ at["rest"] = "client" /\ at'["rest"] = "routes" /\ at'["wss"] = at["wss"]
    BY <1>6 DEF RestRegisterClient, Goes, Adds, Hooks, shutdown, Inv, TypeOK
  <2>2. \A g : Registered(g)' <=> Registered(g) \/ g = "restMongo"
    BY <2>1, AddsRegistered DEF Inv
  <2>3. ~ Registered("restMongo") /\ "restMongo" \notin Servers
    BY <2>1 DEF Inv, ByStarter
  <2>4. ByStarter'
    BY <2>1, <2>2 DEF Inv, ByStarter
  <2>5. OpenedByStarter'
    BY <2>1, <2>2, <1>1 DEF Inv, OpenedByStarter, serving
  <2> QED
    BY <2>1, <2>3, <2>4, <2>5, <1>3
<1>7. CASE RegisterServer(s)
  <2>1. /\ Adds(s) /\ s \in Hooks /\ main' = main /\ at[s] = "register"
        /\ \A t \in Servers : at'[t] = IF t = s THEN "serve" ELSE at[t]
    BY <1>7 DEF RegisterServer, Goes, Adds, Hooks, shutdown, Inv, TypeOK
  <2>2. \A g : Registered(g)' <=> Registered(g) \/ g = s
    BY <2>1, AddsRegistered DEF Inv
  <2>3. ~ Registered(s) /\ Registered(ClientOf(s))
    BY <2>1 DEF Inv, ByStarter, ClientOf
  <2>4. ByStarter'
    BY <2>1, <2>2 DEF Inv, ByStarter
  <2>5. OpenedByStarter'
    BY <2>1, <2>2, <1>1 DEF Inv, OpenedByStarter, serving
  <2> QED
    BY <2>1, <2>3, <2>4, <2>5, <1>3
<1> QED
  BY <1>4, <1>5, <1>6, <1>7

\* A cleanup function returns: it has released what it is named for.
LEMMA ReturnPreserved ==
  ASSUME Inv, TypeOK', HooksReversed', NEW k \in Clients, NEW s \in Servers,
         HookFirst \/ HookApm \/ HookDisconnect(k) \/ HookShutdown(s)
  PROVE  Inv'
<1> USE DEF Servers, Clients
<1>1. PICK h \in Hooks :
        /\ Runs(h)
        /\ UNCHANGED <<main, at, lis, req>>
        /\ exit = "no" /\ exit' = "no"
        /\ \A c \in Clients : client'[c] = IF c = h THEN "closed" ELSE client[c]
        /\ h \in Servers => lis[h] = "closed" /\ (InFlight(h) # {} => h \in late')
        /\ late \subseteq late'
  <2>1. CASE HookFirst
    <3>1. Runs("first") /\ "first" \in Hooks /\ "first" \notin Servers \cup Clients
      BY <2>1 DEF HookFirst, Runs, Hooks
    <3> QED
      BY <2>1, <3>1 DEF HookFirst, Turn, serving
  <2>2. CASE HookApm
    <3>1. Runs("apm") /\ "apm" \in Hooks /\ "apm" \notin Servers \cup Clients
      BY <2>2 DEF HookApm, Runs, Hooks
    <3> QED
      BY <2>2, <3>1 DEF HookApm, Turn, serving
  <2>3. CASE HookDisconnect(k)
    <3>1. Runs(k) /\ k \in Hooks /\ k \notin Servers
      BY <2>3 DEF HookDisconnect, Runs, Hooks
    <3> QED
      BY <2>3, <3>1 DEF HookDisconnect, Turn, Inv, TypeOK
  <2>4. CASE HookShutdown(s)
    <3>1. Runs(s) /\ s \in Hooks /\ s \notin Clients
      BY <2>4 DEF HookShutdown, Runs, Hooks
    <3>2. /\ UNCHANGED <<main, at, lis, req, client>> /\ exit = "no" /\ exit' = "no"
          /\ lis[s] = "closed"
          /\ late' = IF InFlight(s) = {} THEN late ELSE late \cup {s}
      BY <2>4 DEF HookShutdown, Turn
    <3> QED
      BY <3>1, <3>2
  <2> QED
    BY <2>1, <2>2, <2>3, <2>4
<1> DEFINE n == Len(hooks) - Len(ran)
<1>2. /\ \A g : Registered(g)' <=> Registered(g)
      /\ n \in 1..Len(hooks)
      /\ hooks[n] = h
      /\ \A i \in 1..Len(hooks) : Returned(i)' <=> Returned(i) \/ i = n
      /\ hooks' = hooks
  BY <1>1, RunsRegistered DEF Inv, Runs
<1>3. \A t : InFlight(t)' = InFlight(t)
  BY <1>1 DEF InFlight
<1> HIDE DEF n
<1>4. ByStarter'
  BY <1>1, <1>2 DEF Inv, ByStarter
<1>5. OpenedByStarter'
  BY <1>1, <1>2 DEF Inv, OpenedByStarter
<1>6. Ordered'
  BY <1>2 DEF Inv, Ordered, ClientOf
<1>7. ASSUME NEW c \in Clients, client'[c] = "closed"
      PROVE  \E i \in 1..Len(hooks) : hooks[i] = c /\ Returned(i)'
  BY <1>1, <1>2, <1>7 DEF Inv, Released
<1>8. ASSUME NEW i \in 1..Len(hooks), Returned(i)'
      PROVE  /\ hooks[i] \in Clients => client'[hooks[i]] = "closed"
             /\ hooks[i] \in Servers =>
                   /\ lis'[hooks[i]] = "closed"
                   /\ InFlight(hooks[i]) # {} => hooks[i] \in late'
  BY <1>1, <1>2, <1>8 DEF Inv, Released
<1>9. Released'
  BY <1>2, <1>3, <1>7, <1>8 DEF Released
<1>10. Served'
  BY <1>1, <1>3 DEF Inv, Served
<1> QED
  BY <1>4, <1>5, <1>6, <1>9, <1>10 DEF Inv

\* The remaining steps of the shutdown, and those about nothing but traces.
LEMMA ShutdownPreserved ==
  ASSUME Inv, TypeOK', HooksReversed', NEW c, NEW id,
         Exit \/ Lock(c) \/ Signal \/ Stdin \/ NilPool \/ Forget(id)
  PROVE  Inv'
<1>1. /\ Keeps /\ UNCHANGED serving /\ UNCHANGED <<main, at>> /\ exit = "no"
      /\ exit' \in {"no", "abrupt", "panic"} \/ Len(ran) = Len(hooks)
  BY DEF Exit, Lock, Signal, Stdin, NilPool, Forget, Calls, shutdown, Keeps
<1>2. ByStarter'
  BY <1>1, KeepsRegistered DEF Inv, ByStarter
<1> QED
  BY <1>1, <1>2, QuietStep

LEMMA RequestPreserved ==
  ASSUME Inv, TypeOK', HooksReversed', NEW r \in Requests, NEW id,
         ShutdownRoute(r) \/ Accept(r) \/ Upgrade(r) \/ TraceTaken(r) \/ Answer(r)
           \/ SendTrace(r, id)
  PROVE  Inv'
<1> USE LifecycleAssumption DEF Servers, Clients
<1>1. /\ Keeps /\ exit = "no" /\ exit' = "no" /\ UNCHANGED <<main, at, lis, client, late>>
  BY DEF ShutdownRoute, Accept, Upgrade, TraceTaken, Answer, SendTrace, Handles, shutdown, Keeps
<1>2. /\ \A h : Registered(h)' <=> Registered(h)
      /\ \A i : Returned(i)' <=> Returned(i)
      /\ hooks' = hooks /\ ran' = ran
  BY <1>1, KeepsRegistered DEF Keeps
<1>3. ByStarter' /\ OpenedByStarter' /\ Ordered'
  BY <1>1, <1>2 DEF Inv, ByStarter, OpenedByStarter, Ordered, ClientOf
<1>4. \A s \in Servers : InFlight(s)' # {} =>
        InFlight(s) # {} \/ (at[s] = "serve" /\ lis[s] = "open")
  <2>1. CASE Accept(r)
    BY <2>1 DEF Accept, Handles, InFlight, Inv, TypeOK
  <2>2. CASE ~ Accept(r)
    BY <2>2 DEF ShutdownRoute, Upgrade, TraceTaken, Answer, SendTrace, Handles, InFlight, Inv, TypeOK
  <2> QED
    BY <2>1, <2>2
<1>5. Released'
  BY <1>1, <1>2, <1>4 DEF Inv, Released
<1>6. Served'
  BY <1>1, <1>2, <1>4 DEF Inv, Served
<1> QED
  BY <1>3, <1>5, <1>6 DEF Inv

LEMMA InvPreserved ==
  ASSUME Inv, [Next]_vars
  PROVE  Inv'
<1>1. TypeOK' /\ HooksReversed'
  BY TypesPreserved, ReversedPreserved DEF Inv
<1>2. CASE Start
  BY <1>1, <1>2, MainPreserved, StarterPreserved, OpeningPreserved, RegistrationPreserved
     DEF Start, Servers
<1>3. CASE Cleanup
  BY <1>1, <1>3, ReturnPreserved, ClosingPreserved, ShutdownPreserved
     DEF Cleanup, Servers, Clients
<1>4. CASE Serve
  BY <1>1, <1>4, ClosingPreserved, ShutdownPreserved, RequestPreserved DEF Serve
<1>5. CASE Signal \/ Stdin \/ NilPool
  BY <1>1, <1>5, ShutdownPreserved
<1>6. CASE UNCHANGED vars
  <2>1. /\ Keeps /\ UNCHANGED <<main, at, lis, client, req, late, exit>>
    BY <1>6 DEF vars, Keeps
  <2>2. /\ \A h : Registered(h)' <=> Registered(h)
        /\ \A i : Returned(i)' <=> Returned(i)
        /\ hooks' = hooks /\ ran' = ran
    BY <2>1, KeepsRegistered DEF Keeps
  <2>3. \A s : InFlight(s)' = InFlight(s)
    BY <2>1 DEF InFlight
  <2> QED
    BY <1>1, <2>1, <2>2, <2>3 DEF Inv, ByStarter, OpenedByStarter, Ordered, Released, Served, ClientOf
<1> QED
  BY <1>2, <1>3, <1>4, <1>5, <1>6 DEF Next

LEMMA InvInit ==
  ASSUME Init
  PROVE  Inv
<1> USE DEF Servers, Clients
<1>1. TypeOK
  <2>1. hooks \in Seq(Hooks) /\ ran \in Seq(Hooks)
    BY DEF Init, Hooks
  <2> QED
    BY <2>1, LifecycleAssumption DEF Init, TypeOK
<1>2. /\ Len(hooks) = 1 /\ hooks[1] = "apm" /\ Len(ran) = 0
      /\ \A i \in 1..Len(hooks) : i = 1 /\ ~ Returned(i)
  BY DEF Init, Returned
<1>3. \A h : Registered(h) <=> h = "apm"
  BY <1>2 DEF Registered
<1>4. \A s \in Servers : InFlight(s) = {}
  BY DEF Init, InFlight
<1>5. HooksReversed /\ Ordered /\ Released
  BY <1>2 DEF Init, HooksReversed, Ordered, Released
<1>6. ByStarter /\ OpenedByStarter /\ Served
  BY <1>3, <1>4 DEF Init, ByStarter, OpenedByStarter, Served
<1> QED
  BY <1>1, <1>5, <1>6 DEF Inv

LEMMA LifecycleInvariant == Spec => []Inv
<1>1. Init => Inv
  BY InvInit
<1>2. Inv /\ [Next]_vars => Inv'
  BY InvPreserved
<1> QED
  BY <1>1, <1>2, PTL DEF Spec

\* What the end by cleanup leaves open belongs to a starter that had not yet
\* registered its release.
THEOREM CleanExitIsComplete == Spec => []CleanExitReleases
<1> USE DEF Servers, Clients
<1>1. Inv => CleanExitReleases
  <2> SUFFICES ASSUME Inv, exit \in {"clean", "error"}
               PROVE  /\ client["mongo"] = "open" => main \in {"ping", "register"}
                      /\ client["restMongo"] = "open" => at["rest"] = "client"
                      /\ \A s \in Servers : lis[s] = "open" => at[s] = "register"
    BY DEF CleanExitReleases
  <2>1. \A i \in 1..Len(hooks) : Returned(i)
    BY DEF Inv, Served, Returned, TypeOK
  <2>2. /\ \A k \in Clients : Registered(k) => client[k] = "closed"
        /\ \A s \in Servers : Registered(s) => lis[s] = "closed"
    BY <2>1 DEF Inv, Released, Registered
  <2> QED
    BY <2>2 DEF Inv, OpenedByStarter
<1> QED
  BY <1>1, LifecycleInvariant, PTL

\* A request in flight loses its client only when Shutdown stopped waiting.
THEOREM RequestsKeepTheirClient == Spec => []ClientOutlivesServer
<1> USE LifecycleAssumption DEF Servers, Clients
<1>1. Inv => ClientOutlivesServer
  <2> SUFFICES ASSUME Inv, NEW r \in Requests, req[r] \in {"served", "tracing"},
                      client[ClientOf(ServerOf[r])] = "closed"
               PROVE  ServerOf[r] \in late
    BY DEF ClientOutlivesServer
  <2> DEFINE s == ServerOf[r]
  <2>1. s \in Servers /\ ClientOf(s) \in Clients /\ InFlight(s) # {}
    BY DEF ClientOf, InFlight
  <2>2. PICK j \in 1..Len(hooks) : hooks[j] = s
    BY <2>1 DEF Inv, Served, ByStarter, Registered
  <2>3. PICK i \in 1..Len(hooks) : hooks[i] = ClientOf(s) /\ Returned(i)
    BY <2>1 DEF Inv, Released
  <2>4. PICK m \in 1..(j-1) : hooks[m] = ClientOf(s)
    BY <2>1, <2>2 DEF Inv, Ordered
  <2>5. Len(hooks) \in Nat /\ Len(ran) \in Nat
    BY DEF Inv, TypeOK
  <2>6. m = i
    BY <2>3, <2>4, <2>5 DEF Inv, Ordered
  <2>7. Returned(j)
    BY <2>3, <2>4, <2>5, <2>6 DEF Returned
  <2> QED
    BY <2>1, <2>2, <2>7 DEF Inv, Released
<1> QED
  BY <1>1, LifecycleInvariant, PTL

-----------------------------------------------------------------------------
(* The cleanup goes on                                                     *)

\* The goroutine of the trace channel reads until its cleanup function ends it,
\* and a server that has listened keeps a listener, open or closed.
ReaderStays == apm \/ \E i \in 1..Len(hooks) : hooks[i] = "apm" /\ Returned(i)
Listened(s) == at[s] \in {"register", "serve", "ended"}
ListenerStays == \A s \in Servers : Listened(s) => lis[s] # "none"

\* Only its own cleanup function ends the goroutine of the trace channel.
LEMMA ReaderSteps ==
  ASSUME [Next]_vars
  PROVE  apm' = apm \/ HookApm
<1> USE DEF traces
<1>1. CASE Start
  BY <1>1 DEF Start, MainFirstHook, MainCheck, MainCheckFails, MainTrace, MainConnect,
              MainPing, MainRegister, MainMongoFails, MainStart, RestConnect,
              RestRegisterClient, RestMount, RestMountFails, Listen, StartFails,
              RegisterServer
<1>2. CASE Cleanup
  BY <1>2 DEF Cleanup, HookFirst, Exit, HookDisconnect, HookClose, HookShutdown, Lock
<1>3. CASE Serve
  BY <1>3 DEF Serve, ServeReturns, ShutdownRoute, Accept, Upgrade, TraceTaken,
              Answer, SendTrace, Forget
<1>4. CASE Signal \/ Stdin \/ NilPool
  BY <1>4 DEF Signal, Stdin, NilPool
<1>5. CASE UNCHANGED vars
  BY <1>5 DEF vars
<1> QED
  BY <1>1, <1>2, <1>3, <1>4, <1>5 DEF Next

\* A server gets its listener on the way to its registration, and keeps it.
LEMMA ListenerSteps ==
  ASSUME TypeOK, [Next]_vars, NEW s \in Servers
  PROVE  /\ lis'[s] = lis[s] \/ lis'[s] # "none"
         /\ Listened(s)' => Listened(s) \/ lis'[s] # "none"
<1> USE DEF serving, Servers, Listened
<1>1. CASE Start
  <2>1. CASE MainStart
    BY <2>1 DEF MainStart
  <2>2. CASE RestConnect \/ RestRegisterClient \/ RestMount \/ RestMountFails
    BY <2>2 DEF RestConnect, RestRegisterClient, RestMount, RestMountFails, Goes, TypeOK
  <2>3. ASSUME NEW t \in Servers, Listen(t) \/ StartFails(t) \/ RegisterServer(t)
        PROVE  /\ lis'[s] = lis[s] \/ lis'[s] # "none"
               /\ Listened(s)' => Listened(s) \/ lis'[s] # "none"
    <3>1. CASE Listen(t)
      BY <3>1 DEF Listen, Goes, TypeOK
    <3>2. CASE StartFails(t)
      BY <3>2 DEF StartFails, Goes, TypeOK
    <3>3. CASE RegisterServer(t)
      BY <3>3 DEF RegisterServer, Goes, TypeOK
    <3> QED
      BY <2>3, <3>1, <3>2, <3>3
  <2>4. CASE \/ MainFirstHook \/ MainCheck \/ MainCheckFails \/ MainTrace
             \/ MainConnect \/ MainPing \/ MainRegister \/ MainMongoFails
    BY <2>4 DEF MainFirstHook, MainCheck, MainCheckFails, MainTrace, MainConnect,
                MainPing, MainRegister, MainMongoFails
  <2> QED
    BY <1>1, <2>1, <2>2, <2>3, <2>4 DEF Start
<1>2. CASE Cleanup
  <2>1. ASSUME NEW t \in Servers, HookClose(t)
        PROVE  at' = at /\ (lis'[s] = lis[s] \/ lis'[s] # "none")
    BY <2>1 DEF HookClose, TypeOK
  <2> QED
    BY <1>2, <2>1 DEF Cleanup, HookFirst, HookApm, Exit, HookDisconnect, HookShutdown, Lock
<1>3. CASE Serve
  <2>1. ASSUME NEW t \in Servers, ServeReturns(t)
        PROVE  /\ lis'[s] = lis[s] \/ lis'[s] # "none"
               /\ Listened(s)' => Listened(s)
    BY <2>1 DEF ServeReturns, Goes, TypeOK
  <2> QED
    BY <1>3, <2>1 DEF Serve, ShutdownRoute, Accept, Upgrade, TraceTaken, Answer,
                      SendTrace, Forget, Handles
<1>4. CASE Signal \/ Stdin \/ NilPool
  BY <1>4 DEF Signal, Stdin, NilPool
<1>5. CASE UNCHANGED vars
  BY <1>5 DEF vars
<1> QED
  BY <1>1, <1>2, <1>3, <1>4, <1>5 DEF Next

LEMMA ReaderPreserved ==
  ASSUME Inv, ReaderStays, [Next]_vars
  PROVE  ReaderStays'
<1>1. CASE HookApm
  <2>1. Runs("apm") /\ "apm" \in Hooks
    BY <1>1 DEF HookApm, Runs, Hooks
  <2>2. /\ Len(hooks) - Len(ran) \in 1..Len(hooks)
        /\ hooks[Len(hooks) - Len(ran)] = "apm"
        /\ \A i \in 1..Len(hooks) :
              Returned(i)' <=> Returned(i) \/ i = Len(hooks) - Len(ran)
        /\ hooks' = hooks
    BY <2>1, RunsRegistered DEF Inv, Runs
  <2>3. PICK n \in 1..Len(hooks) : n = Len(hooks) - Len(ran)
    BY <2>2
  <2>4. n \in 1..Len(hooks') /\ hooks'[n] = "apm" /\ Returned(n)'
    BY <2>2, <2>3
  <2> QED
    BY <2>4 DEF ReaderStays
<1>2. CASE apm' = apm
  <2>1. CASE Keeps
    BY <1>2, <2>1, KeepsRegistered DEF ReaderStays, Keeps
  <2>2. ASSUME NEW h \in Hooks, Adds(h)
        PROVE  ReaderStays'
    BY <1>2, <2>2, AddsRegistered DEF ReaderStays, Inv
  <2>3. ASSUME NEW h \in Hooks, Runs(h)
        PROVE  ReaderStays'
    BY <1>2, <2>3, RunsRegistered DEF ReaderStays, Inv, Runs
  <2> QED
    BY <2>1, <2>2, <2>3, StepKinds DEF Inv
<1> QED
  BY <1>1, <1>2, ReaderSteps

\* Whoever holds the mutex of the cleanup is never stuck between two functions:
\* the reader of the trace channel, and the listener of a registered server,
\* are there when their turn comes.
THEOREM CleanupNeverStuck == Spec => []CleanupGoesOn
<1> DEFINE GInv == ReaderStays /\ ListenerStays
<1>1. Init => GInv
  BY DEF Init, ReaderStays, ListenerStays, Listened, Servers
<1>2. Inv /\ GInv /\ [Next]_vars => GInv'
  <2> SUFFICES ASSUME Inv, GInv, [Next]_vars
               PROVE  GInv'
    OBVIOUS
  <2>1. ReaderStays'
    BY ReaderPreserved
  <2>2. ListenerStays'
    BY ListenerSteps DEF Inv, ListenerStays
  <2> QED
    BY <2>1, <2>2
<1>3. Inv /\ GInv => CleanupGoesOn
  <2> SUFFICES ASSUME Inv, GInv, Len(ran) < Len(hooks)
               PROVE  /\ Running = "apm" => apm
                      /\ Running \in Servers => lis[Running] # "none"
    BY DEF CleanupGoesOn
  <2> DEFINE n == Len(hooks) - Len(ran)
  <2>1. n \in 1..Len(hooks) /\ ~ Returned(n) /\ Running = hooks[n]
    BY DEF Inv, TypeOK, Returned, Running
  <2> HIDE DEF n
  <2>2. Running = "apm" => apm
    BY <2>1 DEF ReaderStays, Inv, Ordered
  <2>3. Running \in Servers => lis[Running] # "none"
    BY <2>1 DEF ListenerStays, Listened, Inv, ByStarter, Registered
  <2> QED
    BY <2>2, <2>3
<1> QED
  BY <1>1, <1>2, <1>3, LifecycleInvariant, PTL DEF Spec
=============================================================================
