-------------------------------- MODULE Chain -------------------------------
(***************************************************************************)
(* The middleware of the REST server: registerRestRoutes of main.go and    *)
(* the adapters of src/rest/middleware.  The server runs a goroutine per   *)
(* request; it sets up the values of the request in the map of             *)
(* gorilla/context, wraps the response, and MakeRunParallel runs the rest  *)
(* of the chain in a second goroutine, for which it waits before the       *)
(* values are deleted.  A panic in the second goroutine meets the deferred *)
(* function of Recovery, which asks HandlePanic to recover: recover works  *)
(* only in the deferred function itself, so the process ends.              *)
(*                                                                         *)
(* What a request brings (a method, a route, a good or a bad body, a user) *)
(* decides the path; header values and logs are left out.  Each route of a *)
(* controller puts layers of its own before its handler: the routes of the *)
(* conversations and the removal of a user load the user and the body, the *)
(* creations of users and of topics the body, the others neither (the one  *)
(* with the user alone, add_user_to_chat, has a path without the leading   *)
(* slash that mux asks for).                                               *)
(***************************************************************************)
EXTENDS Naturals, FiniteSets

CONSTANTS
  Requests       \* the requests, each served once

VARIABLES
  up,            \* the process runs
  outer,         \* request -> where the goroutine of the server is
  inner,         \* request -> where the goroutine of MakeRunParallel is
  method,        \* request -> "OPTIONS" or another one
  layers,        \* request -> the layers of its route, {} before it has one
  values,        \* request -> keys of its entries in gorilla/context
  body,          \* request -> is its body still to be read by a handler?
  status         \* request -> status sent, 0 while there is none

vars == <<up, outer, inner, method, layers, values, body, status>>

Keys == {"req-res-ctx", "req-body-map", "logged-in-user"}
Mounted == {{}, {"user"}, {"body"}, {"user", "body"}}
InnerAt == {"none", "log", "origin", "options", "debug", "route", "user", "body",
            "handler", "done"}

TypeOK ==
  /\ up \in BOOLEAN
  /\ outer \in [Requests -> {"idle", "entered", "waiting", "logging", "clearing", "done", "dead"}]
  /\ inner \in [Requests -> InnerAt]
  /\ method \in [Requests -> {"OPTIONS", "other"}]
  /\ layers \in [Requests -> Mounted]
  /\ values \in [Requests -> SUBSET Keys]
  /\ body \in [Requests -> BOOLEAN]
  /\ status \in [Requests -> {0, 200, 400, 405, 500, 501}]

Init ==
  /\ up = TRUE
  /\ outer = [r \in Requests |-> "idle"]
  /\ inner = [r \in Requests |-> "none"]
  /\ method = [r \in Requests |-> "other"]
  /\ layers = [r \in Requests |-> {}]
  /\ values = [r \in Requests |-> {}]
  /\ body = [r \in Requests |-> TRUE]
  /\ status = [r \in Requests |-> 0]

-----------------------------------------------------------------------------
\* A panic that nothing recovers: every goroutine of the process is gone.
Die ==
  /\ up' = FALSE
  /\ outer' = [r \in Requests |-> IF outer[r] \in {"idle", "done"} THEN outer[r] ELSE "dead"]
  /\ inner' = [r \in Requests |-> "none"]
  /\ values' = [r \in Requests |-> {}]
  /\ UNCHANGED <<method, layers, body, status>>

Set(r, key) == values' = [values EXCEPT ![r] = @ \cup {key}]
InnerTo(r, from, to) ==
  /\ up /\ inner[r] = from
  /\ inner' = [inner EXCEPT ![r] = to]
  /\ UNCHANGED <<up, outer, method>>

\* DoResponse and every WriteHeader: the first status counts.
Write(r, code) == status' = [status EXCEPT ![r] = IF @ = 0 THEN code ELSE @]

-----------------------------------------------------------------------------
\* The first layers: the headers of the router, its values, the wrapped response,
\* the deferred log of bad requests, the content type.
Enter(r) ==
  /\ up /\ outer[r] = "idle"
  /\ outer' = [outer EXCEPT ![r] = "entered"]
  /\ \E m \in {"OPTIONS", "other"} : method' = [method EXCEPT ![r] = m]
  /\ Set(r, "req-res-ctx")
  /\ UNCHANGED <<up, inner, layers, body, status>>

\* MakeRunParallel: the goroutine is started, and waited for.
RunParallel(r) ==
  /\ up /\ outer[r] = "entered"
  /\ outer' = [outer EXCEPT ![r] = "waiting"]
  /\ inner' = [inner EXCEPT ![r] = "log"]
  /\ UNCHANGED <<up, method, layers, values, body, status>>

\* Fault: the goroutine is not waited for.
WaitDoneAtOnce(r) ==
  /\ up /\ outer[r] = "waiting"
  /\ outer' = [outer EXCEPT ![r] = "logging"]
  /\ UNCHANGED <<up, inner, method, layers, values, body, status>>

WaitDone(r) ==
  /\ up /\ outer[r] = "waiting" /\ inner[r] = "done"
  /\ outer' = [outer EXCEPT ![r] = "logging"]
  /\ UNCHANGED <<up, inner, method, layers, values, body, status>>

\* LogInfoUponBadRequest, deferred: it only logs (and GetLoggedInUser casts to a
\* type that is never stored).
LogBadRequest(r) ==
  /\ up /\ outer[r] = "logging"
  /\ outer' = [outer EXCEPT ![r] = "clearing"]
  /\ UNCHANGED <<up, inner, method, layers, values, body, status>>

\* The deferred Delete and Clear; a response nobody wrote is 200.
Clear(r) ==
  /\ up /\ outer[r] = "clearing"
  /\ outer' = [outer EXCEPT ![r] = "done"]
  /\ values' = [values EXCEPT ![r] = {}]
  /\ Write(r, 200)
  /\ UNCHANGED <<up, inner, method, layers, body>>

-----------------------------------------------------------------------------
\* Fault: the body that was read for the log is not put back.
BodyLoggingConsumes(r) ==
  /\ InnerTo(r, "log", "origin")
  /\ body' = [body EXCEPT ![r] = FALSE]
  /\ UNCHANGED <<layers, values, status>>

\* BodyLogging reads the body and puts a copy in its place; in production it
\* does not.  (Recovery and Tracer act when the rest of the chain returns.)
BodyLogging(r) ==
  /\ InnerTo(r, "log", "origin")
  /\ UNCHANGED <<layers, values, body, status>>

MakeOrigin(r) ==
  /\ InnerTo(r, "origin", "options")
  /\ UNCHANGED <<layers, values, body, status>>

\* MakeOptions answers OPTIONS before any route does.
MakeOptions(r) ==
  /\ \/ method[r] = "OPTIONS" /\ InnerTo(r, "options", "done") /\ Write(r, 200)
     \/ method[r] # "OPTIONS" /\ InnerTo(r, "options", "debug") /\ UNCHANGED status
  /\ UNCHANGED <<layers, values, body>>

\* DebugOptions panics for an OPTIONS request.
DebugOptions(r) ==
  \/ /\ method[r] # "OPTIONS" /\ InnerTo(r, "debug", "route")
     /\ UNCHANGED <<layers, values, body, status>>
  \/ up /\ inner[r] = "debug" /\ method[r] = "OPTIONS" /\ Die

\* Where the layers of a route begin, and what follows LoadUser.
AfterUser(ls) == IF "body" \in ls THEN "body" ELSE "handler"
Foremost(ls) == IF "user" \in ls THEN "user" ELSE AfterUser(ls)

\* The route: /favicon.ico, "/" (405), the ones that ask for a missing parameter
\* (400), none (501), or a controller's with its layers.
Route(r) ==
  /\ \/ /\ \E code \in {200, 400, 405, 501} : InnerTo(r, "route", "done") /\ Write(r, code)
        /\ UNCHANGED layers
     \/ /\ \E ls \in Mounted : /\ InnerTo(r, "route", Foremost(ls))
                              /\ layers' = [layers EXCEPT ![r] = ls]
        /\ UNCHANGED status
  /\ UNCHANGED <<values, body>>

\* LoadUser: a header that is no object id is answered 500; a zero one panics.
LoadUser(r) ==
  \/ /\ InnerTo(r, "user", AfterUser(layers[r])) /\ Set(r, "logged-in-user")
     /\ UNCHANGED <<layers, body, status>>
  \/ /\ InnerTo(r, "user", "done") /\ Write(r, 500)
     /\ UNCHANGED <<layers, values, body>>
  \/ up /\ inner[r] = "user" /\ Die

\* BodyToMap: no JSON, or an empty body, is an empty map; bad JSON panics.
BodyToMap(r) ==
  \/ /\ InnerTo(r, "body", "handler") /\ Set(r, "req-body-map")
     /\ body' \in {body, [body EXCEPT ![r] = FALSE]}
     /\ UNCHANGED <<layers, status>>
  \/ up /\ inner[r] = "body" /\ Die

\* DoResponse: the values of the request, the handler, its status and bytes; a
\* handler may panic, and a status below 1 is not written.
DoResponse(r) ==
  /\ up /\ inner[r] = "handler"
  /\ \/ /\ InnerTo(r, "handler", "done")
        /\ \/ \E code \in {200, 400, 500} : Write(r, code)
           \/ UNCHANGED status
        /\ UNCHANGED <<layers, values, body>>
     \/ Die

-----------------------------------------------------------------------------
Outer(r) == Enter(r) \/ RunParallel(r) \/ WaitDone(r) \/ LogBadRequest(r) \/ Clear(r)
Inner(r) ==
  \/ BodyLogging(r) \/ MakeOrigin(r) \/ MakeOptions(r) \/ DebugOptions(r) \/ Route(r)
  \/ LoadUser(r) \/ BodyToMap(r) \/ DoResponse(r)
Next == \E r \in Requests : Outer(r) \/ Inner(r)

Spec == Init /\ [][Next]_vars

-----------------------------------------------------------------------------
\* What the values of a request hold when its handler begins.
Prepared(r) ==
  {key \in Keys : /\ key = "logged-in-user" => "user" \in layers[r]
                  /\ key = "req-body-map" => "body" \in layers[r]}

\* While the second goroutine of a request is in the chain the request is whole:
\* its values are there and the first goroutine waits (its deferred functions,
\* main.go:107-110, run after wg.Wait of adapters.go:24, and after a panic they
\* do not run at all); the body is unread until BodyToMap takes it, although
\* BodyLogging has read it before; and a handler finds what the layers of its route
\* have put there, and nothing else.
RequestIntact ==
  \A r \in Requests : inner[r] \notin {"none", "done"} =>
    /\ "req-res-ctx" \in values[r]
    /\ outer[r] = "waiting"
    /\ inner[r] # "handler" \/ "body" \notin layers[r] => body[r]
    /\ inner[r] = "handler" => values[r] = Prepared(r)
=============================================================================
