------------------------------- MODULE Parts --------------------------------
(***************************************************************************)
(* Ten components that share no state, in one run: a behaviour runs one of *)
(* them and leaves the variables of the others as they began.              *)
(***************************************************************************)
EXTENDS Accounts

CONSTANTS MaxReqs, Window, Extension, LoginLife, JwtLife, MaxTime, Second, Roles
CONSTANTS ChainRequests, Conns, Callers, Size, MaxConns, MaxRows, MaxItems, Topics
CONSTANTS ChatUsers, Devices, OwnerOf, Leaver, NewDevice, Limit, BadRows

VARIABLES
  part,
  now, history, expires, jwt, session, redis, code,
  up, outer, inner, method, layers, values, body, status,
  alive, mtx, tracked, fn, timer, signal, monitors,
  kind, slot, open, made, counter, notify, where, my, conn, tries,
  upP, route, point, keys, read, created, stored, nil, reply,
  upQ, helper, allow, atQ, ctx, cursor, rows, got, result, chan, closed, consumer,
  reader, pinned, list, count, task, refused, accepted,
  upO, pools, down, call, wanted, worker, todo, flying, tried,
  bad, bound, pending, creator, channel, cut, tasks, found, devices, failed, late, sent,
  remover, listed, left, raced, told, newUser

sVars == <<now, history, expires, jwt, session, redis, code>>
hVars == <<up, outer, inner, method, layers, values, body, status>>
gVars == <<alive, mtx, tracked, fn, timer, signal, monitors>>
bVars == <<kind, slot, open, made, counter, notify, where, my, conn, tries>>
pVars == <<upP, route, point, keys, read, created, stored, nil, reply>>
qVars == <<upQ, helper, allow, atQ, ctx, cursor, rows, got, result, chan, closed, consumer>>
fVars == <<reader, pinned, list, count, task, refused, accepted>>
oVars == <<upO, pools, down, call, wanted, worker, todo, flying, tried>>
nVars == <<bad, bound, pending, creator, channel, cut, tasks, found, devices, failed, late,
           sent, remover, listed, left, raced, told, newUser>>
partsVars == <<part, vars, sVars, hVars, gVars, bVars, pVars, qVars, fVars, oVars, nVars>>

S == INSTANCE Session WITH pool <- redis
H == INSTANCE Chain WITH Requests <- ChainRequests
G == INSTANCE Gor WITH up <- alive
B == INSTANCE Brokers WITH at <- where
P == INSTANCE Payload WITH
       up <- upP, at <- point, todo <- keys, rows <- stored, answer <- reply
Q == INSTANCE Queries WITH up <- upQ, call <- helper, at <- atQ
F == INSTANCE Frames
O == INSTANCE Outbox WITH up <- upO
N == INSTANCE Bindings WITH
       Users <- ChatUsers,
       chan <- channel, task <- tasks, rows <- devices, answer <- told

ASSUME PartsAssumption ==
  /\ S!Numbers /\ B!BrokersAssumption /\ N!BindingsAssumption
  /\ MaxRows \in Nat /\ MaxItems \in Nat

PInit ==
  /\ part \in {"Accounts", "Session", "Chain", "Gor", "Brokers",
               "Payload", "Queries", "Frames", "Outbox", "Bindings"}
  /\ Init /\ S!Init /\ H!Init /\ G!Init /\ B!Init
  /\ P!Init /\ Q!Init /\ F!Init /\ O!Init /\ N!Init
  /\ part # "Outbox" => pools = {} /\ ~down
  /\ bad \in (IF part = "Bindings" THEN BadRows ELSE {{}})

PNext ==
  /\ UNCHANGED part
  /\ \/ /\ part = "Accounts" /\ Next
        /\ UNCHANGED <<sVars, hVars, gVars, bVars, pVars, qVars, fVars, oVars, nVars>>
     \/ /\ part = "Session" /\ S!Next
        /\ UNCHANGED <<vars, hVars, gVars, bVars, pVars, qVars, fVars, oVars, nVars>>
     \/ /\ part = "Chain" /\ H!Next
        /\ UNCHANGED <<vars, sVars, gVars, bVars, pVars, qVars, fVars, oVars, nVars>>
     \/ /\ part = "Gor" /\ G!Next
        /\ UNCHANGED <<vars, sVars, hVars, bVars, pVars, qVars, fVars, oVars, nVars>>
     \/ /\ part = "Brokers" /\ B!Next
        /\ UNCHANGED <<vars, sVars, hVars, gVars, pVars, qVars, fVars, oVars, nVars>>
     \/ /\ part = "Payload" /\ P!Next
        /\ UNCHANGED <<vars, sVars, hVars, gVars, bVars, qVars, fVars, oVars, nVars>>
     \/ /\ part = "Queries" /\ Q!Next
        /\ UNCHANGED <<vars, sVars, hVars, gVars, bVars, pVars, fVars, oVars, nVars>>
     \/ /\ part = "Frames" /\ F!Next
        /\ UNCHANGED <<vars, sVars, hVars, gVars, bVars, pVars, qVars, oVars, nVars>>
     \/ /\ part = "Outbox" /\ O!Next
        /\ UNCHANGED <<vars, sVars, hVars, gVars, bVars, pVars, qVars, fVars, nVars>>
     \/ /\ part = "Bindings" /\ N!Next
        /\ UNCHANGED <<vars, sVars, hVars, gVars, bVars, pVars, qVars, fVars, oVars>>

\* The fairness of the components whose liveness is a property: the scheduler runs
\* every goroutine that can go on.
PFairness ==
  /\ \A r \in Requests : WF_vars(part = "Accounts" /\ Step(r))
  /\ \A c \in Conns :
       /\ WF_gVars(part = "Gor" /\ G!Call(<<c, "ack">>))
       /\ WF_gVars(part = "Gor" /\ G!Round(c))
  /\ \A g \in Conns \X {"read", "ack"} :
       WF_gVars(part = "Gor" /\ G!Gor(g)) /\ WF_gVars(part = "Gor" /\ G!CloseOut(g))
  /\ WF_qVars(part = "Queries" /\ Q!Helper) /\ WF_qVars(part = "Queries" /\ Q!Consume)
  /\ WF_fVars(part = "Frames" /\ F!Loop)
  /\ \A i \in 1..MaxItems : WF_fVars(part = "Frames" /\ F!Task(i))
  /\ WF_oVars(part = "Outbox" /\ O!Rabbit) /\ WF_oVars(part = "Outbox" /\ O!Redis)
  /\ WF_oVars(part = "Outbox" /\ O!Kafka)
  /\ \A t \in Topics :
       /\ WF_oVars(part = "Outbox" /\ O!RabbitTopic(t))
       /\ WF_oVars(part = "Outbox" /\ O!KafkaTopic(t))

PSpec == PInit /\ [][PNext]_partsVars /\ PFairness

-----------------------------------------------------------------------------
\* The properties of the parts, each explained in its module.  The variables of the
\* parts that do not run keep their initial values.
TypesOK ==
  /\ part = "Accounts" => TypeOK
  /\ part = "Session" => S!TypeOK
  /\ part = "Chain" => H!TypeOK
  /\ part = "Gor" => G!TypeOK
  /\ part = "Brokers" => B!TypeOK
  /\ part = "Payload" => P!TypeOK
  /\ part = "Queries" => Q!TypeOK
  /\ part = "Frames" => F!TypeOK
  /\ part = "Outbox" => O!TypeOK
  /\ part = "Bindings" => N!TypeOK

\* No client is told that it has sent too many requests (Session, auth.go:319-341).
RateNeverLimited == S!RateNeverLimited

\* A request keeps its values, its unread body and its waiting goroutine while its second
\* goroutine is in the chain (Chain, main.go:107-110).
RequestIntact == H!RequestIntact

\* A pool of RabbitMQ overwrites no open connection (Brokers, rabbitmq/pool.go:127).
RabbitConnsKept == B!RabbitConnsKept

\* A handler works with the ids it needs, or refuses the request, or meets the nil
\* pointer of an absent key (Payload, zmap.go:377).
PayloadChecked == part = "Payload" => P!PayloadChecked

\* Tasks and removals that are over have bound and unbound what they answered for
\* (Bindings, conversations/handlers.go:480).
BindingsSettle == N!BindingsSettle

\* At every moment: no item of a frame is answered twice or before it is taken, a helper
\* of MongoDB that has returned has left nothing behind but what the code leaves, no
\* topic is left out or published twice, the tracker has the goroutines that run and
\* its mutex is held by nobody else than a CloseOut that waits for a tick
\* (service.go:704-1261, mongo.go:204-481, push.go, gor.go:73-138).
NothingTwiceOrLost ==
  /\ F!AnsweredOnce /\ Q!NothingLeft /\ O!TopicsOnce
  /\ G!TrackedExactly /\ G!MutexExplained

\* What is begun comes to an end: the requests of Accounts, the items of a client's
\* frames (Frames), the helpers of MongoDB (Queries), messages to topics (Outbox), and
\* goroutines that call the tracker or end in it (Gor).
CallsComplete ==
  RequestsAnswered /\ F!ItemsAnswered /\ Q!QueriesEnd /\ O!TopicsReached /\ G!TrackerServes
=============================================================================
