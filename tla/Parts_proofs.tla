---------------------------- MODULE Parts_proofs ----------------------------
(***************************************************************************)
(* The parts in one specification, for all values of their constants:      *)
(* every step of PNext is a step of each part or leaves it as it is        *)
(* (PartsRun), so what is proved of the specification of a part holds of   *)
(* PSpec.  Accounts and Bindings have proof modules of their own; the      *)
(* invariants of the other eight parts are here, one section each, and the *)
(* theorems about PSpec are at the end.                                    *)
(***************************************************************************)
EXTENDS Parts, Accounts_proofs, SequenceTheorems

\* The proofs about Bindings, for the variables of its part.
NP == INSTANCE Bindings_proofs WITH
        Users <- ChatUsers,
        chan <- channel, task <- tasks, rows <- devices, answer <- told

-----------------------------------------------------------------------------
(* Session                                                                 *)
(*                                                                         *)
(* The copy of a history that LoadUser makes is never longer than          *)
(* MaxReqs, whatever the token carries, so the test for too many requests  *)
(* fails.                                                                  *)

\* The history of a token: the copy that LoadUser makes of it, and one time more.
HistoryBounded == Len(history) <= MaxReqs + 1

\* The loop of LoadUser returns at most MaxReqs times, whatever the history is.
LEMMA CopiedIsShort ==
  ASSUME NEW h \in Seq(Nat)
  PROVE  S!Copied(h) \in Seq(Nat) /\ Len(S!Copied(h)) <= MaxReqs
<1> DEFINE n == IF Len(h) < MaxReqs THEN Len(h) ELSE MaxReqs
<1>1. MaxReqs \in Nat /\ Len(h) \in Nat
  BY PartsAssumption DEF S!Numbers
<1>2. n \in Nat /\ n <= MaxReqs /\ n <= Len(h)
  BY <1>1
<1>3. \A i \in 1..n : h[Len(h) + 1 - i] \in Nat
  <2> SUFFICES ASSUME NEW i \in 1..n
               PROVE  h[Len(h) + 1 - i] \in Nat
    OBVIOUS
  <2>1. Len(h) + 1 - i \in 1..Len(h)
    BY <1>1, <1>2
  <2> QED
    BY <2>1
<1>4. S!Copied(h) = [i \in 1..n |-> h[Len(h) + 1 - i]]
  BY DEF S!Copied
<1> HIDE DEF n
<1>5. [i \in 1..n |-> h[Len(h) + 1 - i]] \in [1..n -> Nat]
  BY <1>3
<1>6. S!Copied(h) \in Seq(Nat)
  BY <1>2, <1>4, <1>5, SeqDef
<1>7. Len(S!Copied(h)) = n
  BY <1>2, <1>4, <1>6, LenProperties
<1> QED
  BY <1>2, <1>6, <1>7

\* loginHandler signs a history of one time.
LEMMA FreshHistory ==
  ASSUME NEW t \in Nat
  PROVE  <<t \div Second>> \in Seq(Nat) /\ Len(<<t \div Second>>) = 1
<1>1. Second \in Nat \ {0}
  BY PartsAssumption DEF S!Numbers
<1>2. t \div Second \in Nat
  BY <1>1
<1> QED
  BY <1>2

SessionInv == S!TypeOK /\ HistoryBounded /\ RateNeverLimited

LEMMA SessionInit == S!Init => SessionInv
<1> SUFFICES ASSUME S!Init
             PROVE  SessionInv
  OBVIOUS
<1>1. MaxReqs \in Nat /\ LoginLife \in Nat /\ JwtLife \in Nat /\ Second \in Nat
  BY PartsAssumption DEF S!Numbers
<1>2. now = Second /\ history = <<now \div Second>>
  BY DEF S!Init
<1>3. history \in Seq(Nat) /\ Len(history) = 1
  BY <1>1, <1>2, FreshHistory
<1>4. /\ now = Second /\ expires = now + LoginLife /\ jwt = now + JwtLife
      /\ session = "valid" /\ redis \in BOOLEAN /\ code = 0
  BY DEF S!Init
<1>5. S!TypeOK
  BY <1>1, <1>3, <1>4 DEF S!TypeOK
<1>6. HistoryBounded
  BY <1>1, <1>3 DEF HistoryBounded
<1>7. RateNeverLimited
  BY <1>4 DEF RateNeverLimited, S!RateNeverLimited
<1> QED
  BY <1>5, <1>6, <1>7 DEF SessionInv

LEMMA SessionStep == SessionInv /\ [S!Next]_(S!vars) => SessionInv'
<1> SUFFICES ASSUME SessionInv, [S!Next]_(S!vars)
             PROVE  SessionInv'
  OBVIOUS
<1> USE PartsAssumption DEF S!Numbers, SessionInv, S!TypeOK, HistoryBounded, RateNeverLimited, S!RateNeverLimited
<1>1. ASSUME NEW roles \in SUBSET Roles, NEW permissions \in SUBSET Roles,
             S!LoadUser(roles, permissions)
      PROVE  SessionInv'
  <2> DEFINE copied == S!Copied(history)
  <2>1. copied \in Seq(Nat) /\ Len(copied) <= MaxReqs /\ Len(copied) \in Nat
    BY CopiedIsShort
  <2>2. ~S!TooMany(copied)
    BY <2>1 DEF S!TooMany
  <2>3. Append(copied, now) \in Seq(Nat) /\ Len(Append(copied, now)) <= MaxReqs + 1
    BY <2>1
  <2> HIDE DEF copied
  <2>4. CASE UNCHANGED <<history, expires>>
    BY <1>1, <2>2, <2>4 DEF S!LoadUser, S!BadToken, S!Panic, copied
  <2>5. CASE /\ code' = 0
             /\ history' = Append(copied, now)
             /\ expires' = IF expires < now + Extension THEN now + Extension ELSE expires
    BY <1>1, <2>3, <2>5 DEF S!LoadUser
  <2> QED
    BY <1>1, <2>4, <2>5 DEF S!LoadUser, S!BadToken, copied
<1>2. ASSUME NEW roles \in SUBSET Roles, NEW permissions \in SUBSET Roles,
             S!RequirePermissions(roles, permissions)
      PROVE  SessionInv'
  BY <1>2 DEF S!RequirePermissions, S!Panic
<1>3. CASE S!AdminAuth
  BY <1>3 DEF S!AdminAuth, S!Panic
<1>4. CASE S!LoadUserFromJWT
  BY <1>4 DEF S!LoadUserFromJWT, S!Panic, S!CreateToken
<1>5. CASE S!LoadUserFromHeader
  BY <1>5 DEF S!LoadUserFromHeader, S!Panic
<1>6. CASE S!Tick
  BY <1>6 DEF S!Tick
<1>7. CASE S!GivePool
  BY <1>7 DEF S!GivePool
<1>8. CASE S!Login
  <2>1. history' = <<now \div Second>>
    BY <1>8 DEF S!Login
  <2>2. history' \in Seq(Nat) /\ Len(history') = 1
    BY <2>1, FreshHistory
  <2>3. expires' = now + LoginLife /\ code' = 0 /\ UNCHANGED <<now, jwt, session, redis>>
    BY <1>8 DEF S!Login
  <2> QED
    BY <2>2, <2>3
<1>9. ASSUME NEW s \in {"none", "valid", "invalid"}, S!SetSession(s)
      PROVE  SessionInv'
  BY <1>9 DEF S!SetSession
<1>10. CASE UNCHANGED S!vars
  BY <1>10 DEF S!vars
<1> QED
  BY <1>1, <1>2, <1>3, <1>4, <1>5, <1>6, <1>7, <1>8, <1>9, <1>10 DEF S!Next

LEMMA SessionHolds == S!Spec => []SessionInv
  BY SessionInit, SessionStep, PTL DEF S!Spec

-----------------------------------------------------------------------------
(* Chain                                                                   *)
(*                                                                         *)
(* RequestIntact does not say what the goroutine of the server has         *)
(* prepared before it starts the second one (Begun), nor which values each *)
(* layer finds on the way to the handler (Layered).                        *)

\* Until MakeRunParallel there is no second goroutine, and nobody has read the body.
Begun ==
  \A r \in ChainRequests :
    /\ outer[r] \in {"idle", "entered"} => inner[r] = "none" /\ body[r]
    /\ outer[r] = "idle" => values[r] = {}
    /\ outer[r] = "entered" => values[r] = {"req-res-ctx"}

\* What the layers find, the body one after that of the user.
Layered ==
  \A r \in ChainRequests :
    /\ inner[r] \in {"log", "origin", "options", "debug", "route", "user"} =>
         values[r] = {"req-res-ctx"}
    /\ inner[r] = "user" => "user" \in layers[r]
    /\ inner[r] = "body" =>
         /\ "body" \in layers[r]
         /\ values[r] = H!Prepared(r) \ {"req-body-map"}

ChainInv == H!TypeOK /\ Begun /\ Layered /\ H!RequestIntact

LEMMA ChainInit == H!Init => ChainInv
  BY DEF H!Init, ChainInv, H!TypeOK, Begun, Layered, H!RequestIntact, H!InnerAt, H!Mounted

\* A panic ends every goroutine, so nothing is left to be whole.
LEMMA ChainDie == ChainInv /\ H!Die => ChainInv'
<1> SUFFICES ASSUME ChainInv, H!Die
             PROVE  ChainInv'
  OBVIOUS
<1> USE DEF H!Die, ChainInv, H!TypeOK
<1>1. H!TypeOK'
  BY DEF H!InnerAt
<1>2. Begun'
  BY DEF Begun
<1>3. Layered' /\ H!RequestIntact'
  BY DEF Layered, H!RequestIntact
<1> QED
  BY <1>1, <1>2, <1>3

\* The goroutine of the server touches a request before the second goroutine of
\* that request starts, and after it is over.
LEMMA OuterStep ==
  ASSUME ChainInv, NEW r \in ChainRequests, H!Outer(r)
  PROVE  ChainInv'
<1> USE DEF ChainInv, H!TypeOK, Begun, Layered, H!RequestIntact, H!InnerAt, H!Keys, H!Prepared
<1>1. CASE H!Enter(r)
  BY <1>1 DEF H!Enter, H!Set
<1>2. CASE H!RunParallel(r)
  BY <1>2 DEF H!RunParallel
<1>3. CASE H!WaitDone(r)
  BY <1>3 DEF H!WaitDone
<1>4. CASE H!LogBadRequest(r)
  BY <1>4 DEF H!LogBadRequest
<1>5. CASE H!Clear(r)
  <2>1. inner[r] \in {"none", "done"}
    BY <1>5 DEF H!Clear
  <2> QED
    BY <1>5, <2>1 DEF H!Clear, H!Write
<1> QED
  BY <1>1, <1>2, <1>3, <1>4, <1>5 DEF H!Outer

\* A step within the second goroutine of r leaves every other request alone, ...
Others(r) ==
  /\ UNCHANGED <<up, outer, method>>
  /\ inner'[r] # "none"
  /\ \A q \in ChainRequests \ {r} :
       /\ inner'[q] = inner[q] /\ values'[q] = values[q] /\ layers'[q] = layers[q]
       /\ body'[q] = body[q]

LEMMA InnerFrame ==
  ASSUME ChainInv, NEW r \in ChainRequests, H!Inner(r), ~H!Die
  PROVE  H!TypeOK' /\ Others(r)
<1> USE DEF ChainInv, H!TypeOK, Others, H!InnerTo, H!InnerAt
<1>1. ASSUME NEW to \in H!InnerAt \ {"none"}, NEW from, H!InnerTo(r, from, to),
             UNCHANGED <<layers, values, body>>,
             UNCHANGED status \/ \E c \in {200, 400, 405, 500, 501} : H!Write(r, c)
      PROVE  H!TypeOK' /\ Others(r)
  <2>1. CASE UNCHANGED status
    BY <1>1, <2>1
  <2>2. CASE \E c \in {200, 400, 405, 500, 501} : H!Write(r, c)
    BY <1>1, <2>2 DEF H!Write
  <2> QED
    BY <1>1, <2>1, <2>2
<1>2. CASE \/ H!BodyLogging(r) \/ H!MakeOrigin(r) \/ H!MakeOptions(r) \/ H!DebugOptions(r)
           \/ H!DoResponse(r)
  BY <1>1, <1>2
  DEF H!BodyLogging, H!MakeOrigin, H!MakeOptions, H!DebugOptions, H!DoResponse
<1>3. CASE H!Route(r)
  <2>1. CASE /\ \E c \in {200, 400, 405, 501} : H!InnerTo(r, "route", "done") /\ H!Write(r, c)
             /\ UNCHANGED layers
    <3>1. UNCHANGED <<values, body>>
      BY <1>3 DEF H!Route
    <3>2. PICK c \in {200, 400, 405, 501} : H!InnerTo(r, "route", "done") /\ H!Write(r, c)
      BY <2>1
    <3> QED
      BY <2>1, <3>1, <3>2 DEF H!Write
  <2>2. ASSUME NEW ls \in H!Mounted, H!InnerTo(r, "route", H!Foremost(ls)),
               layers' = [layers EXCEPT ![r] = ls], UNCHANGED status
        PROVE  H!TypeOK' /\ Others(r)
    <3>1. H!Foremost(ls) \in {"user", "body", "handler"}
      BY DEF H!Foremost, H!AfterUser
    <3>2. UNCHANGED <<values, body>>
      BY <1>3 DEF H!Route
    <3> QED
      BY <2>2, <3>1, <3>2
  <2> QED
    BY <1>3, <2>1, <2>2 DEF H!Route
<1>4. CASE H!LoadUser(r)
  <2>1. CASE H!InnerTo(r, "user", "done") /\ H!Write(r, 500) /\ UNCHANGED <<layers, values, body>>
    BY <1>1, <2>1
  <2>2. CASE /\ H!InnerTo(r, "user", H!AfterUser(layers[r])) /\ H!Set(r, "logged-in-user")
             /\ UNCHANGED <<layers, body, status>>
    <3>1. H!AfterUser(layers[r]) \in {"body", "handler"}
      BY DEF H!AfterUser
    <3> QED
      BY <2>2, <3>1 DEF H!Set, H!Keys
  <2> QED
    BY <1>4, <2>1, <2>2 DEF H!LoadUser
<1>5. CASE H!BodyToMap(r)
  <2>1. CASE UNCHANGED body
    BY <1>5, <2>1 DEF H!BodyToMap, H!Set, H!Keys
  <2>2. CASE body' = [body EXCEPT ![r] = FALSE]
    BY <1>5, <2>2 DEF H!BodyToMap, H!Set, H!Keys
  <2> QED
    BY <1>5, <2>1, <2>2 DEF H!BodyToMap
<1> QED
  BY <1>2, <1>3, <1>4, <1>5 DEF H!Inner

\* ... so the invariant is kept if r keeps its part of it.
LEMMA InnerKeeps ==
  ASSUME ChainInv, NEW r \in ChainRequests, H!TypeOK', Others(r),
         inner[r] \notin {"none", "done"},
         inner'[r] \in {"log", "origin", "options", "debug", "route", "user"} =>
           values'[r] = {"req-res-ctx"},
         inner'[r] = "user" => "user" \in layers'[r],
         inner'[r] = "body" =>
           "body" \in layers'[r] /\ values'[r] = H!Prepared(r)' \ {"req-body-map"},
         inner'[r] # "done" =>
           /\ "req-res-ctx" \in values'[r]
           /\ inner'[r] # "handler" \/ "body" \notin layers'[r] => body'[r]
           /\ inner'[r] = "handler" => values'[r] = H!Prepared(r)'
  PROVE  ChainInv'
<1>1. Begun /\ Layered /\ H!RequestIntact
  BY DEF ChainInv
<1>2. \A q \in ChainRequests \ {r} : H!Prepared(q)' = H!Prepared(q)
  BY DEF H!Prepared, Others
<1>3. outer[r] = "waiting"
  BY <1>1 DEF H!RequestIntact
<1>4. Begun'
  BY <1>1, <1>3 DEF Begun, Others
<1>5. Layered'
  BY <1>1, <1>2 DEF Layered, Others
<1>6. H!RequestIntact'
  BY <1>1, <1>2, <1>3 DEF H!RequestIntact, Others
<1> QED
  BY <1>4, <1>5, <1>6 DEF ChainInv

\* The layers, one by one.
LEMMA InnerStep ==
  ASSUME ChainInv, NEW r \in ChainRequests, H!Inner(r)
  PROVE  ChainInv'
<1>1. CASE H!Die
  BY <1>1, ChainDie
<1> SUFFICES ASSUME ~H!Die
             PROVE  ChainInv'
  BY <1>1
<1> USE DEF H!InnerTo
<1>2. H!TypeOK /\ Layered /\ H!RequestIntact
  BY DEF ChainInv
<1>3. H!TypeOK' /\ Others(r)
  BY InnerFrame
<1>4. CASE inner'[r] = "done"
  <2>1. inner[r] \notin {"none", "done"}
    BY DEF H!Inner, H!BodyLogging, H!MakeOrigin, H!MakeOptions, H!DebugOptions, H!Route,
           H!LoadUser, H!BodyToMap, H!DoResponse
  <2> QED
    BY <1>3, <1>4, <2>1, InnerKeeps
<1>5. CASE \/ H!BodyLogging(r) \/ H!MakeOrigin(r) \/ H!MakeOptions(r) \/ H!DebugOptions(r)
  <2>1. /\ inner[r] \in {"log", "origin", "options", "debug"}
        /\ inner'[r] \in {"origin", "options", "debug", "route", "done"}
        /\ UNCHANGED <<layers, values, body>>
    BY <1>2, <1>5
    DEF H!BodyLogging, H!MakeOrigin, H!MakeOptions, H!DebugOptions, H!TypeOK
  <2>2. values[r] = {"req-res-ctx"} /\ body[r]
    BY <1>2, <2>1 DEF Layered, H!RequestIntact
  <2> QED
    BY <1>3, <2>1, <2>2, InnerKeeps
<1>6. CASE H!Route(r) /\ inner'[r] # "done"
  <2>1. PICK ls \in H!Mounted : H!InnerTo(r, "route", H!Foremost(ls)) /\ layers'[r] = ls
    BY <1>2, <1>6 DEF H!Route, H!TypeOK
  <2>2. /\ inner[r] = "route" /\ inner'[r] = H!Foremost(ls)
        /\ values'[r] = {"req-res-ctx"} /\ body'[r]
    BY <1>2, <1>6, <2>1 DEF H!Route, Layered, H!RequestIntact, H!TypeOK
  <2>3. /\ H!Foremost(ls) \in {"user", "body", "handler"}
        /\ H!Foremost(ls) = "user" => "user" \in ls
        /\ H!Foremost(ls) = "body" => "body" \in ls /\ "user" \notin ls
        /\ H!Foremost(ls) = "handler" => ls = {}
    BY DEF H!Foremost, H!AfterUser, H!Mounted
  <2>4. /\ H!Foremost(ls) = "body" => H!Prepared(r)' \ {"req-body-map"} = {"req-res-ctx"}
        /\ H!Foremost(ls) = "handler" => H!Prepared(r)' = {"req-res-ctx"}
    BY <2>1, <2>3 DEF H!Prepared, H!Keys
  <2> QED
    BY <1>3, <2>1, <2>2, <2>3, <2>4, InnerKeeps
<1>7. CASE H!LoadUser(r) /\ inner'[r] # "done"
  <2>1. /\ H!InnerTo(r, "user", H!AfterUser(layers[r])) /\ H!Set(r, "logged-in-user")
        /\ UNCHANGED <<layers, body, status>>
    BY <1>2, <1>7 DEF H!LoadUser, H!TypeOK
  <2>2. /\ values'[r] = {"req-res-ctx", "logged-in-user"} /\ "user" \in layers[r] /\ body[r]
        /\ inner[r] = "user" /\ layers' = layers /\ body' = body
    BY <1>2, <2>1 DEF H!Set, H!TypeOK, Layered, H!RequestIntact
  <2>3. inner'[r] = IF "body" \in layers[r] THEN "body" ELSE "handler"
    BY <1>2, <2>1 DEF H!AfterUser, H!TypeOK
  <2>4. /\ H!Prepared(r)' \ {"req-body-map"} = values'[r]
        /\ "body" \notin layers[r] => H!Prepared(r)' = values'[r]
    BY <2>2 DEF H!Prepared, H!Keys
  <2> QED
    BY <1>3, <2>2, <2>3, <2>4, InnerKeeps
<1>8. CASE H!BodyToMap(r)
  <2>1. /\ H!InnerTo(r, "body", "handler") /\ H!Set(r, "req-body-map") /\ UNCHANGED layers
    BY <1>8 DEF H!BodyToMap
  <2>2. /\ "body" \in layers[r] /\ values'[r] = values[r] \cup {"req-body-map"}
        /\ inner[r] = "body" /\ inner'[r] = "handler" /\ "req-res-ctx" \in values[r]
        /\ values[r] = H!Prepared(r) \ {"req-body-map"}
    BY <1>2, <2>1 DEF H!Set, H!TypeOK, Layered, H!RequestIntact
  <2>3. values'[r] = H!Prepared(r)'
    BY <2>1, <2>2 DEF H!Prepared, H!Keys
  <2> QED
    BY <1>3, <2>1, <2>2, <2>3, InnerKeeps
<1>9. CASE H!DoResponse(r)
  <2>1. inner' = [inner EXCEPT ![r] = "done"]
    BY <1>9 DEF H!DoResponse
  <2>2. inner'[r] = "done"
    BY <1>2, <2>1 DEF H!TypeOK
  <2> QED
    BY <1>4, <2>2
<1> QED
  BY <1>4, <1>5, <1>6, <1>7, <1>8, <1>9 DEF H!Inner

LEMMA ChainStep == ChainInv /\ [H!Next]_H!vars => ChainInv'
<1> SUFFICES ASSUME ChainInv, [H!Next]_H!vars
             PROVE  ChainInv'
  OBVIOUS
<1>1. CASE H!Next
  BY <1>1, OuterStep, InnerStep DEF H!Next
<1>2. CASE UNCHANGED H!vars
  BY <1>2 DEF H!vars, ChainInv, H!TypeOK, Begun, Layered, H!RequestIntact, H!InnerAt, H!Prepared
<1> QED
  BY <1>1, <1>2

LEMMA ChainHolds == H!Spec => []ChainInv
  BY ChainInit, ChainStep, PTL DEF H!Spec

-----------------------------------------------------------------------------
(* Gor                                                                     *)
(*                                                                         *)
(* The map and the functions are changed together; who holds the mutex is  *)
(* explained by who may receive from a timer (ReceivedByAck).              *)

\* The select of a ListeningAck function is the only one that receives from a timer.
ReceivedByAck == \A c \in Conns : timer[<<c, "read">>] # "received"

GorInv == G!TypeOK /\ G!TrackedExactly /\ G!MutexExplained /\ ReceivedByAck

LEMMA TrackedFns ==
  /\ \A c \in Conns : <<c, "read">> \in G!All /\ <<c, "ack">> \in G!All
  /\ \A g \in G!All : \E c \in Conns : g = <<c, "read">> \/ g = <<c, "ack">>
  /\ \A c, d \in Conns : <<c, "read">> # <<d, "ack">>
  /\ <<>> \notin G!All
  BY DEF G!All, G!Fns

LEMMA GorInit == G!Init => GorInv
<1> SUFFICES ASSUME G!Init
             PROVE  GorInv
  OBVIOUS
<1>1. G!TypeOK
  BY DEF G!Init, G!TypeOK
<1> QED
  BY <1>1, TrackedFns
  DEF G!Init, GorInv, G!TrackedExactly, G!MutexExplained, ReceivedByAck

LEMMA GorStep == GorInv /\ [G!Next]_(G!vars) => GorInv'
<1> SUFFICES ASSUME GorInv, [G!Next]_(G!vars)
             PROVE  GorInv'
  OBVIOUS
<1> USE TrackedFns
    DEF GorInv, G!TypeOK, G!TrackedExactly, G!MutexExplained, ReceivedByAck, G!FnTo
<1>1. ASSUME NEW g \in G!All, G!Call(g)
      PROVE  GorInv'
  BY <1>1 DEF G!Call
<1>2. ASSUME NEW g \in G!All, G!Gor(g)
      PROVE  GorInv'
  BY <1>2 DEF G!Gor
<1>3. ASSUME NEW g \in G!All, G!Fire(g)
      PROVE  GorInv'
  BY <1>3 DEF G!Fire
<1>4. ASSUME NEW g \in G!All, G!CloseOut(g)
      PROVE  GorInv'
  BY <1>4 DEF G!CloseOut, G!AfterClose
<1>5. ASSUME NEW c \in Conns, G!Round(c)
      PROVE  GorInv'
  BY <1>5 DEF G!Round
<1>6. ASSUME NEW c \in Conns, G!ReadEnds(c)
      PROVE  GorInv'
  <2>1. PICK to \in {"ended", "panics"} : G!FnTo(<<c, "read">>, "running", to)
    BY <1>6 DEF G!ReadEnds
  <2>2. UNCHANGED <<alive, mtx, tracked, timer, signal, monitors>>
    BY <1>6 DEF G!ReadEnds
  <2> QED
    BY <2>1, <2>2
<1>7. ASSUME NEW c \in Conns, G!AckSignalled(c)
      PROVE  GorInv'
  BY <1>7 DEF G!AckSignalled
<1>8. ASSUME NEW c \in Conns, G!AckTimesOut(c)
      PROVE  GorInv'
  BY <1>8 DEF G!AckTimesOut
<1>9. CASE UNCHANGED G!vars
  BY <1>9 DEF G!vars
<1> HIDE DEF GorInv
<1> QED
  BY <1>1, <1>2, <1>3, <1>4, <1>5, <1>6, <1>7, <1>8, <1>9 DEF G!Next

LEMMA GorHolds == G!Spec => []GorInv
  BY GorInit, GorStep, PTL DEF G!Spec

-----------------------------------------------------------------------------
(* Brokers                                                                 *)
(*                                                                         *)
(* A pool of RabbitMQ has no watcher and is not used before it is made     *)
(* (Unmade); then a connection is stored over a closed one only.           *)

\* Nothing happens before the pool is made, and only pool-2.go watches connections.
Unmade ==
  /\ kind = "none" => open = {} /\ \A c \in Callers : where[c] = "start"
  /\ notify # {} => kind = "pool2"

\* A call that was let through is within the limit on its retries.
TriesBounded ==
  \A c \in Callers :
    where[c] \in {"pick", "check", "take", "lock", "use"} => tries[c] <= B!MaxRetries

BrokersInv == B!TypeOK /\ Unmade /\ TriesBounded /\ RabbitConnsKept

LEMMA BrokersNumbers ==
  /\ Size \in Nat \ {0} /\ MaxConns \in Nat /\ Size <= MaxConns
  /\ B!Slots = 0..Size - 1 /\ 0 \in B!Slots
  BY PartsAssumption DEF B!BrokersAssumption, B!Slots

LEMMA BrokersInit == B!Init => BrokersInv
  BY BrokersNumbers
  DEF B!Init, BrokersInv, B!TypeOK, Unmade, TriesBounded, RabbitConnsKept, B!RabbitConnsKept

\* A pool of RabbitMQ begins with an open connection in every slot.
LEMMA MadeStep ==
  ASSUME BrokersInv, B!NewMongoPool \/ \E k \in B!Kinds : B!NewPool(k)
  PROVE  BrokersInv'
<1> USE BrokersNumbers
    DEF BrokersInv, B!TypeOK, Unmade, TriesBounded, RabbitConnsKept, B!RabbitConnsKept
<1>1. CASE B!NewMongoPool
  <2>1. PICK good \in SUBSET B!Slots :
          B!Made("mongo", [i \in B!Slots |-> IF i \in good THEN i + 1 ELSE 0])
    BY <1>1 DEF B!NewMongoPool
  <2>2. [i \in B!Slots |-> IF i \in good THEN i + 1 ELSE 0] \in [B!Slots -> 0..MaxConns]
    OBVIOUS
  <2> QED
    BY <2>1, <2>2 DEF B!Made, B!Kinds
<1>2. ASSUME NEW k \in B!Kinds, B!NewPool(k)
      PROVE  BrokersInv'
  <2>1. B!Made(k, [i \in B!Slots |-> i + 1])
    BY <1>2 DEF B!NewPool
  <2>2. [i \in B!Slots |-> i + 1] \in [B!Slots -> 0..MaxConns]
    OBVIOUS
  <2>3. \A n \in 1..Size : n - 1 \in B!Slots /\ slot'[n - 1] = n
    BY <2>1 DEF B!Made
  <2>4. B!TypeOK'
    BY <2>1, <2>2 DEF B!Made, B!Kinds
  <2>5. RabbitConnsKept'
    BY <2>1, <2>3 DEF B!Made
  <2> QED
    BY <2>1, <2>4, <2>5 DEF B!Made, B!Kinds
<1> QED
  BY <1>1, <1>2

\* A connection stored into a slot of RabbitMQ replaces one that is closed.
LEMMA RedialStep ==
  ASSUME BrokersInv, NEW c \in Callers, B!Redial(c)
  PROVE  BrokersInv'
<1> USE BrokersNumbers
    DEF BrokersInv, B!TypeOK, Unmade, TriesBounded, RabbitConnsKept, B!RabbitConnsKept, B!Goto
<1>1. /\ my[c] \in B!Slots /\ where[c] = "lock" /\ kind # "none"
      /\ UNCHANGED <<kind, counter, notify, my, tries>>
  BY DEF B!Redial, B!Dial
<1>2. CASE /\ B!Goto(c, "lock", "use") /\ conn' = [conn EXCEPT ![c] = slot[my[c]]]
           /\ UNCHANGED <<slot, open, made>>
  <2>1. slot[my[c]] \in 0..MaxConns
    BY <1>1
  <2>2. conn' \in [Callers -> 0..MaxConns]
    BY <1>2, <2>1
  <2> QED
    BY <1>1, <1>2, <2>2 DEF B!MaxRetries
<1>3. CASE /\ ~(kind \in {"rabbit", "pool2"} /\ B!Usable(my[c]))
           /\ B!Goto(c, "lock", "use") /\ B!Store(my[c]) /\ conn' = [conn EXCEPT ![c] = made + 1]
  <2>1. made + 1 \in 1..MaxConns
    BY <1>3 DEF B!Store
  <2>2. B!TypeOK'
    BY <1>1, <1>3, <2>1 DEF B!Store
  <2>3. RabbitConnsKept'
    <3> SUFFICES ASSUME kind = "rabbit", NEW k \in open'
                 PROVE  \E i \in B!Slots : slot'[i] = k
      BY <1>1
    <3>1. slot[my[c]] \notin open
      BY <1>1, <1>3 DEF B!Usable
    <3>2. CASE k = made + 1
      BY <1>1, <1>3, <3>2 DEF B!Store
    <3>3. CASE k \in open
      BY <1>1, <1>3, <3>1, <3>3 DEF B!Store
    <3> QED
      BY <1>3, <3>2, <3>3 DEF B!Store
  <2>4. Unmade' /\ TriesBounded'
    BY <1>1, <1>3 DEF B!MaxRetries
  <2> QED
    BY <2>2, <2>3, <2>4
<1>4. CASE B!Goto(c, "lock", "pick") /\ UNCHANGED <<slot, open, made, conn>>
  BY <1>1, <1>4 DEF B!MaxRetries
<1> HIDE DEF BrokersInv, B!Goto
<1> QED
  BY <1>2, <1>3, <1>4 DEF B!Redial, B!Dial

\* The other steps of a call touch no slot.
LEMMA CallStep ==
  ASSUME BrokersInv, NEW c \in Callers,
         \/ B!Start(c) \/ B!Pick(c) \/ B!Check(c) \/ B!Take(c)
         \/ B!PublishRabbit(c) \/ B!PublishRedis(c) \/ B!PublishKafka(c)
         \/ B!ConsumeRedis(c) \/ B!Query(c)
  PROVE  BrokersInv'
<1> USE BrokersNumbers
    DEF BrokersInv, B!TypeOK, Unmade, TriesBounded, RabbitConnsKept, B!RabbitConnsKept, B!Goto,
        B!pool, B!MaxRetries
<1>1. CASE B!Start(c)
  <2>1. kind # "none" /\ UNCHANGED <<kind, slot, open, made, counter, notify, my, conn, tries>>
    BY <1>1 DEF B!Start
  <2>2. CASE where' = [where EXCEPT ![c] = "done"]
    BY <2>1, <2>2
  <2>3. CASE where' = [where EXCEPT ![c] = "pick"] /\ tries[c] <= B!MaxRetries
    BY <2>1, <2>3
  <2> HIDE DEF BrokersInv, B!MaxRetries
  <2> QED
    BY <1>1, <2>2, <2>3 DEF B!Start
<1>2. CASE B!Pick(c)
  <2>1. counter' \in B!Slots
    BY <1>2 DEF B!Pick
  <2> QED
    BY <1>2, <2>1 DEF B!Pick
<1>3. CASE B!Check(c)
  <2>1. \E to \in {"take", "lock"} : B!Goto(c, "check", to)
    BY <1>3 DEF B!Check
  <2>2. UNCHANGED <<kind, slot, open, made, counter, notify, my, conn, tries>>
    BY <1>3 DEF B!Check
  <2> QED
    BY <2>1, <2>2
<1>4. CASE B!Take(c)
  BY <1>4 DEF B!Take
<1>5. ASSUME NEW to \in {"sleep", "done"}, B!Leave(c, to), kind # "none"
      PROVE  BrokersInv'
  BY <1>5 DEF B!Leave
<1>6. CASE \/ B!PublishRabbit(c) \/ B!PublishRedis(c) \/ B!PublishKafka(c)
           \/ B!ConsumeRedis(c) \/ B!Query(c)
  <2>1. kind # "none" /\ (B!Leave(c, "sleep") \/ B!Leave(c, "done"))
    BY <1>6 DEF B!PublishRabbit, B!PublishRedis, B!PublishKafka, B!ConsumeRedis, B!Query
  <2> HIDE DEF BrokersInv
  <2> QED
    BY <1>5, <2>1
<1> QED
  BY <1>1, <1>2, <1>3, <1>4, <1>6

\* The watcher of pool-2.go and the network: not in a pool of RabbitMQ, and one
\* connection less to keep.
LEMMA WorldStep ==
  ASSUME BrokersInv, \/ \E i \in B!Slots : B!Notified(i)
                     \/ \E k \in 1..MaxConns : B!Close(k)
                     \/ UNCHANGED B!vars
  PROVE  BrokersInv'
<1> USE BrokersNumbers
    DEF BrokersInv, B!TypeOK, Unmade, TriesBounded, RabbitConnsKept, B!RabbitConnsKept
<1>1. ASSUME NEW i \in B!Slots, B!Notified(i)
      PROVE  BrokersInv'
  <2>1. kind = "pool2" /\ notify' \subseteq notify /\ UNCHANGED <<kind, counter, where, my, conn, tries>>
    BY <1>1 DEF B!Notified
  <2>2. CASE B!Store(i)
    <3>1. made + 1 \in 1..MaxConns
      BY <2>2 DEF B!Store
    <3> QED
      BY <2>1, <2>2, <3>1 DEF B!Store, B!MaxRetries
  <2>3. CASE UNCHANGED <<slot, open, made>>
    BY <2>1, <2>3 DEF B!MaxRetries
  <2> QED
    BY <1>1, <2>2, <2>3 DEF B!Notified
<1>2. ASSUME NEW k \in 1..MaxConns, B!Close(k)
      PROVE  BrokersInv'
  BY <1>2 DEF B!Close, B!MaxRetries
<1>3. CASE UNCHANGED B!vars
  BY <1>3 DEF B!vars, B!MaxRetries
<1> QED
  BY <1>1, <1>2, <1>3

LEMMA BrokersStep == BrokersInv /\ [B!Next]_(B!vars) => BrokersInv'
  BY MadeStep, RedialStep, CallStep, WorldStep DEF B!Next

LEMMA BrokersHolds == B!Spec => []BrokersInv
  BY BrokersInit, BrokersStep, PTL DEF B!Spec

-----------------------------------------------------------------------------
(* Payload                                                                 *)
(*                                                                         *)
(* A handler works when all its keys were read and none was refused        *)
(* (Progress); the ids that it needs are among them, and their getters     *)
(* take nothing but an id.                                                 *)

\* A getter named Must passes over an absent array at most, and one named Get skips a
\* key that is not there.
LEMMA MustIsStrict ==
  \A v \in P!Values : \A g \in DOMAIN P!Must(v) :
    P!Must(v)[g] = "skip" => v = "absent" /\ g \in {"strings", "ids", "both"}
<1> SUFFICES ASSUME NEW v \in P!Values, NEW g \in DOMAIN P!Must(v), P!Must(v)[g] = "skip"
             PROVE  v = "absent" /\ g \in {"strings", "ids", "both"}
  OBVIOUS
<1>1. \A good : P!Required(v, good) # "skip"
  BY DEF P!Required
<1>2. CASE g \in {"strings", "ids", "both"}
  <2>1. P!Must(v)[g] \in {"fail", P!MustGetStringSlice(v)}
    BY <1>2 DEF P!Must, P!MustGetObjectIdSlice, P!MustGetBothStringAndObjectIdSlice
  <2>2. v # "absent" => P!MustGetStringSlice(v) # "skip"
    BY <1>1 DEF P!MustGetStringSlice, P!GetStringSlice, P!Optional
  <2> QED
    BY <1>2, <2>1, <2>2
<1>3. CASE g \notin {"strings", "ids", "both"}
  <2>1. g \in {"uuid", "int", "int64", "bool", "string", "time", "id", "sliceOf", "slice", "json"}
    BY <1>3 DEF P!Must
  <2>2. P!Must(v)[g] \in {P!MustGetUUID(v), P!MustGetInt(v), P!MustGetInt64(v), P!MustGetBool(v),
                          P!MustGetString(v), P!MustGetTime(v), P!MustGetMongoObjectId(v),
                          P!MustGetSliceOf(v), P!MustGetSlice(v), P!MustGetJSON(v)}
    BY <2>1 DEF P!Must
  <2> QED
    BY <1>1, <2>2
    DEF P!MustGetUUID, P!MustGetInt, P!MustGetInt64, P!MustGetBool, P!MustGetString, P!MustGetTime,
        P!MustGetMongoObjectId, P!MustGetSliceOf, P!MustGetSlice, P!MustGetJSON
<1> QED
  BY <1>2, <1>3

LEMMA MaySkipsAbsent ==
  \A v \in P!Values : \A g \in DOMAIN P!May(v) : v = "absent" => P!May(v)[g] = "skip"
<1> SUFFICES ASSUME NEW g \in DOMAIN P!May("absent")
             PROVE  P!May("absent")[g] = "skip"
  OBVIOUS
<1>1. \A good : P!Optional("absent", good) = "skip"
  BY DEF P!Optional
<1>2. P!GetUUID("absent") = "skip" /\ P!GetInt("absent") = "skip" /\ P!GetInt64("absent") = "skip"
  BY DEF P!GetUUID, P!GetInt, P!GetInt64, P!Lenient
<1>3. g \in {"uuid", "int", "int64", "bool", "string", "time", "id", "slice", "strings"}
  BY DEF P!May
<1> QED
  BY <1>1, <1>2, <1>3 DEF P!May, P!GetBool, P!GetString, P!GetTime, P!GetMongoObjectId,
     P!GetSlice, P!GetStringSlice

\* A key of a conversation, a user, an inviter or a device is read by a getter that
\* takes nothing but an id.
IdKeys == {"ChatId", "UserId", "InviterId", "DeviceId"}
LEMMA IdsAreStrict ==
  ASSUME NEW k \in IdKeys, NEW v, P!Getter(k, v) # "fail"
  PROVE  v = "hex"
  BY DEF IdKeys, P!Getter, P!MustGetMongoObjectId, P!GetMongoObjectIdFromString, P!Required

LEMMA KeysTyped ==
  \A r \in P!Routes : P!KeysOf[r] \in Seq(P!Keys)
<1>1. P!ReadKeys \in Seq(P!Keys) /\ P!CreateKeys \in Seq(P!Keys)
  BY DEF P!ReadKeys, P!CreateKeys, P!Keys
<1>2. P!AddKeys \in Seq(P!Keys) /\ P!RemoveKeys \in Seq(P!Keys) /\ P!UserKeys \in Seq(P!Keys)
  BY DEF P!AddKeys, P!RemoveKeys, P!UserKeys, P!Keys
<1>3. \A r \in P!Routes :
        P!KeysOf[r] \in {P!ReadKeys, P!CreateKeys, P!AddKeys, P!RemoveKeys, P!UserKeys}
  BY DEF P!Routes, P!KeysOf
<1> QED
  BY <1>1, <1>2, <1>3

\* Every key that a handler cannot do without is one that it reads.
LEMMA NeedsAreRead ==
  ASSUME NEW r \in P!Routes
  PROVE  /\ P!Needs[r] \subseteq IdKeys
         /\ \A k \in P!Needs[r] : \E i \in 1..Len(P!KeysOf[r]) : P!KeysOf[r][i] = k
<1>0. r \in {"filter", "body", "create", "add", "remove", "user"}
  BY DEF P!Routes, P!KeysOf
<1>1. CASE r \in {"filter", "body"}
  <2>1. P!KeysOf[r] = <<"StartTime", "EndTime", "ChatId", "UserIds", "ChatTitle">> /\ P!Needs[r] = {"ChatId"}
    BY <1>1 DEF P!KeysOf, P!Needs, P!ReadKeys
  <2> QED
    BY <2>1 DEF IdKeys
<1>2. CASE r = "create"
  <2>1. P!KeysOf[r] = <<"ChatId", "UserIds", "ChatTitle">> /\ P!Needs[r] = {"ChatId"}
    BY <1>2 DEF P!KeysOf, P!Needs, P!CreateKeys
  <2> QED
    BY <2>1 DEF IdKeys
<1>3. CASE r = "add"
  <2>1. P!KeysOf[r] = <<"ChatId", "UserId", "InviterId", "IsAdmin">>
        /\ P!Needs[r] = {"ChatId", "UserId", "InviterId"}
    BY <1>3 DEF P!KeysOf, P!Needs, P!AddKeys
  <2> QED
    BY <2>1 DEF IdKeys
<1>4. CASE r = "remove"
  <2>1. P!KeysOf[r] = <<"UserId", "ChatId", "DeviceId">>
        /\ P!Needs[r] = {"UserId", "ChatId", "DeviceId"}
    BY <1>4 DEF P!KeysOf, P!Needs, P!RemoveKeys
  <2> QED
    BY <2>1 DEF IdKeys
<1>5. CASE r = "user"
  <2>1. P!KeysOf[r] = <<"UserId", "DeviceId">> /\ P!Needs[r] = {"UserId", "DeviceId"}
    BY <1>5 DEF P!KeysOf, P!Needs, P!UserKeys
  <2> QED
    BY <2>1 DEF IdKeys
<1> QED
  BY <1>0, <1>1, <1>2, <1>3, <1>4, <1>5

\* A key that its getter did not refuse.
ReadWell(k) == P!Getter(k, read[k]) # "fail"

\* A key that its handler has still to read.
Pending(k) == \E j \in 1..Len(keys) : keys[j] = k

BeingRead ==
  /\ route \in P!Routes
  /\ \A i \in 1..Len(P!KeysOf[route]) : ReadWell(P!KeysOf[route][i]) \/ Pending(P!KeysOf[route][i])
AllRead ==
  /\ route \in P!Routes
  /\ \A i \in 1..Len(P!KeysOf[route]) : ReadWell(P!KeysOf[route][i])

\* A handler that reads its keys has read well those it has passed, and one that has
\* read them has read all of them well.
Progress ==
  /\ point = "reading" => BeingRead
  /\ point \in {"query", "work", "kafka", "rabbit"} \/ reply = 200 => AllRead

\* An addition that has stored its rows goes on to its topic and its queue, and is
\* answered at the end or never.
Adding ==
  /\ point \in {"kafka", "rabbit"} => stored
  /\ stored => route = "add" /\ point \in {"kafka", "rabbit", "done"} /\ reply # 200
  /\ reply # 0 => point = "done"

\* A nil pointer that was dereferenced is one of the two that the code does not set.
NilExplained ==
  nil # "nothing" =>
    /\ ~upP
    /\ \/ route = "create" /\ nil = "UserIds" /\ read[nil] = "absent"
       \/ route = "add" /\ nil = "DeviceId" /\ stored

PayloadInv == P!TypeOK /\ Progress /\ Adding /\ NilExplained

LEMMA PayloadInit == P!Init => PayloadInv
<1> SUFFICES ASSUME P!Init
             PROVE  PayloadInv
  OBVIOUS
<1>1. upP \in BOOLEAN /\ stored \in BOOLEAN /\ ~stored
  BY DEF P!Init
<1>2. /\ route = "unrouted" /\ point = "idle" /\ keys = <<>> /\ reply = 0 /\ nil = "nothing"
      /\ created = "any" /\ read = [k \in P!Keys |-> "unread"]
  BY DEF P!Init
<1> QED
  BY <1>1, <1>2 DEF PayloadInv, P!TypeOK, Progress, Adding, NilExplained

\* What a handler has read changes by reading only.
LEMMA ReadKept ==
  ASSUME UNCHANGED <<route, read>>
  PROVE  /\ AllRead' <=> AllRead
         /\ UNCHANGED keys => (BeingRead' <=> BeingRead)
<1>1. \A k : ReadWell(k)' <=> ReadWell(k)
  BY DEF ReadWell, P!Getter
<1> QED
  BY <1>1 DEF AllRead, BeingRead, Pending

\* With all its keys read well a handler has the ids it needs.
LEMMA PayloadInvChecked == PayloadInv => P!PayloadChecked
<1> SUFFICES ASSUME PayloadInv
             PROVE  P!PayloadChecked
  OBVIOUS
<1>1. point \in {"work", "kafka", "rabbit"} \/ reply = 200 =>
        \A k \in P!Needs[route] : read[k] = "hex"
  <2> SUFFICES ASSUME point \in {"work", "kafka", "rabbit"} \/ reply = 200,
                      NEW k \in P!Needs[route]
               PROVE  read[k] = "hex"
    OBVIOUS
  <2>1. route \in P!Routes /\ \A i \in 1..Len(P!KeysOf[route]) : ReadWell(P!KeysOf[route][i])
    BY DEF PayloadInv, Progress, AllRead
  <2>2. ReadWell(k) /\ k \in IdKeys
    BY <2>1, NeedsAreRead
  <2> QED
    BY <2>2, IdsAreStrict DEF ReadWell
<1>2. stored => reply # 200
  BY DEF PayloadInv, Adding
<1>3. nil # "nothing" =>
        \/ route = "create" /\ nil = "UserIds" /\ read[nil] = "absent"
        \/ route = "add" /\ nil = "DeviceId" /\ stored
  BY DEF PayloadInv, NilExplained
<1> QED
  BY <1>1, <1>2, <1>3, MustIsStrict, MaySkipsAbsent DEF P!PayloadChecked

\* A key that is read is passed, or its request is over.
LEMMA ReadStep ==
  ASSUME PayloadInv, P!Read
  PROVE  PayloadInv'
<1> DEFINE key == Head(keys)
<1>0. /\ point = "reading" /\ keys # <<>> /\ keys \in Seq(P!Keys)
      /\ BeingRead /\ ~stored /\ nil = "nothing" /\ reply = 0
      /\ UNCHANGED <<upP, route, stored, nil>>
  BY DEF P!Read, PayloadInv, P!TypeOK, Progress, Adding, NilExplained
<1>1. /\ key \in P!Keys /\ Tail(keys) \in Seq(P!Keys)
      /\ \A k : Pending(k) => k = key \/ \E m \in 1..Len(Tail(keys)) : Tail(keys)[m] = k
  <2>1. /\ key \in P!Keys /\ Tail(keys) \in Seq(P!Keys) /\ Len(Tail(keys)) = Len(keys) - 1
        /\ \A m \in 1..Len(Tail(keys)) : Tail(keys)[m] = keys[m + 1]
    BY <1>0, HeadTailProperties
  <2>2. ASSUME NEW j \in 1..Len(keys), j # 1
        PROVE  Tail(keys)[j - 1] = keys[j] /\ j - 1 \in 1..Len(Tail(keys))
    <3>1. Len(keys) \in Nat
      BY <1>0
    <3>2. j - 1 \in 1..Len(Tail(keys)) /\ j - 1 + 1 = j
      BY <3>1, <2>1, <2>2
    <3> QED
      BY <2>1, <3>2
  <2>3. keys[1] = key
    BY <1>0
  <2> HIDE DEF key
  <2> QED
    BY <2>1, <2>2, <2>3 DEF Pending
<1>2. PICK v \in P!Values :
        /\ read' = [read EXCEPT ![key] = v]
        /\ \/ P!Getter(key, v) = "fail" /\ point' = "done" /\ reply' = 500 /\ UNCHANGED <<keys, created>>
           \/ /\ P!Getter(key, v) # "fail" /\ keys' = Tail(keys) /\ UNCHANGED <<point, reply>>
              /\ created' \in P!CreatedAt(key) \cup {created}
  <2>1. \E v \in P!Values :
       /\ read' = [read EXCEPT ![Head(keys)] = v]
       /\ \/ /\ P!Getter(Head(keys), v) = "fail"
             /\ point' = "done" /\ reply' = 500
             /\ UNCHANGED <<keys, created>>
          \/ /\ P!Getter(Head(keys), v) = "skip"
             /\ keys' = Tail(keys)
             /\ UNCHANGED <<point, reply, created>>
          \/ /\ P!Getter(Head(keys), v) = "set"
             /\ keys' = Tail(keys)
             /\ created' \in P!CreatedAt(Head(keys))
             /\ UNCHANGED <<point, reply>>
    BY DEF P!Read
  <2> QED
    BY <2>1
<1> HIDE DEF key
<1>3. read \in [P!Keys -> P!Values \cup {"unread"}] /\ read' \in [P!Keys -> P!Values \cup {"unread"}]
  BY <1>1, <1>2 DEF PayloadInv, P!TypeOK
<1>4. CASE P!Getter(key, v) = "fail" /\ point' = "done" /\ reply' = 500 /\ UNCHANGED <<keys, created>>
  BY <1>0, <1>3, <1>4 DEF PayloadInv, P!TypeOK, Progress, Adding, NilExplained
<1>5. CASE /\ P!Getter(key, v) # "fail" /\ keys' = Tail(keys) /\ UNCHANGED <<point, reply>>
           /\ created' \in P!CreatedAt(key) \cup {created}
  <2>1. P!TypeOK'
    BY <1>0, <1>1, <1>3, <1>5 DEF PayloadInv, P!TypeOK, P!CreatedAt
  <2>2. ASSUME NEW k \in P!Keys, ReadWell(k) \/ k = key
        PROVE  ReadWell(k)'
    BY <1>0, <1>1, <1>2, <1>3, <1>5, <2>2 DEF ReadWell, P!Getter
  <2>3. \A i \in 1..Len(P!KeysOf[route]) : P!KeysOf[route][i] \in P!Keys
    BY <1>0, KeysTyped, ElementOfSeq DEF BeingRead
  <2>4. BeingRead'
    BY <1>0, <1>1, <1>5, <2>2, <2>3 DEF BeingRead, Pending
  <2> QED
    BY <1>0, <1>5, <2>1, <2>4 DEF PayloadInv, Progress, Adding, NilExplained
<1> QED
  BY <1>2, <1>4, <1>5

\* The steps before and after the reading of the keys.
LEMMA HandlerStep ==
  ASSUME PayloadInv,
         \/ P!Enter \/ P!HasRead \/ P!Query \/ P!Create \/ P!Remove \/ P!CreateUser
         \/ P!AddStore \/ P!AddTopic \/ P!AddQueue
  PROVE  PayloadInv'
<1> USE DEF PayloadInv, P!TypeOK, Progress, Adding, NilExplained
<1>1. ASSUME P!Die, upP, point # "done",
             \/ UNCHANGED nil \/ nil' = "nothing"
             \/ route = "create" /\ nil' = "UserIds" /\ read["UserIds"] = "absent"
             \/ route = "add" /\ nil' = "DeviceId" /\ stored
      PROVE  PayloadInv'
  <2>1. upP' \in BOOLEAN /\ ~upP'
    BY <1>1 DEF P!Die
  <2>2. nil' \in P!Keys \cup {"nothing"}
    BY <1>1 DEF P!Keys
  <2> QED
    BY <1>1, <2>1, <2>2, ReadKept DEF P!Die
<1>2. CASE P!Enter
  <2>1. CASE P!Die /\ UNCHANGED nil
    BY <1>1, <1>2, <2>1 DEF P!Enter
  <2>2. CASE ~(P!Die /\ UNCHANGED nil)
    <3>1. /\ upP /\ point = "idle"
          /\ route' \in P!Routes /\ keys' = P!KeysOf[route'] /\ point' = "reading"
          /\ UNCHANGED <<upP, read, created, stored, nil, reply>>
      BY <1>2, <2>2 DEF P!Enter
    <3>2. BeingRead'
      <4> SUFFICES ASSUME NEW i \in 1..Len(P!KeysOf[route'])
                   PROVE  Pending(P!KeysOf[route][i])'
        BY <3>1 DEF BeingRead
      <4> QED
        BY <3>1 DEF Pending
    <3>3. keys' \in Seq(P!Keys)
      BY <3>1, KeysTyped
    <3>4. reply = 0 /\ ~stored
      BY <3>1
    <3> QED
      BY <3>1, <3>2, <3>3, <3>4
  <2> QED
    BY <2>1, <2>2
<1>3. CASE P!HasRead
  <2>1. AllRead
    BY <1>3 DEF P!HasRead, BeingRead, AllRead, Pending
  <2> QED
    BY <1>3, <2>1, ReadKept DEF P!HasRead
<1>4. ASSUME NEW code_ \in {200, 500}, P!Answer(code_), code_ = 200 => AllRead /\ ~stored, upP
      PROVE  PayloadInv'
  BY <1>4, ReadKept DEF P!Answer
<1>5. CASE P!Query \/ P!Remove \/ P!CreateUser
  BY <1>4, <1>5 DEF P!Query, P!Remove, P!CreateUser
<1>6. CASE P!Create
  <2>1. upP /\ point # "done" /\ AllRead /\ ~stored
    BY <1>6 DEF P!Create
  <2>2. CASE P!Answer(500) \/ P!Answer(200)
    BY <1>4, <2>1, <2>2
  <2>3. CASE read["UserIds"] = "absent" /\ nil' = "UserIds" /\ P!Die
    <3>1. route = "create"
      BY <1>6 DEF P!Create
    <3> HIDE DEF PayloadInv, P!TypeOK, Progress, Adding, NilExplained
    <3> QED
      BY <1>1, <2>1, <2>3, <3>1
  <2> QED
    BY <1>6, <2>2, <2>3 DEF P!Create
<1>7. CASE P!AddStore
  <2>1. CASE P!Answer(500)
    BY <1>4, <1>7, <2>1 DEF P!AddStore
  <2>2. CASE ~P!Answer(500)
    <3>1. stored' /\ stored' \in BOOLEAN
      BY <1>7, <2>2 DEF P!AddStore
    <3>2. /\ point = "work" /\ point' = "kafka" /\ route = "add"
          /\ UNCHANGED <<upP, route, keys, read, created, nil, reply>>
      BY <1>7, <2>2 DEF P!AddStore
    <3> QED
      BY <3>1, <3>2, ReadKept
  <2> QED
    BY <2>1, <2>2
<1>8. CASE P!AddTopic
  <2>1. CASE P!Answer(500)
    BY <1>4, <1>8, <2>1 DEF P!AddTopic
  <2>2. CASE ~P!Answer(500)
    <3>1. /\ point = "kafka" /\ point' = "rabbit"
          /\ UNCHANGED <<upP, route, keys, read, created, stored, nil, reply>>
      BY <1>8, <2>2 DEF P!AddTopic
    <3> QED
      BY <3>1, ReadKept
  <2> QED
    BY <2>1, <2>2
<1>9. CASE P!AddQueue
  <2>1. upP /\ point = "rabbit" /\ stored /\ route = "add"
    BY <1>9 DEF P!AddQueue
  <2> HIDE DEF PayloadInv
  <2> QED
    BY <1>1, <1>4, <1>9, <2>1 DEF P!AddQueue
<1> HIDE DEF PayloadInv
<1> QED
  BY <1>2, <1>3, <1>5, <1>6, <1>7, <1>8, <1>9

LEMMA PayloadStep == PayloadInv /\ [P!Next]_(P!vars) => PayloadInv'
<1>1. PayloadInv /\ UNCHANGED P!vars => PayloadInv'
  BY ReadKept DEF P!vars, PayloadInv, P!TypeOK, Progress, Adding, NilExplained
<1> QED
  BY <1>1, ReadStep, HandlerStep DEF P!Next

LEMMA PayloadHolds == P!Spec => []PayloadInv
  BY PayloadInit, PayloadStep, PTL DEF P!Spec

-----------------------------------------------------------------------------
(* Queries                                                                 *)
(*                                                                         *)
(* What a helper has closed is settled when it returns, before its         *)
(* deferred function runs (Returning).                                     *)

\* A helper keeps no more rows than its cursor has given.
RowsBounded ==
  /\ got + rows <= MaxRows
  /\ atQ \in {"idle", "send", "find"} => got = 0 /\ cursor = "none"

\* A helper returns by way of its deferred function: with its cursor closed, or with the
\* rows of CursorIterator at an end.
Returning ==
  /\ atQ = "use" => helper = "FindManyCursor"
  /\ consumer = "range" => helper = "CursorIterator"
  /\ atQ \in {"cancel", "done"} =>
       /\ cursor = "open" => helper \in {"MustFindOne", "FindMany", "FindManyCursor"}
       /\ helper = "CursorIterator" => closed \/ result = "error"
  /\ atQ = "done" => (ctx = "live" => helper \in {"DoUpsert", "DoUpsertById"})

QueriesInv == Q!TypeOK /\ RowsBounded /\ Returning

LEMMA QueriesInit == Q!Init => QueriesInv
<1> SUFFICES ASSUME Q!Init
             PROVE  QueriesInv
  OBVIOUS
<1>1. upQ \in BOOLEAN /\ allow \in BOOLEAN /\ closed \in BOOLEAN
  BY DEF Q!Init
<1>2. /\ helper = "none" /\ atQ = "idle" /\ ctx = "none" /\ cursor = "none" /\ rows = 0 /\ got = 0
      /\ result = "none" /\ chan = 0 /\ consumer = "none"
  BY DEF Q!Init
<1> QED
  BY <1>1, <1>2, PartsAssumption DEF QueriesInv, Q!TypeOK, RowsBounded, Returning

\* A helper that sends one command has no cursor.
LEMMA SendStep ==
  ASSUME QueriesInv, NEW h \in Q!Helpers, NEW results \in SUBSET {"ok", "nothing", "error"},
         h # "CursorIterator", Q!Send(h, results)
  PROVE  QueriesInv'
  BY DEF Q!Send, Q!Return, Q!channel, QueriesInv, Q!TypeOK, RowsBounded, Returning

LEMMA CommandStep ==
  ASSUME QueriesInv, Q!DoUpdateMaybe \/ Q!FindOneAndUpdate \/ Q!DoUpdateOne
                     \/ Q!DoUpsert \/ Q!DoUpsertById \/ Q!FindOne
  PROVE  QueriesInv'
<1>1. {"ok", "error"} \in SUBSET {"ok", "nothing", "error"}
      /\ {"ok", "error"} \cup (IF allow THEN {"nothing"} ELSE {}) \in SUBSET {"ok", "nothing", "error"}
  OBVIOUS
<1> QED
  BY <1>1, SendStep
  DEF Q!DoUpdateMaybe, Q!FindOneAndUpdate, Q!DoUpdateOne, Q!DoUpsert, Q!DoUpsertById, Q!FindOne,
      Q!Helpers, Q!Writers

\* The steps of the helpers that read.
LEMMA ReaderStep ==
  ASSUME QueriesInv, Q!Find \/ Q!FindFails \/ Q!FindManyCursor \/ Q!CloseGiven \/ Q!Row \/ Q!RowsOver
  PROVE  QueriesInv'
<1> USE PartsAssumption DEF QueriesInv, Q!TypeOK, RowsBounded, Returning, Q!Return, Q!channel
<1>1. CASE Q!Find
  BY <1>1 DEF Q!Find
<1>2. CASE Q!FindFails
  BY <1>2 DEF Q!FindFails
<1>3. CASE Q!FindManyCursor
  BY <1>3 DEF Q!FindManyCursor
<1>4. CASE Q!CloseGiven
  BY <1>4 DEF Q!CloseGiven
<1>5. CASE Q!Row
  <2>1. /\ atQ = "rows" /\ rows > 0 /\ rows' = rows - 1
        /\ UNCHANGED <<helper, allow, atQ, ctx, cursor, result, chan, closed, consumer>>
    BY <1>5 DEF Q!Row
  <2>2. upQ' \in BOOLEAN
    BY <1>5 DEF Q!Row
  <2>3. got' = got \/ got' = got + 1
    BY <1>5 DEF Q!Row
  <2> QED
    BY <2>1, <2>2, <2>3
<1>6. CASE Q!RowsOver
  <2>1. upQ' \in BOOLEAN
    BY <1>6 DEF Q!RowsOver
  <2>2. CASE upQ' = FALSE
    BY <1>6, <2>1, <2>2 DEF Q!RowsOver
  <2>3. CASE UNCHANGED upQ
    BY <1>6, <2>3 DEF Q!RowsOver
  <2> QED
    BY <1>6, <2>2, <2>3 DEF Q!RowsOver
<1> HIDE DEF QueriesInv
<1> QED
  BY <1>1, <1>2, <1>3, <1>4, <1>5, <1>6

\* The goroutine of CursorIterator and the loop of its caller.
LEMMA IteratorStep ==
  ASSUME QueriesInv, Q!IteratorRow \/ Q!IteratorEnds \/ Q!Consume
  PROVE  QueriesInv'
<1> USE PartsAssumption DEF QueriesInv, Q!TypeOK, RowsBounded, Returning, Q!Return, Q!channel
<1>1. CASE Q!IteratorRow
  BY <1>1 DEF Q!IteratorRow
<1>2. CASE Q!IteratorEnds
  BY <1>2 DEF Q!IteratorEnds
<1>3. CASE Q!Consume
  BY <1>3 DEF Q!Consume
<1> HIDE DEF QueriesInv
<1> QED
  BY <1>1, <1>2, <1>3

LEMMA QueriesStep == QueriesInv /\ [Q!Next]_(Q!vars) => QueriesInv'
<1> SUFFICES ASSUME QueriesInv, [Q!Next]_(Q!vars)
             PROVE  QueriesInv'
  OBVIOUS
<1> USE DEF QueriesInv, Q!TypeOK, RowsBounded, Returning
<1>1. CASE Q!Call
  BY <1>1 DEF Q!Call, Q!Helpers, Q!Writers, Q!Readers, Q!NewStdMgoCtx
<1>2. CASE Q!DoCancel
  BY <1>2 DEF Q!DoCancel, Q!channel
<1>3. CASE UNCHANGED Q!vars
  BY <1>3 DEF Q!vars
<1> HIDE DEF QueriesInv
<1> QED
  BY <1>1, <1>2, <1>3, CommandStep, ReaderStep, IteratorStep DEF Q!Next, Q!Helper

LEMMA QueriesNothingLeft == QueriesInv => Q!NothingLeft
  BY DEF QueriesInv, Returning, Q!NothingLeft

LEMMA QueriesHolds == Q!Spec => []QueriesInv
  BY QueriesInit, QueriesStep, PTL DEF Q!Spec

-----------------------------------------------------------------------------
(* Frames                                                                  *)
(*                                                                         *)
(* An item is answered by the loop or by its goroutine; while the          *)
(* goroutine has not decided nothing has answered it (Undecided).          *)

\* The loop takes items only while there are some, and of a frame that fits.
FrameTaken ==
  /\ reader = "items" <=> list # <<>>
  /\ count + Len(list) <= MaxItems

\* An item whose goroutine is not over is not answered yet.
UnderWay == F!Started \cup {"fetch", "refuse"}
Undecided == \A i \in F!Items : task[i] \in UnderWay => i \notin refused \cup accepted

FramesInv == F!TypeOK /\ FrameTaken /\ Undecided /\ F!AnsweredOnce

LEMMA FramesInit == F!Init => FramesInv
<1> SUFFICES ASSUME F!Init
             PROVE  FramesInv
  OBVIOUS
<1>1. pinned \in BOOLEAN
  BY DEF F!Init
<1>2. /\ reader = "reading" /\ list = <<>> /\ count = 0 /\ refused = {} /\ accepted = {}
      /\ task = [i \in F!Items |-> "none"]
  BY DEF F!Init
<1>3. F!TypeOK
  BY <1>1, <1>2, PartsAssumption DEF F!TypeOK
<1>4. FrameTaken
  BY <1>2, PartsAssumption DEF FrameTaken
<1>5. Undecided /\ F!AnsweredOnce
  BY <1>2 DEF Undecided, UnderWay, F!AnsweredOnce, F!Started, F!Items
<1> QED
  BY <1>3, <1>4, <1>5 DEF FramesInv

\* A frame is a sequence of items.
LEMMA FrameRead ==
  ASSUME FramesInv, F!ReadFrame
  PROVE  list' \in Seq(F!Kinds) /\ list' # <<>> /\ count + Len(list') <= MaxItems
<1>1. PICK n \in 1..MaxItems - count : \E items \in [1..n -> F!Kinds] : list' = items
  BY DEF F!ReadFrame
<1>2. count \in Nat /\ n \in Nat /\ n >= 1 /\ count + n <= MaxItems
  BY PartsAssumption DEF FramesInv, F!TypeOK
<1>3. list' \in Seq(F!Kinds)
  BY <1>1, <1>2, SeqDef
<1>4. Len(list') = n
  BY <1>1, <1>2, <1>3, LenProperties
<1> QED
  BY <1>2, <1>3, <1>4

\* What the loop takes is the next item.
LEMMA ItemTaken ==
  ASSUME FramesInv, NEW k, F!Take(k)
  PROVE  /\ count' = count + 1 /\ count' \in F!Items
         /\ list' \in Seq(F!Kinds) /\ reader' \in {"reading", "items"}
         /\ FrameTaken'
<1>1. reader = "items" /\ list # <<>> /\ list \in Seq(F!Kinds) /\ count \in 0..MaxItems
      /\ count + Len(list) <= MaxItems
  BY DEF F!Take, FramesInv, F!TypeOK, FrameTaken
<1>2. list' = Tail(list) /\ count' = count + 1
      /\ reader' = IF list' = <<>> THEN "reading" ELSE "items"
  BY DEF F!Take
<1>3. Tail(list) \in Seq(F!Kinds) /\ Len(Tail(list)) = Len(list) - 1 /\ Len(list) \in Nat \ {0}
  BY <1>1, HeadTailProperties, EmptySeq
<1>4. list' \in Seq(F!Kinds) /\ Len(list') = Len(list) - 1
  BY <1>2, <1>3
<1>5. count' \in F!Items /\ count' + Len(list') <= MaxItems
  BY <1>1, <1>2, <1>3, <1>4, PartsAssumption DEF F!Items
<1>6. reader' \in {"reading", "items"} /\ (reader' = "items" <=> list' # <<>>)
  BY <1>2
<1> QED
  BY <1>2, <1>4, <1>5, <1>6 DEF FrameTaken

\* An item that is taken is new: when it is answered at once, or gets its goroutine,
\* the others stay as they are.
LEMMA ItemIsNew ==
  ASSUME FramesInv, count' = count + 1, count' \in F!Items, FrameTaken',
         list' \in Seq(F!Kinds), reader' \in {"reading", "items"}, UNCHANGED pinned,
         \/ refused' = refused \cup {count'} /\ UNCHANGED <<task, accepted>>
         \/ accepted' = accepted \cup {count'} /\ UNCHANGED <<task, refused>>
         \/ /\ \E k \in F!Started : task' = [task EXCEPT ![count'] = k]
            /\ UNCHANGED <<refused, accepted>>
  PROVE  FramesInv'
<1> DEFINE n == count'
<1>1. /\ count \in Nat /\ n \in F!Items /\ n \in 0..MaxItems
      /\ n \notin refused \cup accepted /\ task[n] = "none"
      /\ \A i \in F!Items : i <= n => i <= count \/ i = n
      /\ \A i \in F!Items : i > n => i > count /\ i # n
  BY PartsAssumption DEF FramesInv, F!TypeOK, F!AnsweredOnce, F!Items
<1>2. F!TypeOK'
  BY <1>1 DEF FramesInv, F!TypeOK
<1>3. Undecided'
  BY <1>1 DEF FramesInv, F!TypeOK, Undecided, UnderWay, F!Started
<1>4. F!AnsweredOnce'
  <2> HIDE DEF n
  <2>1. \A i \in F!Items \ {n} :
          /\ task'[i] = task[i]
          /\ i \in refused' <=> i \in refused
          /\ i \in accepted' <=> i \in accepted
    BY <1>1 DEF FramesInv, F!TypeOK, n
  <2>2. ASSUME NEW i \in F!Items \ {n}
        PROVE  /\ ~(i \in refused' /\ i \in accepted')
               /\ i <= n /\ task'[i] \in {"none", "done"} => i \in refused' \cup accepted'
               /\ i > n => task'[i] = "none" /\ i \notin refused' \cup accepted'
    BY <1>1, <2>1 DEF FramesInv, F!AnsweredOnce
  <2>3. /\ ~(n \in refused' /\ n \in accepted')
        /\ task'[n] \in {"none", "done"} => n \in refused' \cup accepted'
    BY <1>1 DEF FramesInv, F!TypeOK, F!Started, n
  <2> QED
    BY <1>1, <2>2, <2>3 DEF F!AnsweredOnce, n
<1> QED
  BY <1>2, <1>3, <1>4 DEF FramesInv

LEMMA LoopStep ==
  ASSUME FramesInv,
         F!StopReading \/ F!SafeClose \/ F!Pin \/ F!ReadFrame \/ F!RefuseFrame \/ F!Loop
  PROVE  FramesInv'
<1> USE PartsAssumption DEF FramesInv, F!TypeOK, Undecided, F!AnsweredOnce, F!Items
<1>1. CASE F!StopReading
  BY <1>1 DEF F!StopReading, FrameTaken
<1>2. CASE F!SafeClose
  BY <1>2 DEF F!SafeClose, FrameTaken
<1>3. CASE F!Pin
  BY <1>3 DEF F!Pin, FrameTaken
<1>4. CASE F!ReadFrame
  <2>1. list' \in Seq(F!Kinds) /\ list' # <<>> /\ count + Len(list') <= MaxItems
    BY <1>4, FrameRead
  <2> QED
    BY <1>4, <2>1 DEF F!ReadFrame, FrameTaken
<1>5. CASE F!RefuseFrame
  <2>1. /\ reader = "reading" /\ count' = count + 1 /\ refused' = refused \cup {count'}
        /\ UNCHANGED <<reader, pinned, list, task, accepted>>
    BY <1>5 DEF F!RefuseFrame
  <2>2. count' \in F!Items
    BY <1>5 DEF F!RefuseFrame
  <2>3. list = <<>>
    BY <1>5 DEF F!RefuseFrame, FrameTaken
  <2>4. FrameTaken'
    BY <2>1, <2>2, <2>3 DEF FrameTaken
  <2> QED
    BY <2>1, <2>2, <2>4, ItemIsNew
<1>6. CASE F!RefuseItem
  <2>1. F!Take("refused") /\ refused' = refused \cup {count'} /\ UNCHANGED <<pinned, task, accepted>>
    BY <1>6 DEF F!RefuseItem, F!Take
  <2> HIDE DEF FramesInv
  <2> QED
    BY <2>1, ItemTaken, ItemIsNew
<1>7. CASE F!IgnoreItem
  <2>1. F!Take("placeholder") /\ accepted' = accepted \cup {count'} /\ UNCHANGED <<pinned, task, refused>>
    BY <1>7 DEF F!IgnoreItem, F!Take
  <2> HIDE DEF FramesInv
  <2> QED
    BY <2>1, ItemTaken, ItemIsNew
<1>8. ASSUME NEW k \in F!Started, F!StartItem(k)
      PROVE  FramesInv'
  <2>1. F!Take(k) /\ task' = [task EXCEPT ![count'] = k] /\ UNCHANGED <<pinned, refused, accepted>>
    BY <1>8 DEF F!StartItem, F!Take
  <2> HIDE DEF FramesInv
  <2> QED
    BY <1>8, <2>1, ItemTaken, ItemIsNew
<1> HIDE DEF FramesInv
<1> QED
  BY <1>1, <1>2, <1>3, <1>4, <1>5, <1>6, <1>7, <1>8 DEF F!Loop

\* The goroutine of an item answers it once, when it is over.
LEMMA TaskStep ==
  ASSUME FramesInv, NEW i \in F!Items, F!Task(i)
  PROVE  FramesInv'
<1> USE DEF FramesInv, F!TypeOK, FrameTaken, Undecided, UnderWay, F!AnsweredOnce, F!Started
<1>1. task[i] \in UnderWay
  BY DEF F!Task, F!Signal, F!PollConvs, F!Fetch, F!PollAll, F!Message, F!Conv, F!User, F!WriteError
<1>2. CASE F!Refuse(i)
  BY <1>1, <1>2 DEF F!Refuse
<1>3. CASE F!StartFetch(i)
  BY <1>1, <1>3 DEF F!StartFetch
<1>4. CASE F!Accept(i)
  BY <1>1, <1>4 DEF F!Accept
<1>5. CASE F!WriteError(i)
  BY <1>5 DEF F!WriteError
<1> HIDE DEF FramesInv
<1> QED
  BY <1>2, <1>3, <1>4, <1>5
  DEF F!Task, F!Signal, F!PollConvs, F!Fetch, F!PollAll, F!Message, F!Conv, F!User

LEMMA FramesStep == FramesInv /\ [F!Next]_(F!vars) => FramesInv'
<1>1. FramesInv /\ UNCHANGED F!vars => FramesInv'
  BY DEF F!vars, FramesInv, F!TypeOK, FrameTaken, Undecided, F!AnsweredOnce
<1> QED
  BY <1>1, LoopStep, TaskStep DEF F!Next

LEMMA FramesHolds == F!Spec => []FramesInv
  BY FramesInit, FramesStep, PTL DEF F!Spec

-----------------------------------------------------------------------------
(* Outbox                                                                  *)
(*                                                                         *)
(* Topic by topic, a broker has it to take, in flight or published         *)
(* (OneByOne).                                                             *)

\* TopicsOnce, topic by topic.
OneByOne ==
  \A b \in O!Brokers : \A t \in Topics :
    /\ b \in pools /\ call # "none" =>
         (t \in wanted <=> t \in todo[b] \/ <<b, t>> \in flying \/ t \in tried[b])
    /\ ~(t \in todo[b] /\ <<b, t>> \in flying)
    /\ ~(t \in todo[b] /\ t \in tried[b])
    /\ ~(<<b, t>> \in flying /\ t \in tried[b])
    /\ worker[b] = "done" => t \notin todo[b]
    /\ b \notin pools => t \notin tried[b]

\* Nothing is under way before the call.
Quiet == call = "none" => flying = {} /\ \A b \in O!Brokers : todo[b] = {} /\ tried[b] = {}

OutboxInv == O!TypeOK /\ OneByOne /\ Quiet

LEMMA OutboxInit == O!Init => OutboxInv
<1> SUFFICES ASSUME O!Init
             PROVE  OutboxInv
  OBVIOUS
<1>1. upO \in BOOLEAN /\ down \in BOOLEAN
  BY DEF O!Init
<1>2. /\ pools \in SUBSET O!Brokers /\ call = "none" /\ wanted = {} /\ flying = {}
      /\ worker = [b \in O!Brokers |-> "none"] /\ todo = [b \in O!Brokers |-> {}]
      /\ tried = [b \in O!Brokers |-> {}]
  BY DEF O!Init
<1> QED
  BY <1>1, <1>2 DEF OutboxInv, O!TypeOK, OneByOne, Quiet

LEMMA OutboxTopicsOnce == OutboxInv => O!TopicsOnce
<1> SUFFICES ASSUME OutboxInv, NEW b \in O!Brokers
             PROVE  LET flown == {t \in Topics : <<b, t>> \in flying} IN
                    /\ b \in pools /\ call # "none" => wanted = todo[b] \cup flown \cup tried[b]
                    /\ todo[b] \cap flown = {} /\ todo[b] \cap tried[b] = {} /\ flown \cap tried[b] = {}
                    /\ worker[b] = "done" => todo[b] = {}
                    /\ b \notin pools => tried[b] = {}
  BY DEF O!TopicsOnce
<1>1. todo[b] \subseteq Topics /\ tried[b] \subseteq Topics /\ wanted \subseteq Topics
  BY DEF OutboxInv, O!TypeOK
<1> QED
  BY <1>1 DEF OutboxInv, OneByOne

\* A call gives every broker all its topics.
LEMMA StartStep ==
  ASSUME OutboxInv, NEW c \in {"many", "one"}, NEW topics \in SUBSET Topics, O!Start(c, topics)
  PROVE  OutboxInv'
  BY DEF O!Start, OutboxInv, O!TypeOK, OneByOne, Quiet

\* The goroutine of a broker takes one of its topics.
LEMMA TopicStep ==
  ASSUME OutboxInv, NEW b \in O!Brokers, NEW t \in Topics,
         \/ O!Looping(b) /\ t \in todo[b] /\ O!Publish(b, t)
         \/ O!Panic(b)
         \/ O!Land(b, t)
  PROVE  OutboxInv'
<1> USE DEF OutboxInv, O!TypeOK, OneByOne, Quiet
<1>1. CASE O!Looping(b) /\ t \in todo[b] /\ O!Publish(b, t)
  BY <1>1 DEF O!Looping, O!Publish
<1>2. CASE O!Panic(b)
  <2>1. upO' \in BOOLEAN
    BY <1>2 DEF O!Panic
  <2> QED
    BY <1>2, <2>1 DEF O!Panic
<1>3. CASE O!Land(b, t)
  <2>1. CASE O!Panic(b)
    BY <1>2, <2>1
  <2>2. CASE ~O!Panic(b)
    <3>1. /\ b \in pools /\ <<b, t>> \in flying
          /\ flying' = flying \ {<<b, t>>}
          /\ tried' = [tried EXCEPT ![b] = @ \cup {t}]
          /\ UNCHANGED <<upO, pools, down, call, wanted, worker, todo>>
      BY <1>3, <2>2 DEF O!Land
    <3>2. O!TypeOK' /\ Quiet'
      BY <3>1
    <3>3. \A a \in O!Brokers : \A u \in Topics :
            /\ <<a, u>> \in flying' <=> <<a, u>> \in flying /\ ~(a = b /\ u = t)
            /\ u \in tried'[a] <=> u \in tried[a] \/ (a = b /\ u = t)
      BY <3>1
    <3>4. OneByOne'
      BY <3>1, <3>3
    <3> QED
      BY <3>2, <3>4
  <2> QED
    BY <2>1, <2>2
<1> QED
  BY <1>1, <1>2, <1>3

\* A topic gets a goroutine of its own, and the end of a loop.
LEMMA SpawnStep ==
  ASSUME OutboxInv, NEW b \in O!Brokers, O!Spawn(b) \/ O!LoopOver(b)
  PROVE  OutboxInv'
  BY DEF O!Spawn, O!LoopOver, O!Looping, OutboxInv, O!TypeOK, OneByOne, Quiet

LEMMA OutboxStep == OutboxInv /\ [O!Next]_(O!vars) => OutboxInv'
<1> SUFFICES ASSUME OutboxInv, [O!Next]_(O!vars)
             PROVE  OutboxInv'
  OBVIOUS
<1>1. {"rabbit", "redis", "kafka"} = O!Brokers
  BY DEF O!Brokers
<1>2. todo["redis"] \subseteq Topics /\ todo["kafka"] \subseteq Topics
  BY <1>1 DEF OutboxInv, O!TypeOK
<1>3. CASE O!SendMessageOutToMultipleTopics \/ O!SendMessageOut
  BY <1>3, StartStep DEF O!SendMessageOutToMultipleTopics, O!SendMessageOut
<1>4. CASE O!Rabbit
  BY <1>1, <1>4, SpawnStep DEF O!Rabbit, O!RabbitLoop
<1>5. CASE O!RedisOnce
  <2>1. CASE \E t \in todo["redis"] : O!Publish("redis", t)
    BY <1>1, <1>2, <1>5, <2>1, TopicStep DEF O!RedisOnce
  <2>2. CASE /\ "redis" \notin pools
             /\ todo' = [todo EXCEPT !["redis"] = {}]
             /\ UNCHANGED <<upO, pools, down, call, wanted, worker, flying, tried>>
    BY <1>1, <2>2 DEF OutboxInv, O!TypeOK, OneByOne, Quiet
  <2> QED
    BY <1>5, <2>1, <2>2 DEF O!RedisOnce
<1>6. CASE O!RedisLoop \/ O!LoopOver("redis")
  BY <1>1, <1>2, <1>6, TopicStep, SpawnStep DEF O!RedisLoop
<1>7. CASE O!Kafka
  BY <1>1, <1>2, <1>7, TopicStep, SpawnStep DEF O!Kafka, O!KafkaLoop, O!KafkaOnce
<1>8. ASSUME NEW t \in Topics, O!RabbitTopic(t) \/ O!KafkaTopic(t)
      PROVE  OutboxInv'
  BY <1>1, <1>8, TopicStep DEF O!RabbitTopic, O!KafkaTopic
<1>9. CASE O!Outage
  <2>1. /\ down' \in BOOLEAN
        /\ UNCHANGED <<upO, pools, call, wanted, worker, todo, flying, tried>>
    BY <1>9 DEF O!Outage
  <2> QED
    BY <2>1 DEF OutboxInv, O!TypeOK, OneByOne, Quiet
<1>10. CASE UNCHANGED O!vars
  BY <1>10 DEF O!vars, OutboxInv, O!TypeOK, OneByOne, Quiet
<1> QED
  BY <1>3, <1>4, <1>5, <1>6, <1>7, <1>8, <1>9, <1>10 DEF O!Next, O!Redis

LEMMA OutboxHolds == O!Spec => []OutboxInv
  BY OutboxInit, OutboxStep, PTL DEF O!Spec

-----------------------------------------------------------------------------
(* The parts together                                                      *)
(*                                                                         *)
(* A step of PNext is a step of one part and changes the variables of no   *)
(* other.                                                                  *)

\* Every step of the parts is a step of each part, or leaves it as it is.
LEMMA PartStep ==
  [PNext]_partsVars =>
    /\ [Next]_vars /\ [S!Next]_(S!vars) /\ [H!Next]_(H!vars) /\ [G!Next]_(G!vars)
    /\ [B!Next]_(B!vars) /\ [P!Next]_(P!vars) /\ [Q!Next]_(Q!vars) /\ [F!Next]_(F!vars)
    /\ [O!Next]_(O!vars) /\ [N!Next]_(N!vars)
<1> SUFFICES ASSUME [PNext]_partsVars
             PROVE  /\ [Next]_vars /\ [S!Next]_(S!vars) /\ [H!Next]_(H!vars) /\ [G!Next]_(G!vars)
                    /\ [B!Next]_(B!vars) /\ [P!Next]_(P!vars) /\ [Q!Next]_(Q!vars) /\ [F!Next]_(F!vars)
                    /\ [O!Next]_(O!vars) /\ [N!Next]_(N!vars)
  OBVIOUS
<1> USE DEF PNext, partsVars
<1>1. [Next]_vars
  OBVIOUS
<1>2. [S!Next]_(S!vars)
  BY DEF sVars, S!vars
<1>3. [H!Next]_(H!vars)
  BY DEF hVars, H!vars
<1>4. [G!Next]_(G!vars)
  BY DEF gVars, G!vars
<1>5. [B!Next]_(B!vars)
  BY DEF bVars, B!vars
<1>6. [P!Next]_(P!vars)
  BY DEF pVars, P!vars
<1>7. [Q!Next]_(Q!vars)
  BY DEF qVars, Q!vars
<1>8. [F!Next]_(F!vars)
  BY DEF fVars, F!vars
<1>9. [O!Next]_(O!vars)
  BY DEF oVars, O!vars
<1>10. [N!Next]_(N!vars)
  BY DEF nVars, N!vars, N!channel, N!creation, N!removal
<1> QED
  BY <1>1, <1>2, <1>3, <1>4, <1>5, <1>6, <1>7, <1>8, <1>9, <1>10

LEMMA PartInit ==
  PInit => /\ Init /\ S!Init /\ H!Init /\ G!Init /\ B!Init
           /\ P!Init /\ Q!Init /\ F!Init /\ O!Init /\ N!Init
  BY DEF PInit

\* A behaviour of the parts is one of each part by itself: no part sees the others.
THEOREM PartsRun ==
  PSpec => /\ Spec /\ S!Spec /\ H!Spec /\ G!Spec /\ B!Spec
           /\ P!Spec /\ Q!Spec /\ F!Spec /\ O!Spec /\ N!Spec
  BY PartInit, PartStep, PTL
  DEF PSpec, Spec, S!Spec, H!Spec, G!Spec, B!Spec, P!Spec, Q!Spec, F!Spec, O!Spec, N!Spec

\* Bindings reaches its proofs by a second instance with the same substitution; the
\* two have the same steps, action by action.
LEMMA SameNext ==
  N!Next => NP!Next
<1> SUFFICES ASSUME N!Next
             PROVE  NP!Next
  OBVIOUS
<1> USE DEF N!channel, NP!channel, N!creation, NP!creation, N!removal, NP!removal
<1>1. /\ N!Create => NP!Create
      /\ N!Connect => NP!Connect
      /\ N!Tell => NP!Tell
      /\ N!CloseChannel => NP!CloseChannel
      /\ N!ChannelClosed => NP!ChannelClosed
  BY DEF N!Create, NP!Create, N!Connect, NP!Connect, N!Tell, NP!Tell, N!CloseChannel,
     NP!CloseChannel, N!ChannelClosed, NP!ChannelClosed
<1>2. \A u : N!Page(N!DevicesOf(u)) = NP!Page(NP!DevicesOf(u))
  BY DEF N!DevicesOf, NP!DevicesOf, N!Page, NP!Page, N!Cardinality, NP!Cardinality
<1>3. ASSUME NEW u \in ChatUsers
      PROVE  N!TaskOf(u) => NP!TaskOf(u)
  <2>1. N!NextTask(u) => NP!NextTask(u)
    BY DEF N!NextTask, NP!NextTask, N!Cardinality, NP!Cardinality
  <2>2. \A from, to : N!TaskStep(u, from, to) <=> NP!TaskStep(u, from, to)
    BY DEF N!TaskStep, NP!TaskStep
  <2>3. N!FindDevices(u) => NP!FindDevices(u)
    BY <1>2, <2>2 DEF N!FindDevices, NP!FindDevices
  <2>4. /\ N!FindFails(u) => NP!FindFails(u)
        /\ N!SkipRow(u) => NP!SkipRow(u)
        /\ N!DeclareRow(u) => NP!DeclareRow(u)
        /\ N!DeclareFails(u) => NP!DeclareFails(u)
        /\ N!RowsOver(u) => NP!RowsOver(u)
    BY <2>2 DEF N!FindFails, NP!FindFails, N!SkipRow, NP!SkipRow, N!DeclareRow, NP!DeclareRow,
       N!DeclareFails, NP!DeclareFails, N!RowsOver, NP!RowsOver
  <2>5. N!BindRow(u) => NP!BindRow(u)
    BY DEF N!BindRow, NP!BindRow
  <2> QED
    BY <2>1, <2>3, <2>4, <2>5 DEF N!TaskOf, NP!TaskOf
<1>4. /\ \A d \in Devices : N!BrokerBinds(d) => NP!BrokerBinds(d)
      /\ N!BrokerCloses => NP!BrokerCloses
      /\ N!ClientLearns => NP!ClientLearns
      /\ N!BindOwnQueue => NP!BindOwnQueue
  BY DEF N!BrokerBinds, NP!BrokerBinds, N!BrokerCloses, NP!BrokerCloses, N!ClientLearns,
     NP!ClientLearns, N!BindOwnQueue, NP!BindOwnQueue
<1>5. /\ N!Remove => NP!Remove
      /\ N!RemoverConnects => NP!RemoverConnects
      /\ N!UnbindRow => NP!UnbindRow
      /\ N!Removed => NP!Removed
  BY DEF N!Remove, NP!Remove, N!RemoverConnects, NP!RemoverConnects, N!UnbindRow, NP!UnbindRow,
     N!Removed, NP!Removed, N!Answer, NP!Answer, N!Unbind, NP!Unbind, N!DevicesOf, NP!DevicesOf,
     N!MayStillBind, NP!MayStillBind
<1>6. N!UnbindGiven => NP!UnbindGiven
  BY DEF N!UnbindGiven, NP!UnbindGiven, N!Answer, NP!Answer, N!Unbind, NP!Unbind, N!DevicesOf,
     NP!DevicesOf
<1>7. N!FindLeft => NP!FindLeft
  BY <1>2 DEF N!FindLeft, NP!FindLeft, N!Answer, NP!Answer
<1> QED
  BY <1>1, <1>3, <1>4, <1>5, <1>6, <1>7 DEF N!Next, NP!Next

LEMMA BindingsHere ==
  /\ N!Spec => NP!Spec
  /\ NP!TypeOK => N!TypeOK
  /\ NP!BindingsSettle => N!BindingsSettle
<1>1. N!Init => NP!Init
  BY DEF N!Init, NP!Init
<1>2. UNCHANGED N!vars => UNCHANGED NP!vars
  BY DEF N!vars, NP!vars, N!channel, NP!channel, N!creation, NP!creation, N!removal, NP!removal
<1>3. [N!Next]_(N!vars) => [NP!Next]_(NP!vars)
  BY <1>2, SameNext
<1>4. N!Spec => NP!Spec
  BY <1>1, <1>3, PTL DEF N!Spec, NP!Spec
<1>5. NP!TypeOK => N!TypeOK
  BY DEF N!TypeOK, NP!TypeOK
<1>6. NP!BindingsSettle => N!BindingsSettle
  <2>1. \A u, seen : N!Due(u, seen) = NP!Due(u, seen)
    BY DEF N!Due, NP!Due, N!DevicesOf, NP!DevicesOf, N!Cardinality, NP!Cardinality
  <2> QED
    BY <2>1 DEF N!BindingsSettle, NP!BindingsSettle
<1> QED
  BY <1>4, <1>5, <1>6

\* What is proved of Bindings, in its part.
LEMMA BindingsHold == PSpec => [](N!TypeOK /\ BindingsSettle)
<1>1. NP!BindingsAssumption
  BY PartsAssumption DEF N!BindingsAssumption, NP!BindingsAssumption, N!IsFiniteSet, NP!IsFiniteSet
<1>2. NP!Spec => []NP!IInv
  BY <1>1, NP!BindingsInvariant
<1>3. NP!Spec => []NP!BindingsSettle
  BY <1>1, NP!BindingsDoSettle
<1>4. NP!IInv => NP!TypeOK
  BY DEF NP!IInv
<1> QED
  BY <1>2, <1>3, <1>4, BindingsHere, PartsRun, PTL DEF BindingsSettle

-----------------------------------------------------------------------------
(* The theorems about the parts.                                           *)

\* In whatever part a behaviour of PSpec runs, the state of each part has its type.
THEOREM TypesHold == PSpec => []TypesOK
<1>1. /\ IInv => TypeOK
      /\ SessionInv => S!TypeOK
      /\ ChainInv => H!TypeOK
      /\ GorInv => G!TypeOK
      /\ BrokersInv => B!TypeOK
      /\ PayloadInv => P!TypeOK
      /\ QueriesInv => Q!TypeOK
      /\ FramesInv => F!TypeOK
      /\ OutboxInv => O!TypeOK
  BY DEF IInv, SessionInv, ChainInv, GorInv, BrokersInv, PayloadInv, QueriesInv, FramesInv,
     OutboxInv
<1>2. PSpec => []N!TypeOK
  BY BindingsHold, PTL
<1>3. /\ TypeOK /\ S!TypeOK /\ H!TypeOK /\ G!TypeOK /\ B!TypeOK
      /\ P!TypeOK /\ Q!TypeOK /\ F!TypeOK /\ O!TypeOK /\ N!TypeOK
      => TypesOK
  BY DEF TypesOK
<1> QED
  BY <1>1, <1>2, <1>3, PartsRun, AccountsInvariant, SessionHolds, ChainHolds, GorHolds, BrokersHolds,
     PayloadHolds, QueriesHolds, FramesHolds, OutboxHolds, PTL

\* No client is ever told that it has sent too many requests: whatever history its token
\* carries, LoadUser copies MAX_REQS times of it at most and asks for more
\* (mw-auth/auth.go:319-341).
THEOREM NeverLimited == PSpec => []RateNeverLimited
<1>1. SessionInv => RateNeverLimited
  BY DEF SessionInv
<1> QED
  BY <1>1, PartsRun, SessionHolds, PTL

\* No request loses its values, its unread body or the goroutine that waits for it
\* while its second goroutine is in the chain, and its handler finds just what the
\* layers of its route have prepared, whatever the other requests do
\* (adapters.go:24, main.go:107-110).
THEOREM RequestsStayIntact == PSpec => []RequestIntact
<1>1. ChainInv => RequestIntact
  BY DEF ChainInv, RequestIntact
<1> QED
  BY <1>1, PartsRun, ChainHolds, PTL

\* For any number of callers, slots and connections, the RabbitMQ pool loses no open
\* connection: a caller that stores a new one under the write lock has looked at its
\* slot again (rabbitmq/pool.go:127).
THEOREM ConnectionsKept == PSpec => []RabbitConnsKept
<1>1. BrokersInv => RabbitConnsKept
  BY DEF BrokersInv
<1> QED
  BY <1>1, PartsRun, BrokersHolds, PTL

\* A handler works with the ids it needs or not at all, and a nil pointer is met only
\* where the getters share a hole (zmap.go:377-385) or a key is never read.
THEOREM PayloadsChecked == PSpec => []PayloadChecked
<1>1. PayloadInv => PayloadChecked
  BY PayloadInvChecked DEF PayloadChecked
<1> QED
  BY <1>1, PartsRun, PayloadHolds, PTL

\* What BindingsDoSettle says of Bindings holds of its part: a task without an error, on
\* a channel that the broker kept and nobody closed too early, gets the devices of its
\* user bound, and a removal that overtook nothing leaves those it looked after unbound
\* (conversations/handlers.go:686, chats-map/handlers.go:501).
THEOREM BindingsSettleHere == PSpec => []BindingsSettle
  BY BindingsHold, PTL

\* Whatever interleaves, for any number of items, rows, topics and connections: no item of
\* a frame is answered twice or before it is taken, a helper of MongoDB that has returned
\* has left nothing behind but what the code leaves, no topic of a message is left out
\* or published twice, and the tracker has exactly the functions that run or wait to be
\* closed out, its mutex wedged by the tick of a ListeningAck function only
\* (service.go:704-1261, mongo.go:204-481, push.go, gor.go:73-138).
THEOREM NeverTwiceOrLost == PSpec => []NothingTwiceOrLost
<1>1. FramesInv => F!AnsweredOnce
  BY DEF FramesInv
<1>2. GorInv => G!TrackedExactly /\ G!MutexExplained
  BY DEF GorInv
<1>3. /\ F!AnsweredOnce /\ Q!NothingLeft /\ O!TopicsOnce
      /\ G!TrackedExactly /\ G!MutexExplained
      => NothingTwiceOrLost
  BY DEF NothingTwiceOrLost
<1> QED
  BY <1>1, <1>2, <1>3, QueriesNothingLeft, OutboxTopicsOnce, PartsRun, FramesHolds, QueriesHolds,
     OutboxHolds, GorHolds, PTL
=============================================================================
