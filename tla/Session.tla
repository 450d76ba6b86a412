------------------------------- MODULE Session ------------------------------
(***************************************************************************)
(* Who a request of the REST server comes from.  Three adapters answer     *)
(* that: LoadUser of mw-auth/auth.go (a token that carries the times of    *)
(* the client's latest requests and is replaced by every response),        *)
(* LoadUserFromJWT of load-user.go (a token of thirty minutes and a        *)
(* session in Redis) and LoadUser of load-user.go (a header), the only one *)
(* that is mounted.  The other two are library code: mw-auth does not      *)
(* build (its v1 packages and MAX_REQS are not in the repository), and the *)
(* tables it reads are external.                                           *)
(*                                                                         *)
(* An adapter writes nothing that two requests share, so each call is one  *)
(* step.  A client may keep a token whose replacement it lost.             *)
(***************************************************************************)
EXTENDS Naturals, Sequences

CONSTANTS
  MaxReqs,       \* MAX_REQS: the length of the request history
  Window,        \* MAX_REQS_WINDOW_MILLIS
  Extension,     \* one hour: the least life a new token gets
  LoginLife,     \* the life of the token of a login (loginHandler)
  JwtLife,       \* thirty minutes
  MaxTime,       \* bound of the clock
  Second,        \* the milliseconds of a second
  Roles          \* the names of roles, in capitals

Numbers ==
  /\ {MaxReqs, Window, Extension, LoginLife, JwtLife, MaxTime} \subseteq Nat
  /\ Second \in Nat \ {0}

VARIABLES
  now,           \* the clock
  history,       \* request_history of the client's token, oldest first at login
  expires,       \* should_expire_at of that token
  jwt,           \* expiry of the client's JWT, 0 when it has none
  session,       \* the session in Redis: "none", "valid", "invalid"
  pool,          \* is there a Redis pool?  main passes nil
  code           \* the status of the latest request, 0 when the handler ran

vars == <<now, history, expires, jwt, session, pool, code>>

Panic == 999
TypeOK ==
  /\ now \in Nat
  /\ history \in Seq(Nat)
  /\ expires \in Nat
  /\ jwt \in Nat
  /\ session \in {"none", "valid", "invalid"}
  /\ pool \in BOOLEAN
  /\ code \in {0, 401, 403, 404, 422, 429, 500, Panic}

\* The client has just logged in: loginHandler signs a history of one time, in
\* seconds, where everything else is in milliseconds.  `Second' is their ratio.
\* What signs the first JWT of a client is outside of the repository.
Init ==
  /\ now = Second
  /\ history = <<now \div Second>>
  /\ expires = now + LoginLife
  /\ jwt = now + JwtLife
  /\ session = "valid"
  /\ pool = FALSE
  /\ code = 0

-----------------------------------------------------------------------------
\* checkRoles: every permission must be a role of the user.  RequirePermissions
\* asks the opposite: every role of the user must be a permission.
CheckRoles(roles, permissions) == permissions \subseteq roles
RequiredRoles(roles, permissions) == roles \subseteq permissions

\* Fault: the loop ends one element later.
CopiedOneMore(h) ==
  LET n == IF Len(h) < MaxReqs + 1 THEN Len(h) ELSE MaxReqs + 1
  IN  [i \in 1..n |-> h[Len(h) + 1 - i]]

\* The loop over request_history: from the last element, at most MaxReqs of them.
\* The result is in reverse order.
Copied(h) ==
  LET n == IF Len(h) < MaxReqs THEN Len(h) ELSE MaxReqs
  IN  [i \in 1..n |-> h[Len(h) + 1 - i]]

\* The first element is taken for the oldest.
TooMany(h) == Len(h) > MaxReqs /\ now < h[1] + Window

\* The header and the token: absent, not parsed, a claim missing or of another
\* type, a user that is not found, whose id differs or who is disabled, or roles
\* that cannot be read.  A user whose Disabled is NULL is a nil dereference.
BadToken == code' \in {403, Panic} /\ UNCHANGED <<history, expires>>

\* LoadUser of mw-auth.  The test whether the user is loaded already always
\* fails: GetLoggedInUser casts to another type than the one stored here.  The
\* expiry of the token is not looked at; a token close to it gets another hour.
LoadUser(roles, permissions) ==
  LET copied == Copied(history) IN
  /\ \/ BadToken
     \/ TooMany(copied) /\ code' = 429 /\ UNCHANGED <<history, expires>>
     \/ /\ ~TooMany(copied) /\ ~CheckRoles(roles, permissions)
        /\ code' = 403 /\ UNCHANGED <<history, expires>>
     \/ /\ ~TooMany(copied) /\ CheckRoles(roles, permissions)
        /\ code' = 0
        /\ \/ /\ history' = Append(copied, now)
              /\ expires' = IF expires < now + Extension THEN now + Extension ELSE expires
           \/ UNCHANGED <<history, expires>>     \* the response was lost
  /\ UNCHANGED <<now, jwt, session, pool>>

\* RequirePermissions: the user is the one of the header x-vibe-user-id (a bad
\* one panics); the table of roles may fail.
RequirePermissions(roles, permissions) ==
  /\ \/ code' \in {403, Panic}
     \/ ~RequiredRoles(roles, permissions) /\ code' = 403
     \/ RequiredRoles(roles, permissions) /\ code' = 0
  /\ UNCHANGED <<now, history, expires, jwt, session, pool>>

\* AdminAuth: an RSA token (422), the claims and the table of admins (404), the
\* authentication of the admin (401); its claim may be absent (a panic).
AdminAuth ==
  /\ code' \in {0, 401, 404, 422, Panic}
  /\ UNCHANGED <<now, history, expires, jwt, session, pool>>

-----------------------------------------------------------------------------
\* ReadJWT verifies signature, method and expiry.  CreateToken signs with a
\* string where the method takes bytes, and always fails.
ReadJWT == jwt > now
CreateToken == FALSE

\* LoadUserFromJWT: the ids of the headers must be those of the token, and the
\* session must exist in Redis and not be invalid; without a pool it panics.
LoadUserFromJWT ==
  /\ \/ ~ReadJWT /\ code' = 401 /\ UNCHANGED jwt
     \/ ReadJWT /\ code' = 500 /\ UNCHANGED jwt
     \/ ReadJWT /\ ~pool /\ code' = Panic /\ UNCHANGED jwt
     \/ /\ ReadJWT /\ pool /\ session # "valid"
        /\ code' = 401 /\ UNCHANGED jwt
     \/ ReadJWT /\ pool /\ session = "valid" /\ code' = 401 /\ UNCHANGED jwt  \* Redis fails
     \/ /\ ReadJWT /\ pool /\ session = "valid"
        /\ code' = 0
        /\ jwt' = IF CreateToken THEN now + JwtLife ELSE jwt
  /\ UNCHANGED <<now, history, expires, session, pool>>

\* LoadUser of load-user.go: the header must be an object id, and not be zero
\* (the answer to a zero one dereferences a nil error).
LoadUserFromHeader ==
  /\ code' \in {0, 500, Panic}
  /\ UNCHANGED <<now, history, expires, jwt, session, pool>>

\* The world: time, the sessions in Redis, a caller that gives the context a
\* pool, and a new login.
Tick ==
  /\ now < MaxTime
  /\ now' = now + 1
  /\ UNCHANGED <<history, expires, jwt, session, pool, code>>
SetSession(s) == session' = s /\ UNCHANGED <<now, history, expires, jwt, pool, code>>
GivePool == pool' = TRUE /\ UNCHANGED <<now, history, expires, jwt, session, code>>
Login ==
  /\ history' = <<now \div Second>>
  /\ expires' = now + LoginLife
  /\ code' = 0
  /\ UNCHANGED <<now, jwt, session, pool>>

-----------------------------------------------------------------------------
Next ==
  \/ \E roles, permissions \in SUBSET Roles :
       LoadUser(roles, permissions) \/ RequirePermissions(roles, permissions)
  \/ AdminAuth \/ LoadUserFromJWT \/ LoadUserFromHeader
  \/ Tick \/ GivePool \/ Login
  \/ \E s \in {"none", "valid", "invalid"} : SetSession(s)

Spec == Init /\ [][Next]_vars

-----------------------------------------------------------------------------
\* The limit of requests in a window never applies: the loop that copies the
\* history (auth.go:319-337) leaves at most MAX_REQS times, and the test at
\* auth.go:341 wants more than that, however the tokens were chained.
RateNeverLimited == code # 429
=============================================================================
