------------------------------ MODULE Accounts ------------------------------
(***************************************************************************)
(* Sign-up, login, forgotten and reset passwords: login/handlers.go,       *)
(* sign-up/handlers.go and the two mails of sign-up.  The packages are     *)
(* library code: no import of main reaches them and they import packages   *)
(* that are not in the repository, so the database behind the models       *)
(* (Postgres: row locks of an open transaction, a unique address), Mailgun *)
(* and the rate limiter are external.                                      *)
(*                                                                         *)
(* Each handler reads a row, works on its copy and writes the WHOLE row    *)
(* back (user.Update with boil.Infer), without a transaction or a version: *)
(* the requests interleave between the read and the write.  An account is  *)
(* named by its address as stored; an address is stored as it was typed,   *)
(* while the login looks for its lower-case form.                          *)
(***************************************************************************)
EXTENDS Naturals, FiniteSets

CONSTANTS
  Requests,      \* the requests, each served once
  Emails,        \* addresses as users type them
  Lower,         \* [Emails -> Emails]: strings.ToLower
  Passwords,     \* plain passwords
  Known,         \* accounts there are before: address -> password
  MaxAttempts,   \* MAX_LOGIN_ATTEMPTS_BEFORE_FORCE_PWD_RESET
  None           \* no password (the JSON null of a forgotten one), no request, no address

ASSUME LowerAssumption ==
  Lower \in [Emails -> Emails] /\ \A e \in Emails : Lower[Lower[e]] = Lower[e]
ASSUME KnownAssumption ==
  DOMAIN Known \subseteq Emails /\ \A e \in DOMAIN Known : Known[e] \in Passwords
ASSUME MaxAttemptsAssumption == MaxAttempts \in Nat
ASSUME NoneAssumption == None \notin Passwords \cup Requests \cup Emails

VARIABLES
  users,         \* addresses with a committed account
  attempts,      \* address -> LoginAttempts of the user's row
  pwd,           \* address -> password of the auth row, None after "forgot"
  lock,          \* address -> request whose open transaction inserted it
  token,         \* address -> "none", "fresh", "old": the mailed reset token
  at,            \* request -> where its handler is
  addr, given,   \* request -> address and password of its body
  copy,          \* request -> LoginAttempts of the row it loaded
  answer,        \* request -> status code, 0 while there is none
  wrong          \* history: address -> wrong passwords met by the login

store == <<users, attempts, pwd, lock, token>>
vars == <<users, attempts, pwd, lock, token, at, addr, given, copy, answer, wrong>>

Panic == 999     \* not a status: the handler panicked
Codes == {200, 202, 401, 403, 404, 409, 410, 422, 429, 500, 501, Panic}

TypeOK ==
  /\ users \subseteq Emails
  /\ attempts \in [Emails -> Nat]
  /\ pwd \in [Emails -> Passwords \cup {None}]
  /\ lock \in [Emails -> Requests \cup {None}]
  /\ token \in [Emails -> {"none", "fresh", "old"}]
  /\ at \in [Requests -> {"new", "login", "check", "wrong", "right", "forgot",
                          "null", "mail", "reset", "auth", "set", "load", "zero",
                          "begin", "user", "pwd", "email", "commit", "welcome", "done"}]
  /\ addr \in [Requests -> Emails \cup {None}]
  /\ given \in [Requests -> Passwords \cup {None}]
  /\ \A r \in Requests : at[r] \notin {"new", "done"} => addr[r] # None /\ given[r] # None
  /\ copy \in [Requests -> Nat]
  /\ answer \in [Requests -> Codes \cup {0}]
  /\ wrong \in [Emails -> Nat]

Init ==
  /\ users = DOMAIN Known
  /\ attempts = [e \in Emails |-> 0]
  /\ pwd = [e \in Emails |-> IF e \in DOMAIN Known THEN Known[e] ELSE None]
  /\ lock = [e \in Emails |-> None]
  /\ token = [e \in Emails |-> "none"]
  /\ at = [r \in Requests |-> "new"]
  /\ addr = [r \in Requests |-> None]
  /\ given = [r \in Requests |-> None]
  /\ copy = [r \in Requests |-> 0]
  /\ answer = [r \in Requests |-> 0]
  /\ wrong = [e \in Emails |-> 0]

-----------------------------------------------------------------------------
\* The handler goes on at `where'; or it returns with a status.
Goto(r, where) == at' = [at EXCEPT ![r] = where]
Return(r, code) ==
  /\ Goto(r, "done")
  /\ answer' = [answer EXCEPT ![r] = code]
  /\ UNCHANGED <<addr, given, copy>>
Keep == UNCHANGED <<addr, given, copy, answer>>

\* A request is routed to its handler; the routes of login and sign-up are
\* behind a limit of 15 requests in two minutes in production.  A body that
\* does not decode or lacks a field is answered here.
Route(r) ==
  /\ at[r] = "new"
  /\ \/ /\ \E where \in {"login", "forgot", "reset", "begin"} : Goto(r, where)
        /\ \E e \in Emails : addr' = [addr EXCEPT ![r] = e]
        /\ \E p \in Passwords : given' = [given EXCEPT ![r] = p]
        /\ UNCHANGED <<copy, answer>>
     \/ \E code \in {401, 404, 422, 429, 500, 501} : Return(r, code)
  /\ UNCHANGED <<store, wrong>>

\* loginHandler: the row of the lower-case address.
LoginLoad(r) ==
  /\ at[r] = "login"
  /\ LET e == Lower[addr[r]] IN
     \/ Return(r, 401)                                    \* any error, no row
     \/ /\ e \in users /\ attempts[e] > MaxAttempts
        /\ Return(r, 403)
     \/ /\ e \in users /\ attempts[e] <= MaxAttempts
        /\ Goto(r, "check")
        /\ copy' = [copy EXCEPT ![r] = attempts[e]]
        /\ UNCHANGED <<addr, given, answer>>
  /\ UNCHANGED <<store, wrong>>

\* The password row: 410 when a reset is pending; then the comparison; then a
\* disabled account (nothing in the repository sets the column) gets 401.  A
\* failing read, or signing of the token, gets 500.  ALLOW_LOGIN_AS_ANYONE is off.
LoginCheck(r) ==
  /\ at[r] = "check"
  /\ LET e == Lower[addr[r]] IN
     \/ Return(r, 500)
     \/ pwd[e] = None /\ Return(r, 410)
     \/ pwd[e] \notin {None, given[r]} /\ Goto(r, "wrong") /\ Keep
     \/ pwd[e] = given[r] /\ Return(r, 401)
     \/ pwd[e] = given[r] /\ Goto(r, "right") /\ Keep
  /\ UNCHANGED <<store, wrong>>

\* user.Update writes the loaded row with the counter set; its error is logged.
SaveAttempts(e, n) ==
  /\ attempts' \in {attempts, [attempts EXCEPT ![e] = n]}
  /\ UNCHANGED <<users, pwd, lock, token>>

\* Fault: a rejected login counts twice.
LoginWrongCountsTwice(r) ==
  /\ at[r] = "wrong"
  /\ SaveAttempts(Lower[addr[r]], copy[r] + 2)
  /\ wrong' = [wrong EXCEPT ![Lower[addr[r]]] = @ + 1]
  /\ Return(r, 401)

LoginWrong(r) ==
  /\ at[r] = "wrong"
  /\ SaveAttempts(Lower[addr[r]], copy[r] + 1)
  /\ wrong' = [wrong EXCEPT ![Lower[addr[r]]] = @ + 1]
  /\ Return(r, 401)

LoginRight(r) ==
  /\ at[r] = "right"
  /\ SaveAttempts(Lower[addr[r]], 0)
  /\ UNCHANGED wrong
  /\ Return(r, 200)

-----------------------------------------------------------------------------
\* forgotPasswordHandler: the row of the address as typed, and its auth row.
ForgotLoad(r) ==
  /\ at[r] = "forgot"
  /\ \/ Return(r, 500)
     \/ addr[r] \in users /\ Goto(r, "null") /\ Keep
  /\ UNCHANGED <<store, wrong>>

\* The password is overwritten with null; an error is only logged.  Signing the
\* token or filling the templates may fail afterwards, and an address whose
\* domain has no dot panics.
ForgotNull(r) ==
  /\ at[r] = "null"
  /\ pwd' \in {pwd, [pwd EXCEPT ![addr[r]] = None]}
  /\ UNCHANGED <<users, attempts, lock, token, wrong>>
  /\ \/ Goto(r, "mail") /\ Keep
     \/ \E code \in {500, Panic} : Return(r, code)

ForgotMail(r) ==
  /\ at[r] = "mail"
  /\ \/ token' = [token EXCEPT ![addr[r]] = "fresh"] /\ Return(r, 200)
     \/ UNCHANGED token /\ Return(r, 500)
  /\ UNCHANGED <<users, attempts, pwd, lock, wrong>>

\* The hour after which a mailed token is refused.
Hour(e) ==
  /\ token[e] = "fresh"
  /\ token' = [token EXCEPT ![e] = "old"]
  /\ UNCHANGED <<users, attempts, pwd, lock, at, addr, given, copy, answer, wrong>>

\* resetPasswordHandler: the token, which is not consumed; then the auth row,
\* the address of the body, the strength of the password and its encoding.
ResetToken(r) ==
  /\ at[r] = "reset"
  /\ \/ token[addr[r]] = "fresh" /\ Goto(r, "auth") /\ Keep
     \/ Return(r, 422)
  /\ UNCHANGED <<store, wrong>>

ResetAuth(r) ==
  /\ at[r] = "auth"
  /\ \/ Goto(r, "set") /\ Keep
     \/ \E code \in {422, 500} : Return(r, code)
  /\ UNCHANGED <<store, wrong>>

\* The new password; an error, or a count of rows other than one, ends with 500.
ResetSet(r) ==
  /\ at[r] = "set"
  /\ \/ /\ pwd' = [pwd EXCEPT ![addr[r]] = given[r]]
        /\ Goto(r, "load") /\ Keep
     \/ UNCHANGED pwd /\ Return(r, 500)
  /\ UNCHANGED <<users, attempts, lock, token, wrong>>

ResetLoad(r) ==
  /\ at[r] = "load"
  /\ \/ Goto(r, "zero") /\ Keep
     \/ Return(r, 500)
  /\ UNCHANGED <<store, wrong>>

ResetZero(r) ==
  /\ at[r] = "zero"
  /\ SaveAttempts(addr[r], 0)
  /\ UNCHANGED wrong
  /\ Return(r, 200)

-----------------------------------------------------------------------------
\* signUp: the checks of the body, then a transaction.  When it cannot be begun
\* the deferred Rollback runs on a nil *sql.Tx.
SignBegin(r) ==
  /\ at[r] = "begin"
  /\ \/ Goto(r, "user") /\ Keep
     \/ \E code \in {422, 500, Panic} : Return(r, code)
  /\ UNCHANGED <<store, wrong>>

\* Fault: dbTransactionFinish set when the user is inserted, so nothing rolls
\* the transaction back.
NoRollback(r) == UNCHANGED lock

\* The deferred Rollback: what the transaction inserted is undone.
Rollback(r) == lock' = [e \in Emails |-> IF lock[e] = r THEN None ELSE lock[e]]

\* The insert waits for an open transaction that inserted the same address.
SignUser(r) ==
  /\ at[r] = "user"
  /\ lock[addr[r]] = None
  /\ \/ addr[r] \in users /\ Return(r, 409) /\ Rollback(r)
     \/ addr[r] \notin users /\ Return(r, 500) /\ Rollback(r)
     \/ /\ addr[r] \notin users
        /\ lock' = [lock EXCEPT ![addr[r]] = r]
        /\ Goto(r, "pwd") /\ Keep
  /\ UNCHANGED <<users, attempts, pwd, token, wrong>>

\* The password row, then the e-mail row.
SignRow(r, from, to) ==
  /\ at[r] = from
  /\ \/ Goto(r, to) /\ Keep /\ UNCHANGED lock
     \/ Return(r, 500) /\ Rollback(r)
  /\ UNCHANGED <<users, attempts, pwd, token, wrong>>

\* Commit; when it fails it may have taken effect.
SignCommit(r) ==
  LET e == addr[r] IN
  /\ at[r] = "commit"
  /\ \/ users' = users \cup {e} /\ pwd' = [pwd EXCEPT ![e] = given[r]]
     \/ UNCHANGED <<users, pwd>>
  /\ lock' = [f \in Emails |-> IF lock[f] = r THEN None ELSE lock[f]]
  /\ \/ /\ users' # users
        /\ Goto(r, "welcome")
        /\ answer' = [answer EXCEPT ![r] = 202]
        /\ UNCHANGED <<addr, given, copy>>
     \/ Return(r, 500)
  /\ UNCHANGED <<attempts, token, wrong>>

\* The welcome mail, in a goroutine of its own; an error is logged.
Welcome(r) ==
  /\ at[r] = "welcome"
  /\ Goto(r, "done")
  /\ UNCHANGED <<store, addr, given, copy, answer, wrong>>

-----------------------------------------------------------------------------
Step(r) ==
  \/ Route(r)
  \/ LoginLoad(r) \/ LoginCheck(r) \/ LoginWrong(r) \/ LoginRight(r)
  \/ ForgotLoad(r) \/ ForgotNull(r) \/ ForgotMail(r)
  \/ ResetToken(r) \/ ResetAuth(r) \/ ResetSet(r) \/ ResetLoad(r) \/ ResetZero(r)
  \/ SignBegin(r) \/ SignUser(r) \/ SignRow(r, "pwd", "email")
  \/ SignRow(r, "email", "commit") \/ SignCommit(r) \/ Welcome(r)

Next == (\E r \in Requests : Step(r)) \/ (\E e \in Emails : Hour(e))

Spec == Init /\ [][Next]_vars
FairSpec == Spec /\ \A r \in Requests : WF_vars(Step(r))
-----------------------------------------------------------------------------
\* The counter that locks an account never exceeds the wrong passwords the
\* account has met, although every login writes back a row it read earlier: the
\* stale writes only lose counts (login/handlers.go:153, :242).
CountBounded == \A e \in Emails : attempts[e] <= wrong[e]

\* A request that was routed is answered: a sign-up that fails half-way rolls its
\* transaction back, so the next one of the address does not wait for ever.
RequestsAnswered == \A r \in Requests : at[r] # "new" ~> answer[r] # 0
=============================================================================
