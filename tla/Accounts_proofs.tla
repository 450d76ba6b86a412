-------------------------- MODULE Accounts_proofs ---------------------------
(***************************************************************************)
(* For any number of requests and addresses, and any case of letters, no   *)
(* account counts more failed logins than it has met wrong passwords.      *)
(*                                                                         *)
(* A login writes back a counter it read earlier, so CountBounded is not   *)
(* inductive: the copies of the handlers under way have to be bounded too  *)
(* (CopiesBounded).                                                        *)
(***************************************************************************)
EXTENDS Accounts, TLAPS

\* A handler of the login that has read the row of its address.
HasRead(r) == at[r] \in {"check", "wrong", "right"}

\* The counter that a login holds was bounded when it was read, and the wrong
\* passwords only grow.
CopiesBounded ==
  \A r \in Requests : HasRead(r) => copy[r] <= wrong[Lower[addr[r]]]

IInv == TypeOK /\ CountBounded /\ CopiesBounded

-----------------------------------------------------------------------------
\* A handler past its routing has an address, and the login's is one as well.
LEMMA AddressGiven ==
  ASSUME TypeOK, NEW r \in Requests, at[r] \notin {"new", "done"}
  PROVE  /\ addr[r] \in Emails /\ Lower[addr[r]] \in Emails
         /\ given[r] \in Passwords
  BY LowerAssumption DEF TypeOK

LEMMA InitIInv == Init => IInv
  BY KnownAssumption, NoneAssumption
  DEF Init, IInv, TypeOK, CountBounded, CopiesBounded, HasRead, Codes

\* Routing and the steps of the login keep the types.
LEMMA LoginTyped ==
  ASSUME TypeOK, NEW r \in Requests,
         Route(r) \/ LoginLoad(r) \/ LoginCheck(r) \/ LoginWrong(r) \/ LoginRight(r)
  PROVE  TypeOK'
<1> USE DEF TypeOK, Goto, Return, Keep, store, Codes
<1>1. CASE Route(r)
  BY <1>1, NoneAssumption DEF Route
<1>2. CASE LoginLoad(r)
  BY <1>2, AddressGiven DEF LoginLoad
<1>3. CASE LoginCheck(r)
  BY <1>3 DEF LoginCheck
<1>4. CASE LoginWrong(r)
  BY <1>4, AddressGiven DEF LoginWrong, SaveAttempts
<1>5. CASE LoginRight(r)
  BY <1>5, AddressGiven DEF LoginRight, SaveAttempts
<1> QED
  BY <1>1, <1>2, <1>3, <1>4, <1>5

\* The steps of a forgotten password, and the hour of its token, keep the types.
LEMMA ForgotTyped ==
  ASSUME TypeOK
  PROVE  /\ \A r \in Requests : ForgotLoad(r) \/ ForgotNull(r) \/ ForgotMail(r) => TypeOK'
         /\ \A e \in Emails : Hour(e) => TypeOK'
<1> USE DEF TypeOK, Goto, Return, Keep, store, Codes
<1>1. ASSUME NEW r \in Requests, ForgotLoad(r)
      PROVE  TypeOK'
  BY <1>1 DEF ForgotLoad
<1>2. ASSUME NEW r \in Requests, ForgotNull(r)
      PROVE  TypeOK'
  BY <1>2, AddressGiven DEF ForgotNull, Panic
<1>3. ASSUME NEW r \in Requests, ForgotMail(r)
      PROVE  TypeOK'
  BY <1>3, AddressGiven DEF ForgotMail
<1>4. ASSUME NEW e \in Emails, Hour(e)
      PROVE  TypeOK'
  BY <1>4 DEF Hour
<1> QED
  BY <1>1, <1>2, <1>3, <1>4

\* The steps of a new password keep the types.
LEMMA ResetTyped ==
  ASSUME TypeOK, NEW r \in Requests,
         \/ ResetToken(r) \/ ResetAuth(r) \/ ResetSet(r)
         \/ ResetLoad(r) \/ ResetZero(r)
  PROVE  TypeOK'
<1> USE DEF TypeOK, Goto, Return, Keep, store, Codes
<1>1. CASE ResetToken(r)
  BY <1>1 DEF ResetToken
<1>2. CASE ResetAuth(r)
  BY <1>2 DEF ResetAuth
<1>3. CASE ResetSet(r)
  BY <1>3, AddressGiven DEF ResetSet
<1>4. CASE ResetLoad(r)
  BY <1>4 DEF ResetLoad
<1>5. CASE ResetZero(r)
  BY <1>5, AddressGiven DEF ResetZero, SaveAttempts
<1> QED
  BY <1>1, <1>2, <1>3, <1>4, <1>5

\* The steps of a sign-up keep the types.
LEMMA SignTyped ==
  ASSUME TypeOK, NEW r \in Requests,
         \/ SignBegin(r) \/ SignUser(r) \/ SignRow(r, "pwd", "email")
         \/ SignRow(r, "email", "commit") \/ SignCommit(r) \/ Welcome(r)
  PROVE  TypeOK'
<1> USE DEF TypeOK, Goto, Return, Keep, store, Codes
<1>1. CASE SignBegin(r)
  BY <1>1 DEF SignBegin, Panic
<1>2. CASE SignUser(r)
  BY <1>2, AddressGiven DEF SignUser, Rollback
<1>3. CASE SignRow(r, "pwd", "email")
  BY <1>3 DEF SignRow, Rollback
<1>4. CASE SignRow(r, "email", "commit")
  BY <1>4 DEF SignRow, Rollback
<1>5. CASE SignCommit(r)
  <2>1. addr[r] \in Emails /\ given[r] \in Passwords
    BY <1>5, AddressGiven DEF SignCommit
  <2> QED
    BY <1>5, <2>1 DEF SignCommit
<1>6. CASE Welcome(r)
  BY <1>6 DEF Welcome
<1> QED
  BY <1>1, <1>2, <1>3, <1>4, <1>5, <1>6

LEMMA TypeStep == TypeOK /\ [Next]_vars => TypeOK'
<1> SUFFICES ASSUME TypeOK, [Next]_vars
             PROVE  TypeOK'
  OBVIOUS
<1>1. CASE \E r \in Requests : Step(r)
  BY <1>1, LoginTyped, ForgotTyped, ResetTyped, SignTyped DEF Step
<1>2. CASE \E e \in Emails : Hour(e)
  BY <1>2, ForgotTyped
<1>3. CASE UNCHANGED vars
  BY <1>3 DEF vars, TypeOK, Codes
<1> QED
  BY <1>1, <1>2, <1>3 DEF Next

-----------------------------------------------------------------------------
\* The counters are written by the login and by the new password only: a step of
\* another handler leaves them, and the copies, and begins no check of a password.
LEMMA OthersLeaveCounts ==
  ASSUME TypeOK, NEW r \in Requests,
         \/ Route(r) \/ ForgotLoad(r) \/ ForgotNull(r) \/ ForgotMail(r)
         \/ ResetToken(r) \/ ResetAuth(r) \/ ResetSet(r) \/ ResetLoad(r)
         \/ SignBegin(r) \/ SignUser(r) \/ SignRow(r, "pwd", "email")
         \/ SignRow(r, "email", "commit") \/ SignCommit(r) \/ Welcome(r)
  PROVE  /\ UNCHANGED <<attempts, wrong, copy>>
         /\ \A q \in Requests :
              HasRead(q)' => HasRead(q) /\ addr'[q] = addr[q]
<1> USE DEF TypeOK, HasRead, Goto, Return, Keep, store
<1>1. CASE Route(r) \/ ForgotLoad(r) \/ ForgotNull(r) \/ ForgotMail(r)
  BY <1>1 DEF Route, ForgotLoad, ForgotNull, ForgotMail
<1>2. CASE ResetToken(r) \/ ResetAuth(r) \/ ResetSet(r) \/ ResetLoad(r)
  BY <1>2 DEF ResetToken, ResetAuth, ResetSet, ResetLoad
<1>3. CASE SignBegin(r) \/ SignUser(r)
  BY <1>3 DEF SignBegin, SignUser
<1>4. CASE SignRow(r, "pwd", "email") \/ SignRow(r, "email", "commit")
  BY <1>4 DEF SignRow
<1>5. CASE SignCommit(r) \/ Welcome(r)
  BY <1>5 DEF SignCommit, Welcome
<1> QED
  BY <1>1, <1>2, <1>3, <1>4, <1>5

\* A step that leaves the counters as OthersLeaveCounts says keeps both bounds.
LEMMA CountsLeft ==
  ASSUME CountBounded, CopiesBounded, UNCHANGED <<attempts, wrong, copy>>,
         \A q \in Requests : HasRead(q)' => HasRead(q) /\ addr'[q] = addr[q]
  PROVE  CountBounded' /\ CopiesBounded'
  BY DEF CountBounded, CopiesBounded

\* Each step of the login, and the last one of a new password, keeps both bounds.
LEMMA CountsKept ==
  ASSUME IInv, NEW r \in Requests,
         \/ LoginLoad(r) \/ LoginCheck(r) \/ LoginWrong(r) \/ LoginRight(r)
         \/ ResetZero(r)
  PROVE  CountBounded' /\ CopiesBounded'
<1>1. TypeOK /\ CountBounded /\ CopiesBounded
  BY DEF IInv
<1>2. addr[r] \in Emails /\ Lower[addr[r]] \in Emails
  BY <1>1, AddressGiven DEF LoginLoad, LoginCheck, LoginWrong, LoginRight, ResetZero
<1> USE <1>1, <1>2 DEF TypeOK, CountBounded, CopiesBounded, HasRead, Goto, Return, Keep, store
<1>3. CASE LoginLoad(r)
  BY <1>3 DEF LoginLoad
<1>4. CASE LoginCheck(r)
  BY <1>4 DEF LoginCheck
<1>5. CASE LoginWrong(r)
  <2> DEFINE e == Lower[addr[r]]
  <2>1. copy[r] <= wrong[e]
    BY <1>5 DEF LoginWrong
  <2>2. wrong' = [wrong EXCEPT ![e] = @ + 1]
    BY <1>5 DEF LoginWrong
  <2>3. \A f \in Emails : attempts'[f] <= wrong'[f]
    BY <1>5, <2>1, <2>2 DEF LoginWrong, SaveAttempts
  <2>4. \A f \in Emails : wrong[f] <= wrong'[f]
    BY <2>2
  <2>5. ASSUME NEW q \in Requests, HasRead(q)'
        PROVE  copy'[q] <= wrong'[Lower[addr'[q]]]
    <3>1. HasRead(q) /\ addr'[q] = addr[q] /\ copy' = copy
      BY <1>5, <2>5 DEF LoginWrong
    <3>2. Lower[addr[q]] \in Emails
      BY <3>1, AddressGiven
    <3>3. copy[q] <= wrong[Lower[addr[q]]]
      BY <3>1
    <3>4. wrong' \in [Emails -> Nat]
      BY <2>2
    <3> QED
      BY <2>4, <3>1, <3>2, <3>3, <3>4
  <2> QED
    BY <2>3, <2>5
<1>6. CASE LoginRight(r)
  BY <1>6 DEF LoginRight, SaveAttempts
<1>7. CASE ResetZero(r)
  BY <1>7 DEF ResetZero, SaveAttempts
<1> QED
  BY <1>3, <1>4, <1>5, <1>6, <1>7

LEMMA StepIInv == IInv /\ [Next]_vars => IInv'
<1> SUFFICES ASSUME IInv, [Next]_vars
             PROVE  IInv'
  OBVIOUS
<1>1. TypeOK /\ CountBounded /\ CopiesBounded
  BY DEF IInv
<1>2. TypeOK'
  BY <1>1, TypeStep
<1>3. CASE \E r \in Requests : Step(r)
  BY <1>1, <1>2, <1>3, OthersLeaveCounts, CountsLeft, CountsKept DEF Step, IInv
<1>4. CASE \E e \in Emails : Hour(e)
  BY <1>1, <1>2, <1>4 DEF Hour, IInv, CountBounded, CopiesBounded, HasRead
<1>5. CASE UNCHANGED vars
  BY <1>1, <1>2, <1>5 DEF vars, IInv, CountBounded, CopiesBounded, HasRead
<1> QED
  BY <1>3, <1>4, <1>5 DEF Next

-----------------------------------------------------------------------------
\* Every row, copy and answer is what the handlers take it for, and the accounts'
\* counters are bounded with their copies (login/handlers.go:153, :242).
THEOREM AccountsInvariant == Spec => []IInv
  BY InitIInv, StepIInv, PTL DEF Spec

\* Stale writes of whole rows lose failed logins, and never invent one.
THEOREM CountNeverInvented == Spec => []CountBounded
<1>1. IInv => CountBounded
  BY DEF IInv
<1> QED
  BY <1>1, AccountsInvariant, PTL
=============================================================================
