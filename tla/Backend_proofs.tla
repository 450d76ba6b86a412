--------------------------- MODULE Backend_proofs ---------------------------
(***************************************************************************)
(* Theorems about Backend, for any number of requests, ids, users and      *)
(* starts of the process.                                                  *)
(***************************************************************************)
EXTENDS Backend, TLAPS

\* Everything that request r may ever write.
Own(r) ==
    {Sequence(r), Conv(r), Tombstone(r), EmptyConv(r), Device(r), User(r)}
        \cup {Member(u, r) : u \in UsersOf[r]}

LEMMA OwnDocs ==
  ASSUME NEW r \in Requests, NEW d \in Own(r)
  PROVE  d \in Docs /\ d.by = r
BY BackendAssumption
   DEF Own, Docs, Doc, Sequence, Conv, Member, Tombstone, EmptyConv, Device,
       User

-----------------------------------------------------------------------------
(* Types                                                                   *)

LEMMA InsertTypes ==
  ASSUME TypeOK, NEW r \in Requests, NEW d \in Own(r),
         NEW next \in InTransaction, Insert(r, d, next),
         seqNum' \in [Requests -> Nat]
  PROVE  TypeOK'
<1>1. d \in Docs
  BY OwnDocs
<1>2. writes' \in [Requests -> SUBSET Docs]
  BY <1>1 DEF Insert, TypeOK
<1>3. pc' \in [Requests -> InTransaction \cup {"new", "after", "done", "lost"}]
  BY DEF Insert, TypeOK
<1> QED
  BY <1>2, <1>3 DEF Insert, TypeOK

\* What a commit that takes effect leaves has its types.
LEMMA TakesEffectTypes ==
  ASSUME TypeOK, NEW r \in Requests, TakesEffect(r)
  PROVE  /\ db' \subseteq Docs
         /\ seqValue' \in Nat
         /\ writes' \in [Requests -> SUBSET Docs]
BY DEF TakesEffect, TypeOK

LEMMA GiveUpTypes ==
  ASSUME TypeOK, NEW r \in Requests, GiveUp(r)
  PROVE  /\ pc' \in [Requests ->
                        InTransaction \cup {"new", "after", "done", "lost"}]
         /\ answer' \in [Requests -> {0, 200, 500}]
BY DEF GiveUp, TypeOK

\* The types are inductive: a step of a handler sets a sequence number only
\* from the sequence, and never the -1 of an error.
LEMMA TypesPreserved ==
  ASSUME TypeOK, [Next]_vars
  PROVE  TypeOK'
<1>1. CASE Start
  BY <1>1, BackendAssumption DEF Start, TypeOK
<1>2. CASE Killed
  BY <1>2 DEF Killed, Die, TypeOK
<1>3. ASSUME NEW r \in Requests, Reject(r)
      PROVE  TypeOK'
  BY <1>3 DEF Reject, TypeOK
<1>4. ASSUME NEW r \in Requests, Begin(r)
      PROVE  TypeOK'
  BY <1>4 DEF Begin, TypeOK, InTransaction
<1>5. ASSUME NEW r \in Requests, RabbitTask(r) \/ RemovalPanics(r)
      PROVE  TypeOK'
  <2>1. Die
    BY <1>5 DEF RabbitTask, RemovalPanics
  <2> QED
    BY <2>1 DEF Die, TypeOK
<1>6. ASSUME NEW r \in Requests, Expire(r)
      PROVE  TypeOK'
  BY <1>6 DEF Expire, TypeOK
<1>7. ASSUME NEW r \in Requests, IncrementSequence(r)
      PROVE  TypeOK'
  <2>1. seqNum' \in [Requests -> Nat]
    BY <1>7 DEF IncrementSequence, TypeOK
  <2>2. Insert(r, Sequence(r), "conv")
    BY <1>7 DEF IncrementSequence
  <2> QED
    BY <2>1, <2>2, InsertTypes DEF Own, InTransaction
<1>8. ASSUME NEW r \in Requests,
             \/ InsertConv(r)
             \/ InsertTombstone(r)
             \/ InsertEmptyConv(r)
             \/ InsertDevice(r)
             \/ InsertUser(r)
      PROVE  TypeOK'
  <2>1. seqNum' \in [Requests -> Nat]
    BY <1>8 DEF InsertConv, InsertTombstone, InsertEmptyConv, InsertDevice,
                InsertUser, TypeOK
  <2>2. \E d \in Own(r), next \in InTransaction : Insert(r, d, next)
    BY <1>8 DEF InsertConv, InsertTombstone, InsertEmptyConv, InsertDevice,
                InsertUser, Own, InTransaction
  <2> QED
    BY <2>1, <2>2, InsertTypes
<1>9. ASSUME NEW r \in Requests, InsertMember(r)
      PROVE  TypeOK'
  <2>1. seqNum' \in [Requests -> Nat]
    BY <1>9 DEF InsertMember, TypeOK
  <2>2. \E d \in Own(r) : Insert(r, d, "members")
    BY <1>9 DEF InsertMember, Pending, Own
  <2> QED
    BY <2>1, <2>2, InsertTypes DEF InTransaction
<1>10. ASSUME NEW r \in Requests, Fail(r)
       PROVE  TypeOK'
  <2>1. writes' \in [Requests -> SUBSET Docs]
    BY <1>10 DEF Fail, TypeOK
  <2>2. transient' \in [Requests -> BOOLEAN]
    <3>1. \/ transient' = transient
          \/ transient' = [transient EXCEPT ![r] = TRUE]
      BY <1>10 DEF Fail
    <3>2. transient \in [Requests -> BOOLEAN]
      BY DEF TypeOK
    <3> QED
      BY <3>1, <3>2, Zenon
  <2> QED
    BY <1>10, <2>1, <2>2, GiveUpTypes DEF Fail, TypeOK
<1>11. ASSUME NEW r \in Requests, RetryRemoval(r)
       PROVE  TypeOK'
  BY <1>11 DEF RetryRemoval, TypeOK, InTransaction
<1>12. ASSUME NEW r \in Requests, Commit(r)
       PROVE  TypeOK'
  BY <1>12, TakesEffectTypes DEF Commit, TypeOK
<1>13. ASSUME NEW r \in Requests, CommitLost(r)
       PROVE  TypeOK'
  BY <1>13, TakesEffectTypes, GiveUpTypes DEF CommitLost, TypeOK
<1>14. ASSUME NEW r \in Requests,
              CreateTopic(r) \/ AnswerSignUp(r)
       PROVE  TypeOK'
  <2>1. PICK code \in {200, 500}, starts \in BOOLEAN : Respond(r, code, starts)
    BY <1>14 DEF CreateTopic, AnswerSignUp
  <2>2. task' \in [Requests -> BOOLEAN]
    <3>1. task' = [task EXCEPT ![r] = starts] /\ task \in [Requests -> BOOLEAN]
      BY <2>1 DEF Respond, TypeOK
    <3> QED
      BY <3>1, Zenon
  <2>3. /\ pc' = [pc EXCEPT ![r] = "done"]
        /\ answer' = [answer EXCEPT ![r] = code]
        /\ UNCHANGED <<up, kind, seqNum, writes, db, seeds, seqValue,
                       transient, tries>>
    BY <2>1 DEF Respond
  <2> QED
    BY <2>2, <2>3 DEF TypeOK
<1>15. CASE UNCHANGED vars
  BY <1>15 DEF vars, TypeOK
<1> QED
  BY <1>1, <1>2, <1>3, <1>4, <1>5, <1>6, <1>7, <1>8, <1>9, <1>10, <1>11,
     <1>12, <1>13, <1>14, <1>15 DEF Next, HandlerStep

LEMMA InitTypes == Init => TypeOK
<1> SUFFICES ASSUME Init PROVE TypeOK
  OBVIOUS
<1>1. transient \in [Requests -> BOOLEAN] /\ task \in [Requests -> BOOLEAN]
  BY Zenon DEF Init
<1>2. pc \in [Requests -> InTransaction \cup {"new", "after", "done", "lost"}]
  BY DEF Init
<1>3. /\ kind \in [Requests -> {"none", "create", "remove", "user"}]
      /\ seqNum \in [Requests -> Nat]
      /\ writes \in [Requests -> SUBSET Docs]
      /\ tries \in [Requests -> 0..1]
      /\ answer \in [Requests -> {0, 200, 500}]
  BY DEF Init
<1>4. up \in BOOLEAN
  BY DEF Init
<1>5. /\ db \subseteq Docs
      /\ seeds \in 0..MaxSeeds
      /\ seqValue \in Nat
  BY BackendAssumption DEF Init
<1> QED
  BY <1>1, <1>2, <1>3, <1>4, <1>5 DEF TypeOK

-----------------------------------------------------------------------------
(* What a transaction has written                                          *)

OrderOf(r) ==
    /\ writes[r] \subseteq Own(r)
    /\ pc[r] \in {"new", "increment", "tombstone", "device"} => writes[r] = {}
    /\ pc[r] = "conv" => writes[r] = {Sequence(r)}
    /\ pc[r] = "members" =>
          /\ Sequence(r) \in writes[r]
          /\ Conv(r) \in writes[r]
          /\ writes[r] \subseteq {Sequence(r), Conv(r)}
                                    \cup {Member(u, r) : u \in UsersOf[r]}
    /\ pc[r] = "emptyConv" => writes[r] = {Tombstone(r)}
    /\ pc[r] = "commitRemoval" => writes[r] = {Tombstone(r), EmptyConv(r)}
    /\ pc[r] = "user" => writes[r] = {Device(r)}
    /\ pc[r] = "commitUser" => writes[r] = {Device(r), User(r)}

\* Where a handler is says what its transaction holds.
InOrder == \A r \in Requests : OrderOf(r)

LEMMA DieKeepsOrder ==
  ASSUME TypeOK, InOrder, Die
  PROVE  InOrder'
<1> SUFFICES ASSUME NEW q \in Requests PROVE OrderOf(q)'
  BY DEF InOrder
<1>1. /\ pc'[q] \in {"new", "done", "lost"}
      /\ pc'[q] = "new" => pc[q] = "new"
      /\ writes' = writes
  BY DEF Die, TypeOK
<1> QED
  BY <1>1 DEF InOrder, OrderOf

\* A request disturbs no other one.
LEMMA OthersUntouched ==
  ASSUME TypeOK, NEW r \in Requests, NEW q \in Requests \ {r},
         Reject(r) \/ Begin(r) \/ Expire(r) \/ HandlerStep(r)
  PROVE  /\ pc'[q] = pc[q]
         /\ writes'[q] = writes[q]
         /\ seqNum'[q] = seqNum[q]
         /\ kind'[q] = kind[q]
         /\ answer'[q] = answer[q]
<1>1. CASE Reject(r) \/ Begin(r) \/ Expire(r)
  BY <1>1 DEF Reject, Begin, Expire, TypeOK
<1>2. CASE \/ IncrementSequence(r)
           \/ InsertConv(r)
           \/ InsertMember(r)
           \/ InsertTombstone(r)
           \/ InsertEmptyConv(r)
           \/ InsertDevice(r)
           \/ InsertUser(r)
  BY <1>2 DEF IncrementSequence, InsertConv, InsertMember, InsertTombstone,
              InsertEmptyConv, InsertDevice, InsertUser, Insert, TypeOK
<1>3. CASE Fail(r) \/ RetryRemoval(r)
  BY <1>3 DEF Fail, RetryRemoval, GiveUp, TypeOK
<1>4. CASE Commit(r) \/ CommitLost(r)
  BY <1>4 DEF Commit, CommitLost, TakesEffect, GiveUp, TypeOK
<1>5. CASE CreateTopic(r) \/ AnswerSignUp(r)
  BY <1>5 DEF CreateTopic, AnswerSignUp, Respond, TypeOK
<1> QED
  BY <1>1, <1>2, <1>3, <1>4, <1>5 DEF HandlerStep

LEMMA OrderPreserved ==
  ASSUME TypeOK, InOrder, [Next]_vars
  PROVE  InOrder'
<1>1. CASE Start
  BY <1>1 DEF Start, InOrder, OrderOf
<1>2. CASE Killed
  BY <1>2, DieKeepsOrder DEF Killed
<1>3. ASSUME NEW r \in Requests, RabbitTask(r) \/ RemovalPanics(r)
      PROVE  InOrder'
  BY <1>3, DieKeepsOrder DEF RabbitTask, RemovalPanics
<1>4. ASSUME NEW r \in Requests,
             Reject(r) \/ Begin(r) \/ Expire(r) \/ HandlerStep(r)
      PROVE  InOrder'
  <2>1. ASSUME NEW q \in Requests \ {r}
        PROVE  OrderOf(q)'
    <3>1. OrderOf(q)
      BY DEF InOrder
    <3> QED
      BY <1>4, <2>1, <3>1, OthersUntouched DEF OrderOf
  <2>2. OrderOf(r)'
    <3> USE DEF TypeOK
    <3>0. OrderOf(r)
      BY DEF InOrder
    <3>1. CASE Reject(r) \/ Begin(r) \/ Expire(r)
      BY <3>0, <3>1 DEF Reject, Begin, Expire, InTransaction, OrderOf
    <3>2. CASE IncrementSequence(r) \/ InsertConv(r)
      BY <3>0, <3>2 DEF IncrementSequence, InsertConv, Insert, OrderOf, Own
    <3>3. CASE InsertMember(r)
      <4>1. PICK u \in UsersOf[r] :
                /\ writes' = [writes EXCEPT ![r] = @ \cup {Member(u, r)}]
                /\ pc[r] = "members"
                /\ pc' = [pc EXCEPT ![r] = "members"]
        <5>1. Pending(r) \subseteq {Member(u, r) : u \in UsersOf[r]}
          BY <3>3 DEF InsertMember, Pending
        <5>2. PICK d \in Pending(r) : Insert(r, d, "members")
          BY <3>3 DEF InsertMember
        <5>3. PICK u \in UsersOf[r] : d = Member(u, r)
          BY <5>1, <5>2
        <5> QED
          BY <3>3, <5>2, <5>3 DEF InsertMember, Insert
      <4> QED
        BY <3>0, <4>1 DEF OrderOf, Own
    <3>4. CASE InsertTombstone(r) \/ InsertEmptyConv(r)
      BY <3>0, <3>4 DEF InsertTombstone, InsertEmptyConv, Insert, OrderOf, Own
    <3>5. CASE InsertDevice(r) \/ InsertUser(r)
      BY <3>0, <3>5 DEF InsertDevice, InsertUser, Insert, OrderOf, Own
    <3>6. CASE Fail(r)
      <4>1. pc'[r] \in {"after", "done"} /\ writes'[r] \subseteq writes[r]
        BY <3>6 DEF Fail, GiveUp
      <4> QED
        BY <3>0, <4>1 DEF OrderOf
    <3>7. CASE RetryRemoval(r)
      BY <3>0, <3>7 DEF RetryRemoval, OrderOf
    <3>8. CASE Commit(r) \/ CommitLost(r)
      <4>1. pc'[r] \in {"after", "done"} /\ writes'[r] = {}
        BY <3>8 DEF Commit, CommitLost, TakesEffect, GiveUp
      <4> QED
        BY <4>1 DEF OrderOf
    <3>9. CASE CreateTopic(r) \/ AnswerSignUp(r)
      BY <3>0, <3>9 DEF CreateTopic, AnswerSignUp, Respond,
                        OrderOf
    <3> QED
      BY <1>4, <3>1, <3>2, <3>3, <3>4, <3>5, <3>6, <3>7, <3>8, <3>9
         DEF HandlerStep
  <2> QED
    BY <2>1, <2>2 DEF InOrder
<1>5. CASE UNCHANGED vars
  BY <1>5 DEF vars, InOrder, OrderOf
<1> QED
  BY <1>1, <1>2, <1>3, <1>4, <1>5 DEF Next

-----------------------------------------------------------------------------
(* What the database holds                                                 *)

\* A committed document is one that its request writes, and the transaction
\* of the request is over.
Closed ==
    \A d \in db :
        /\ d \in Own(d.by)
        /\ d # Sequence(d.by)
        /\ pc[d.by] \in {"after", "done", "lost"}

\* A document is known by its collection, and a conversation by its id too.
LEMMA OwnKinds ==
  ASSUME NEW r \in Requests, NEW d \in Own(r)
  PROVE  /\ d.coll = "sequence" => d = Sequence(r)
         /\ d.coll = "conv" /\ d.id # ZeroId => d = Conv(r)
         /\ d.coll = "conv" /\ d.id = ZeroId => d = EmptyConv(r)
         /\ d.coll = "member" => \E u \in UsersOf[r] : d = Member(u, r)
         /\ d.coll = "tombstone" => d = Tombstone(r)
         /\ d.coll = "device" => d = Device(r)
         /\ d.coll = "user" => d = User(r)
BY BackendAssumption
   DEF Own, Doc, Sequence, Conv, Member, Tombstone, EmptyConv, Device, User

LEMMA ConvFields ==
  ASSUME NEW r \in Requests
  PROVE  Conv(r).coll = "conv" /\ Conv(r).id # ZeroId /\ Conv(r).by = r
BY BackendAssumption DEF Conv, Doc

\* The four things a step can do to open transactions and the database.
LEMMA Effects ==
  ASSUME TypeOK, [Next]_vars
  PROVE  \/ UNCHANGED <<writes, db>>
         \/ \E r \in Requests : \E d \in Own(r) :
               /\ ~Conflicts(r, d)
               /\ ~Duplicate(d)
               /\ writes' = [writes EXCEPT ![r] = @ \cup {d}]
               /\ UNCHANGED db
         \/ \E r \in Requests : /\ writes' = [writes EXCEPT ![r] = {}]
                                /\ UNCHANGED db
         \/ \E r \in Requests : /\ Commit(r) \/ CommitLost(r)
                                /\ TakesEffect(r)
<1>1. CASE Start \/ Killed \/ UNCHANGED vars
  BY <1>1 DEF Start, Killed, Die, vars
<1>2. ASSUME NEW r \in Requests,
             \/ RabbitTask(r)
             \/ Reject(r)
             \/ Begin(r)
             \/ CreateTopic(r)
             \/ RemovalPanics(r)
             \/ AnswerSignUp(r)
      PROVE  UNCHANGED <<writes, db>>
  BY <1>2 DEF RabbitTask, RemovalPanics, Die, Reject, Begin, CreateTopic,
              AnswerSignUp, Respond
<1>3. ASSUME NEW r \in Requests,
             \/ IncrementSequence(r)
             \/ InsertConv(r)
             \/ InsertTombstone(r)
             \/ InsertEmptyConv(r)
             \/ InsertDevice(r)
             \/ InsertUser(r)
      PROVE  \E d \in Own(r), next \in InTransaction : Insert(r, d, next)
  BY <1>3 DEF IncrementSequence, InsertConv, InsertTombstone,
              InsertEmptyConv, InsertDevice, InsertUser, Own, InTransaction
<1>4. ASSUME NEW r \in Requests, InsertMember(r)
      PROVE  \E d \in Own(r), next \in InTransaction : Insert(r, d, next)
  BY <1>4 DEF InsertMember, Pending, Own, InTransaction
<1>5. ASSUME NEW r \in Requests, NEW d \in Own(r), NEW next \in InTransaction,
             Insert(r, d, next)
      PROVE  /\ ~Conflicts(r, d)
             /\ ~Duplicate(d)
             /\ writes' = [writes EXCEPT ![r] = @ \cup {d}]
             /\ UNCHANGED db
  BY <1>5 DEF Insert
<1>6. ASSUME NEW r \in Requests, Expire(r) \/ Fail(r) \/ RetryRemoval(r)
      PROVE  /\ writes' = [writes EXCEPT ![r] = {}] \/ writes' = writes
             /\ UNCHANGED db
  BY <1>6 DEF Expire, Fail, RetryRemoval
<1>7. ASSUME NEW r \in Requests, Commit(r) \/ CommitLost(r)
      PROVE  TakesEffect(r)
  BY <1>7 DEF Commit, CommitLost
<1> QED
  BY <1>1, <1>2, <1>3, <1>4, <1>5, <1>6, <1>7 DEF Next, HandlerStep

\* Of what a complete transaction has written nothing is missing.
LEMMA CompleteIsWhole ==
  ASSUME TypeOK, InOrder, NEW r \in Requests, Complete(r)
  PROVE  \/ /\ pc[r] = "members"
            /\ writes[r] = {Sequence(r), Conv(r)}
                               \cup {Member(u, r) : u \in UsersOf[r]}
         \/ pc[r] = "commitRemoval" /\ writes[r] = {Tombstone(r), EmptyConv(r)}
         \/ pc[r] = "commitUser" /\ writes[r] = {Device(r), User(r)}
<1>1. OrderOf(r)
  BY DEF InOrder
<1>2. CASE pc[r] = "members" /\ Pending(r) = {}
  <2>1. {Member(u, r) : u \in UsersOf[r]} \subseteq writes[r]
    BY <1>2 DEF Pending
  <2> QED
    BY <1>1, <1>2, <2>1 DEF OrderOf
<1>3. CASE pc[r] \in {"commitRemoval", "commitUser"}
  BY <1>1, <1>3 DEF OrderOf
<1> QED
  BY <1>2, <1>3 DEF Complete

\* A transaction that is over stays over.
LEMMA OverStaysOver ==
  ASSUME TypeOK, [Next]_vars, NEW q \in Requests,
         pc[q] \in {"after", "done", "lost"}
  PROVE  /\ pc'[q] \in {"after", "done", "lost"}
         /\ seqNum'[q] = seqNum[q]
         /\ kind'[q] = kind[q]
<1>1. CASE Start \/ Killed \/ UNCHANGED vars
  BY <1>1 DEF Start, Killed, Die, vars, TypeOK
<1>2. ASSUME NEW r \in Requests, RabbitTask(r) \/ RemovalPanics(r)
      PROVE  /\ pc'[q] \in {"after", "done", "lost"}
             /\ seqNum' = seqNum
             /\ kind' = kind
  BY <1>2 DEF RabbitTask, RemovalPanics, Die, TypeOK
<1>3. ASSUME Reject(q) \/ Begin(q) \/ Expire(q) \/ HandlerStep(q)
      PROVE  /\ pc'[q] \in {"after", "done", "lost"}
             /\ seqNum' = seqNum
             /\ kind' = kind
  <2>1. CASE Reject(q) \/ Begin(q) \/ Expire(q)
    BY <2>1 DEF Reject, Begin, Expire
  <2>2. CASE \/ IncrementSequence(q)
             \/ InsertConv(q)
             \/ InsertMember(q)
             \/ InsertTombstone(q)
             \/ InsertEmptyConv(q)
             \/ InsertDevice(q)
             \/ InsertUser(q)
    BY <2>2 DEF IncrementSequence, InsertConv, InsertMember, InsertTombstone,
                InsertEmptyConv, InsertDevice, InsertUser
  <2>3. CASE Fail(q) \/ RetryRemoval(q) \/ Commit(q) \/ CommitLost(q)
    BY <2>3 DEF Fail, RetryRemoval, Pending, Commit, CommitLost, Complete,
                InTransaction
  <2>4. CASE CreateTopic(q) \/ AnswerSignUp(q)
    BY <2>4 DEF CreateTopic, AnswerSignUp, Respond, TypeOK
  <2> QED
    BY <1>3, <2>1, <2>2, <2>3, <2>4 DEF HandlerStep
<1>4. ASSUME NEW r \in Requests \ {q},
             Reject(r) \/ Begin(r) \/ Expire(r) \/ HandlerStep(r)
      PROVE  /\ pc'[q] = pc[q]
             /\ seqNum'[q] = seqNum[q]
             /\ kind'[q] = kind[q]
  BY <1>4, OthersUntouched
<1> QED
  BY <1>1, <1>2, <1>3, <1>4 DEF Next

LEMMA ClosedPreserved ==
  ASSUME TypeOK, InOrder, Closed, [Next]_vars
  PROVE  Closed'
<1>1. \A d \in db : /\ d.by \in Requests
                    /\ d \in Own(d.by)
                    /\ d # Sequence(d.by)
                    /\ pc'[d.by] \in {"after", "done", "lost"}
  BY OverStaysOver DEF Closed, TypeOK, Docs
<1>2. CASE db' = db
  BY <1>1, <1>2 DEF Closed
<1>3. ASSUME NEW r \in Requests, Commit(r) \/ CommitLost(r), TakesEffect(r)
      PROVE  Closed'
  <2>1. pc'[r] \in {"after", "done"}
    BY <1>3 DEF Commit, CommitLost, GiveUp, TypeOK
  <2>2. \A d \in writes[r] : d \in Own(r) /\ d.by = r
    BY OwnDocs DEF InOrder, OrderOf
  <2>3. db' = db \cup (writes[r] \ {Sequence(r)})
    BY <1>3 DEF TakesEffect
  <2> QED
    BY <1>1, <2>1, <2>2, <2>3 DEF Closed
<1> QED
  BY <1>2, <1>3, Effects

LEMMA NothingPartialPreserved ==
  ASSUME TypeOK, InOrder, Closed, NothingPartial, [Next]_vars
  PROVE  NothingPartial'
<1>1. CASE db' = db
  BY <1>1 DEF NothingPartial, Stored
<1>2. ASSUME NEW r \in Requests, Commit(r) \/ CommitLost(r), TakesEffect(r)
      PROVE  NothingPartial'
  <2> DEFINE W == writes[r] \ {Sequence(r)}
  <2>1. db' = db \cup W
    BY <1>2 DEF TakesEffect
  <2>2. \/ W = {Conv(r)} \cup {Member(u, r) : u \in UsersOf[r]}
        \/ W = {Tombstone(r), EmptyConv(r)}
        \/ W = {Device(r), User(r)}
    <3>1. Complete(r)
      BY <1>2 DEF Commit, CommitLost
    <3>2. Sequence(r) \notin
              {Conv(r), Tombstone(r), EmptyConv(r), Device(r), User(r)}
                  \cup {Member(u, r) : u \in UsersOf[r]}
      BY DEF Sequence, Conv, Member, Tombstone, EmptyConv, Device, User, Doc
    <3> QED
      BY <3>1, <3>2, CompleteIsWhole
  <2>3. Stored \subseteq Stored'
    BY <2>1 DEF Stored
  <2>4. \A d \in db :
            /\ d.coll = "conv" /\ d.id # ZeroId =>
                  \A u \in UsersOf[d.by] : Member(u, d.by) \in db'
            /\ d.coll = "member" => Conv(d.by) \in Stored'
            /\ d.coll = "device" => User(d.by) \in db'
            /\ d.coll = "user" => Device(d.by) \in db'
            /\ d.coll = "tombstone" => EmptyConv(d.by) \in db'
    BY <2>1, <2>3 DEF NothingPartial, Stored
  <2>5. \A d \in W :
            /\ d.by = r
            /\ d.coll = "conv" /\ d.id # ZeroId =>
                  \A u \in UsersOf[d.by] : Member(u, d.by) \in db'
            /\ d.coll = "member" => Conv(d.by) \in Stored'
            /\ d.coll = "device" => User(d.by) \in db'
            /\ d.coll = "user" => Device(d.by) \in db'
            /\ d.coll = "tombstone" => EmptyConv(d.by) \in db'
    <3> SUFFICES ASSUME NEW d \in W
                 PROVE  /\ d.by = r
                        /\ d.coll = "conv" /\ d.id # ZeroId =>
                              \A u \in UsersOf[r] : Member(u, r) \in db'
                        /\ d.coll = "member" => Conv(r) \in Stored'
                        /\ d.coll = "device" => User(r) \in db'
                        /\ d.coll = "user" => Device(r) \in db'
                        /\ d.coll = "tombstone" => EmptyConv(r) \in db'
      OBVIOUS
    <3>1. d \in Own(r) /\ d.by = r
      BY OwnDocs DEF InOrder, OrderOf
    <3>2. CASE W = {Conv(r)} \cup {Member(u, r) : u \in UsersOf[r]}
      <4>1. Conv(r) \in Stored'
        BY <2>1, <3>2, ConvFields DEF Stored
      <4>2. d.coll \in {"conv", "member"}
        BY <3>2 DEF Conv, Member, Doc
      <4> QED
        BY <2>1, <3>1, <3>2, <4>1, <4>2
    <3>3. CASE W = {Tombstone(r), EmptyConv(r)}
      <4>1. d.coll = "tombstone" \/ (d.coll = "conv" /\ d.id = ZeroId)
        BY <3>3 DEF Tombstone, EmptyConv, Doc
      <4> QED
        BY <2>1, <3>1, <3>3, <4>1
    <3>4. CASE W = {Device(r), User(r)}
      <4>1. d.coll \in {"device", "user"}
        BY <3>4 DEF Device, User, Doc
      <4> QED
        BY <2>1, <3>1, <3>4, <4>1
    <3> QED
      BY <2>2, <3>2, <3>3, <3>4
  <2>6. \A d \in Stored' : d.coll = "conv" /\ d.id # ZeroId /\ d \in db'
    BY DEF Stored
  <2> QED
    BY <2>1, <2>4, <2>5, <2>6 DEF NothingPartial
<1> QED
  BY <1>1, <1>2, Effects

-----------------------------------------------------------------------------
(* Keys                                                                    *)

\* Open transactions and the database hold no two documents with one key.
KeysExclusive ==
    /\ \A q, r \in Requests : \A d \in writes[q], e \in writes[r] :
          SameKey(d, e) => q = r
    /\ \A r \in Requests : \A d \in writes[r], e \in db : ~SameKey(d, e)
    /\ \A d, e \in db : SameKey(d, e) => d = e

LEMMA SameKeySymmetric ==
  ASSUME NEW d, NEW e, SameKey(d, e)
  PROVE  SameKey(e, d)
BY DEF SameKey

LEMMA OwnKeys ==
  ASSUME NEW r \in Requests, NEW d \in Own(r), NEW e \in Own(r), SameKey(d, e)
  PROVE  d = e
BY BackendAssumption
   DEF SameKey, Own, Doc, Sequence, Conv, Member, Tombstone, EmptyConv,
       Device, User

LEMMA KeysPreserved ==
  ASSUME TypeOK, InOrder, KeysExclusive, [Next]_vars
  PROVE  KeysExclusive'
<1>1. CASE UNCHANGED <<writes, db>>
  BY <1>1 DEF KeysExclusive
<1>2. ASSUME NEW r \in Requests, NEW d \in Own(r),
             ~Conflicts(r, d), ~Duplicate(d),
             writes' = [writes EXCEPT ![r] = @ \cup {d}], UNCHANGED db
      PROVE  KeysExclusive'
  <2>1. /\ writes'[r] = writes[r] \cup {d}
        /\ \A q \in Requests \ {r} : writes'[q] = writes[q]
    BY <1>2 DEF TypeOK
  <2>2. \A q \in Requests \ {r} : \A e \in writes[q] :
            ~SameKey(d, e) /\ ~SameKey(e, d)
    BY <1>2, SameKeySymmetric DEF Conflicts
  <2>3. \A e \in db : ~SameKey(d, e)
    BY <1>2 DEF Duplicate
  <2> QED
    BY <1>2, <2>1, <2>2, <2>3 DEF KeysExclusive
<1>3. ASSUME NEW r \in Requests, writes' = [writes EXCEPT ![r] = {}],
             UNCHANGED db
      PROVE  KeysExclusive'
  <2>1. \A q \in Requests : writes'[q] \subseteq writes[q]
    BY <1>3 DEF TypeOK
  <2> QED
    BY <1>3, <2>1 DEF KeysExclusive
<1>4. ASSUME NEW r \in Requests, TakesEffect(r)
      PROVE  KeysExclusive'
  <2>1. /\ writes'[r] = {}
        /\ \A q \in Requests \ {r} : writes'[q] = writes[q]
        /\ db' \subseteq db \cup writes[r]
    BY <1>4 DEF TakesEffect, TypeOK
  <2>2. \A d, e \in writes[r] : SameKey(d, e) => d = e
    BY OwnKeys DEF InOrder, OrderOf
  <2>3. \A d, e \in db \cup writes[r] : SameKey(d, e) => d = e
    BY <2>2, SameKeySymmetric DEF KeysExclusive
  <2>4. \A q \in Requests \ {r} : \A d \in writes[q], e \in db \cup writes[r] :
            ~SameKey(d, e)
    BY DEF KeysExclusive
  <2> QED
    BY <2>1, <2>3, <2>4 DEF KeysExclusive
<1> QED
  BY <1>1, <1>2, <1>3, <1>4, Effects

-----------------------------------------------------------------------------
(* Sequence numbers                                                        *)

\* An open transaction that has incremented the sequence holds the number
\* after the last one.
Numbered ==
    /\ seeds = 0 =>
          /\ seqValue = 0
          /\ \A r \in Requests : Sequence(r) \notin writes[r]
    /\ seeds > 0 => seqValue > 0
    /\ \A r \in Requests :
          Sequence(r) \in writes[r] /\ pc[r] \in {"conv", "members"} =>
              seqNum[r] = seqValue + 1

\* One transaction at a time has incremented the sequence.
LEMMA OneIncrement ==
  ASSUME TypeOK, KeysExclusive, NEW q \in Requests, NEW r \in Requests,
         Sequence(q) \in writes[q], Sequence(r) \in writes[r]
  PROVE  q = r
BY DEF KeysExclusive, SameKey, Sequence, Doc

LEMMA NumberedPreserved ==
  ASSUME TypeOK, InOrder, KeysExclusive, Numbered, [Next]_vars
  PROVE  Numbered'
<1>1. CASE Start
  BY <1>1 DEF Start, Numbered, TypeOK
<1>2. CASE Killed \/ \E r \in Requests : RabbitTask(r) \/ RemovalPanics(r)
  BY <1>2 DEF Killed, RabbitTask, RemovalPanics, Die, Numbered, TypeOK
<1>3. ASSUME NEW r \in Requests,
             Reject(r) \/ Begin(r) \/ Expire(r) \/ HandlerStep(r)
      PROVE  Numbered'
  <2>1. CASE Reject(r) \/ Begin(r) \/ Expire(r)
    BY <2>1 DEF Reject, Begin, Expire, InTransaction, Numbered, TypeOK
  <2>2. CASE IncrementSequence(r)
    <3>1. /\ seeds > 0
          /\ UNCHANGED <<seeds, seqValue>>
          /\ seqNum'[r] = seqValue' + 1
      BY <2>2 DEF IncrementSequence, Insert, TypeOK
    <3>2. \A q \in Requests \ {r} : Sequence(q) \notin writes[q]
      BY <2>2 DEF IncrementSequence, Insert, Conflicts, SameKey, Sequence, Doc
    <3>3. \A q \in Requests \ {r} : writes'[q] = writes[q]
      BY <2>2 DEF IncrementSequence, Insert, TypeOK
    <3> QED
      BY <3>1, <3>2, <3>3 DEF Numbered
  <2>3. CASE \/ InsertConv(r)
             \/ InsertMember(r)
             \/ InsertTombstone(r)
             \/ InsertEmptyConv(r)
             \/ InsertDevice(r)
             \/ InsertUser(r)
    <3>1. PICK d \in Own(r), next \in InTransaction :
              /\ Insert(r, d, next)
              /\ d # Sequence(r)
              /\ next = "members" => pc[r] \in {"conv", "members"}
              /\ next # "conv"
              /\ UNCHANGED seqNum
      <4>1. CASE InsertMember(r)
        BY <4>1 DEF InsertMember, Pending, Own, InTransaction, Sequence,
                    Member, Doc
      <4>2. CASE InsertConv(r) \/ InsertTombstone(r) \/ InsertEmptyConv(r)
        BY <4>2 DEF InsertConv, InsertTombstone, InsertEmptyConv, Own,
                    InTransaction, Sequence, Conv, Tombstone, EmptyConv, Doc
      <4>3. CASE InsertDevice(r) \/ InsertUser(r)
        BY <4>3 DEF InsertDevice, InsertUser, Own, InTransaction, Sequence,
                    Device, User, Doc
      <4> QED
        BY <2>3, <4>1, <4>2, <4>3
    <3>2. /\ UNCHANGED <<seeds, seqValue, seqNum>>
          /\ writes'[r] = writes[r] \cup {d}
          /\ pc'[r] = next
          /\ \A q \in Requests \ {r} :
                writes'[q] = writes[q] /\ pc'[q] = pc[q]
      BY <3>1 DEF Insert, TypeOK
    <3>3. \A q \in Requests :
              Sequence(q) \in writes'[q] => Sequence(q) \in writes[q]
      BY <3>1, <3>2
    <3> QED
      BY <3>1, <3>2, <3>3 DEF Numbered
  <2>4. CASE Fail(r) \/ RetryRemoval(r)
    <3>1. /\ UNCHANGED <<seeds, seqValue, seqNum>>
          /\ writes'[r] \subseteq writes[r]
          /\ pc'[r] \notin {"conv", "members"}
          /\ \A q \in Requests \ {r} :
                writes'[q] = writes[q] /\ pc'[q] = pc[q]
      BY <2>4 DEF Fail, RetryRemoval, GiveUp, TypeOK
    <3> QED
      BY <3>1 DEF Numbered
  <2>5. CASE Commit(r) \/ CommitLost(r)
    <3>1. /\ UNCHANGED <<seeds, seqNum>>
          /\ writes'[r] = {}
          /\ seqValue' = IF Sequence(r) \in writes[r] THEN seqValue + 1
                                                     ELSE seqValue
          /\ \A q \in Requests \ {r} :
                writes'[q] = writes[q] /\ pc'[q] = pc[q]
      BY <2>5 DEF Commit, CommitLost, TakesEffect, GiveUp, TypeOK
    <3>2. CASE Sequence(r) \in writes[r]
      <4>1. \A q \in Requests \ {r} : Sequence(q) \notin writes[q]
        BY <3>2, OneIncrement
      <4> QED
        BY <3>1, <3>2, <4>1 DEF Numbered, TypeOK
    <3>3. CASE Sequence(r) \notin writes[r]
      BY <3>1, <3>3 DEF Numbered
    <3> QED
      BY <3>2, <3>3
  <2>6. CASE CreateTopic(r) \/ AnswerSignUp(r)
    BY <2>6 DEF CreateTopic, AnswerSignUp, Respond, Numbered,
                TypeOK
  <2> QED
    BY <1>3, <2>1, <2>2, <2>3, <2>4, <2>5, <2>6 DEF HandlerStep
<1>4. CASE UNCHANGED vars
  BY <1>4 DEF vars, Numbered
<1> QED
  BY <1>1, <1>2, <1>3, <1>4 DEF Next

\* A stored conversation keeps its number.
LEMMA StoredKeepNumbers ==
  ASSUME TypeOK, Closed, [Next]_vars, NEW d \in Stored
  PROVE  d.by \in Requests /\ d = Conv(d.by) /\ seqNum'[d.by] = seqNum[d.by]
<1>1. d \in db /\ d.by \in Requests /\ d \in Own(d.by)
  BY DEF Stored, Closed, TypeOK, Docs
<1>2. pc[d.by] \in {"after", "done", "lost"}
  BY <1>1 DEF Closed
<1> QED
  BY <1>1, <1>2, OwnKinds, OverStaysOver DEF Stored

LEMMA DensePreserved ==
  ASSUME TypeOK, InOrder, Closed, Numbered, SeqNumbersDense, [Next]_vars
  PROVE  SeqNumbersDense'
<1>0. \A d \in Stored : seqNum'[d.by] = seqNum[d.by] /\ d = Conv(d.by)
  BY StoredKeepNumbers
<1>1. ASSUME Stored' = Stored, 2..seqValue' = 2..seqValue
      PROVE  SeqNumbersDense'
  <2>1. {seqNum'[d.by] : d \in Stored} = {seqNum[d.by] : d \in Stored}
    BY <1>0
  <2>2. \A d, e \in Stored : seqNum'[d.by] = seqNum'[e.by] => d = e
    BY <1>0 DEF SeqNumbersDense
  <2>3. {seqNum'[d.by] : d \in Stored'} = 2..seqValue'
    BY <1>1, <2>1 DEF SeqNumbersDense
  <2>4. \A d, e \in Stored' : seqNum'[d.by] = seqNum'[e.by] => d = e
    BY <1>1, <2>2
  <2> QED
    BY <2>3, <2>4 DEF SeqNumbersDense
<1>2. CASE Start
  <2>1. Stored' = Stored
    BY <1>2 DEF Start, Stored
  <2>2. seqValue' = seqValue \/ (seqValue = 0 /\ seqValue' = 1)
    BY <1>2 DEF Start, Numbered
  <2>3. 2..seqValue' = 2..seqValue
    BY <2>2
  <2> QED
    BY <1>1, <2>1, <2>3
<1>3. CASE UNCHANGED <<db, seqValue>>
  <2>1. Stored' = Stored
    BY <1>3 DEF Stored
  <2> QED
    BY <1>1, <1>3, <2>1
<1>4. ASSUME NEW r \in Requests, Commit(r) \/ CommitLost(r)
      PROVE  SeqNumbersDense'
  <2>1. TakesEffect(r) /\ seqNum' = seqNum /\ Complete(r)
    BY <1>4 DEF Commit, CommitLost
  <2>2. CASE pc[r] = "members"
    <3>1. /\ writes[r] = {Sequence(r), Conv(r)}
                             \cup {Member(u, r) : u \in UsersOf[r]}
          /\ Sequence(r) \in writes[r]
      BY <2>1, <2>2, CompleteIsWhole
    <3>2. Stored' = Stored \cup {Conv(r)}
      <4>1. db' = db \cup (writes[r] \ {Sequence(r)})
        BY <2>1 DEF TakesEffect
      <4>2. Conv(r) # Sequence(r) /\ Conv(r).coll = "conv" /\ Conv(r).id # ZeroId
        BY ConvFields DEF Sequence, Doc
      <4>3. Sequence(r).coll # "conv"
            /\ \A u \in UsersOf[r] : Member(u, r).coll # "conv"
        BY DEF Sequence, Member, Doc
      <4> QED
        BY <3>1, <4>1, <4>2, <4>3 DEF Stored
    <3>3. /\ seqValue \in Nat \ {0}
          /\ seqNum[r] = seqValue + 1
          /\ seqValue' = seqValue + 1
      BY <2>1, <2>2, <3>1 DEF Numbered, TakesEffect, TypeOK
    <3>4. {seqNum[d.by] : d \in Stored'}
              = {seqNum[d.by] : d \in Stored} \cup {seqNum[r]}
      BY <3>2, ConvFields
    <3>5. 2..seqValue' = 2..seqValue \cup {seqValue + 1}
      BY <3>3
    <3>6. \A d \in Stored : seqNum[d.by] \in 2..seqValue
      BY DEF SeqNumbersDense
    <3>7. \A d, e \in Stored' : seqNum[d.by] = seqNum[e.by] => d = e
      BY <3>2, <3>3, <3>6, ConvFields DEF SeqNumbersDense
    <3> QED
      BY <2>1, <3>3, <3>4, <3>5, <3>7 DEF SeqNumbersDense
  <2>3. CASE pc[r] # "members"
    <3>1. /\ \A d \in writes[r] : d.coll # "conv" \/ d.id = ZeroId
          /\ Sequence(r) \notin writes[r]
      BY <2>1, <2>3, CompleteIsWhole
         DEF Sequence, Tombstone, EmptyConv, Device, User, Doc
    <3>2. Stored' = Stored /\ seqValue' = seqValue
      BY <2>1, <3>1 DEF TakesEffect, Stored
    <3> QED
      BY <1>1, <3>2
  <2> QED
    BY <2>2, <2>3
<1>5. ASSUME NEW r \in Requests,
             \/ RabbitTask(r)
             \/ Reject(r)
             \/ Begin(r)
             \/ Expire(r)
             \/ Fail(r)
             \/ RetryRemoval(r)
             \/ CreateTopic(r)
             \/ RemovalPanics(r)
             \/ AnswerSignUp(r)
      PROVE  UNCHANGED <<db, seqValue>>
  BY <1>5 DEF RabbitTask, RemovalPanics, Die, Reject, Begin, Expire, Fail,
              RetryRemoval, CreateTopic, AnswerSignUp, Respond
<1>6. ASSUME NEW r \in Requests,
             \/ IncrementSequence(r)
             \/ InsertConv(r)
             \/ InsertMember(r)
             \/ InsertTombstone(r)
             \/ InsertEmptyConv(r)
             \/ InsertDevice(r)
             \/ InsertUser(r)
      PROVE  UNCHANGED <<db, seqValue>>
  BY <1>6 DEF IncrementSequence, InsertConv, InsertMember, InsertTombstone,
              InsertEmptyConv, InsertDevice, InsertUser, Insert
<1>7. CASE Killed \/ UNCHANGED vars
  BY <1>3, <1>7 DEF Killed, Die, vars
<1> QED
  BY <1>2, <1>3, <1>4, <1>5, <1>6, <1>7 DEF Next, HandlerStep

-----------------------------------------------------------------------------
(* Answers                                                                 *)

AnswerOf(r) ==
    /\ pc[r] \in {"increment", "conv", "members"} => kind[r] = "create"
    /\ pc[r] \in {"tombstone", "emptyConv", "commitRemoval"} =>
          kind[r] = "remove"
    /\ pc[r] \in {"device", "user", "commitUser"} => kind[r] = "user"
    /\ pc[r] # "done" => answer[r] = 0
    /\ kind[r] = "create" /\ (pc[r] = "after" \/ answer[r] = 200) =>
          Conv(r) \in db

\* A handler of a creation is past its transaction only with a commit.
Answered == \A r \in Requests : AnswerOf(r)

LEMMA AnsweredPreserved ==
  ASSUME TypeOK, InOrder, Answered, [Next]_vars
  PROVE  Answered'
<1>0. db \subseteq db'
  BY Effects DEF TakesEffect
<1>1. CASE Start \/ UNCHANGED vars
  BY <1>1 DEF Start, vars, Answered, AnswerOf
<1>2. CASE Killed \/ \E r \in Requests : RabbitTask(r) \/ RemovalPanics(r)
  <2> SUFFICES ASSUME NEW q \in Requests PROVE AnswerOf(q)'
    BY DEF Answered
  <2>1. /\ pc'[q] \in {"new", "done", "lost"}
        /\ pc'[q] # "done" => pc[q] # "done"
        /\ UNCHANGED <<kind, answer, db>>
    BY <1>2 DEF Killed, RabbitTask, RemovalPanics, Die, TypeOK
  <2> QED
    BY <2>1 DEF Answered, AnswerOf
<1>3. ASSUME NEW r \in Requests,
             Reject(r) \/ Begin(r) \/ Expire(r) \/ HandlerStep(r)
      PROVE  Answered'
  <2>1. ASSUME NEW q \in Requests \ {r}
        PROVE  AnswerOf(q)'
    BY <1>0, <1>3, <2>1, OthersUntouched DEF Answered, AnswerOf
  <2>2. AnswerOf(r)'
    <3>0. AnswerOf(r)
      BY DEF Answered
    <3> USE DEF TypeOK
    <3>1. CASE Reject(r) \/ Begin(r) \/ Expire(r)
      BY <3>0, <3>1 DEF Reject, Begin, Expire, AnswerOf
    <3>2. CASE IncrementSequence(r) \/ InsertConv(r) \/ InsertMember(r)
      BY <3>0, <3>2 DEF IncrementSequence, InsertConv, InsertMember, Insert,
                        AnswerOf
    <3>3. CASE InsertTombstone(r) \/ InsertEmptyConv(r)
      BY <3>0, <3>3 DEF InsertTombstone, InsertEmptyConv, Insert, AnswerOf
    <3>4. CASE InsertDevice(r) \/ InsertUser(r)
      BY <3>0, <3>4 DEF InsertDevice, InsertUser, Insert, AnswerOf
    <3>5. CASE Fail(r) \/ CommitLost(r)
      <4>1. /\ UNCHANGED kind
            /\ pc[r] # "done"
            /\ \/ kind[r] = "user" /\ pc'[r] = "after" /\ answer'[r] = answer[r]
               \/ kind[r] # "user" /\ pc'[r] = "done" /\ answer'[r] = 500
        BY <3>5 DEF Fail, CommitLost, GiveUp, Complete, InTransaction
      <4> QED
        BY <3>0, <4>1 DEF AnswerOf
    <3>6. CASE RetryRemoval(r)
      <4>1. pc[r] # "done"
        BY <3>6 DEF RetryRemoval, Pending
      <4> QED
        BY <3>0, <3>6, <4>1 DEF RetryRemoval, AnswerOf
    <3>7. CASE Commit(r)
      <4>1. /\ UNCHANGED <<kind, answer>>
            /\ pc'[r] = "after"
            /\ pc[r] # "done"
            /\ Complete(r)
            /\ TakesEffect(r)
        BY <3>7 DEF Commit, Complete
      <4>2. kind[r] = "create" => Conv(r) \in writes[r]
        BY <3>0, <4>1, CompleteIsWhole DEF AnswerOf
      <4>3. Conv(r) # Sequence(r)
        BY DEF Conv, Sequence, Doc
      <4> QED
        BY <3>0, <4>1, <4>2, <4>3 DEF AnswerOf, TakesEffect
    <3>8. CASE CreateTopic(r) \/ AnswerSignUp(r)
      <4>1. /\ pc[r] = "after"
            /\ pc'[r] = "done"
            /\ UNCHANGED <<kind, db>>
        BY <3>8 DEF CreateTopic, AnswerSignUp, Respond
      <4> QED
        BY <3>0, <4>1 DEF AnswerOf
    <3> QED
      BY <1>3, <3>1, <3>2, <3>3, <3>4, <3>5, <3>6, <3>7, <3>8 DEF HandlerStep
  <2> QED
    BY <2>1, <2>2 DEF Answered
<1> QED
  BY <1>1, <1>2, <1>3 DEF Next

-----------------------------------------------------------------------------
(* The theorems                                                            *)

\* The inductive invariant: what open transactions hold, what the database
\* holds, that no key is there twice, and what the sequence says of both.
IInv ==
    /\ TypeOK
    /\ InOrder
    /\ Closed
    /\ KeysExclusive
    /\ Numbered
    /\ Answered
    /\ NothingPartial
    /\ SeqNumbersDense

LEMMA InitIInv == Init => IInv
<1> SUFFICES ASSUME Init PROVE IInv
  OBVIOUS
<1>1. TypeOK
  BY InitTypes
<1>2. InOrder
  BY DEF Init, InOrder, OrderOf
<1>3. Closed /\ KeysExclusive /\ Numbered /\ Answered
  BY DEF Init, Closed, KeysExclusive, Numbered, Answered, AnswerOf
<1>4. NothingPartial
  BY DEF Init, NothingPartial, Stored
<1>5. SeqNumbersDense
  <2>1. Stored = {} /\ seqValue = 0
    BY DEF Init, Stored
  <2> QED
    BY <2>1 DEF SeqNumbersDense
<1> QED
  BY <1>1, <1>2, <1>3, <1>4, <1>5 DEF IInv

LEMMA Invariance == Spec => []IInv
<1>1. ASSUME IInv, [Next]_vars PROVE IInv'
  BY <1>1, TypesPreserved, OrderPreserved, ClosedPreserved, KeysPreserved,
     NumberedPreserved, AnsweredPreserved, NothingPartialPreserved,
     DensePreserved DEF IInv
<1> QED
  BY InitIInv, <1>1, PTL DEF Spec

\* The state of the process, its handlers and the database keeps its types.
THEOREM BackendTypes == Spec => []TypeOK
<1>1. IInv => TypeOK
  BY DEF IInv
<1> QED
  BY <1>1, Invariance, PTL

\* No failure, restart or conflict leaves a conversation, a user or a removal
\* stored by halves.
THEOREM NothingEverPartial == Spec => []NothingPartial
<1>1. IInv => NothingPartial
  BY DEF IInv
<1> QED
  BY <1>1, Invariance, PTL

\* Stored conversations are numbered without gaps and without repetition.
THEOREM NumbersAreDense == Spec => []SeqNumbersDense
<1>1. IInv => SeqNumbersDense
  BY DEF IInv
<1> QED
  BY <1>1, Invariance, PTL

\* A creation that is answered 200 is stored, and is the only one of its id.
THEOREM AnsweredIsStored == Spec => []AnswerMeansStored
<1>1. ASSUME IInv PROVE AnswerMeansStored
  <2> SUFFICES ASSUME NEW r \in Requests, kind[r] = "create", answer[r] = 200
               PROVE  /\ Conv(r) \in db
                      /\ \A q \in Requests \ {r} :
                            kind[q] = "create" /\ answer[q] = 200 =>
                                IdOf[q] # IdOf[r]
    BY DEF AnswerMeansStored
  <2>1. \A q \in Requests :
            kind[q] = "create" /\ answer[q] = 200 => Conv(q) \in db
    BY <1>1 DEF IInv, Answered, AnswerOf
  <2>2. ASSUME NEW q \in Requests, Conv(q) \in db, Conv(r) \in db,
               IdOf[q] = IdOf[r]
        PROVE  q = r
    <3>1. SameKey(Conv(q), Conv(r))
      BY <2>2 DEF SameKey, Conv, Doc
    <3>2. Conv(q) = Conv(r)
      BY <1>1, <2>2, <3>1 DEF IInv, KeysExclusive
    <3> QED
      BY <3>2, ConvFields
  <2> QED
    BY <2>1, <2>2
<1> QED
  BY <1>1, Invariance, PTL

\* One removal takes effect: the second would repeat the zero id.
THEOREM OneRemoval == Spec => []AtMostOneRemoval
<1>1. ASSUME IInv PROVE AtMostOneRemoval
  <2> SUFFICES ASSUME NEW d \in db, NEW e \in db,
                      d.coll = "tombstone", e.coll = "tombstone"
               PROVE  d = e
    BY DEF AtMostOneRemoval
  <2>1. /\ d.by \in Requests /\ d = Tombstone(d.by) /\ EmptyConv(d.by) \in db
        /\ e.by \in Requests /\ e = Tombstone(e.by) /\ EmptyConv(e.by) \in db
    BY <1>1, OwnKinds DEF IInv, Closed, TypeOK, Docs, NothingPartial
  <2>2. SameKey(EmptyConv(d.by), EmptyConv(e.by))
    BY DEF SameKey, EmptyConv, Doc
  <2>3. EmptyConv(d.by) = EmptyConv(e.by)
    BY <1>1, <2>1, <2>2 DEF IInv, KeysExclusive
  <2>4. d.by = e.by
    BY <2>3 DEF EmptyConv, Doc
  <2> QED
    BY <2>1, <2>4
<1> QED
  BY <1>1, Invariance, PTL

-----------------------------------------------------------------------------
(* The refinement of AtomicStore                                           *)

Open == {r \in Requests : pc[r] \in InTransaction \cup {"after"}}
Number == [r \in Requests |-> IF r \in Committed /\ kind[r] = "create" THEN seqNum[r] ELSE 0]
Last == IF seqValue = 0 THEN 1 ELSE seqValue

LEMMA EffectForms ==
  ASSUME NEW r \in Requests
  PROVE  /\ EffectOf["create"][r] = {Conv(r)} \cup {Member(u, r) : u \in UsersOf[r]}
         /\ EffectOf["remove"][r] = {Tombstone(r), EmptyConv(r)}
         /\ EffectOf["user"][r] = {Device(r), User(r)}
BY DEF EffectOf

LEMMA KeyForms ==
  ASSUME NEW r \in Requests
  PROVE  /\ KeyOf["create"][r] = <<"conv", IdOf[r]>>
         /\ KeyOf["remove"][r] = <<"conv", ZeroId>>
         /\ KeyOf["user"][r] = <<"user", IdOf[r]>>
BY DEF KeyOf

\* A request that has not begun asks for nothing, and what is committed belongs to
\* the effect of what its request asked for.
Asked ==
    /\ \A r \in Requests : pc[r] = "new" => kind[r] = "none"
    /\ \A d \in db : kind[d.by] # "none" /\ d \in EffectOf[kind[d.by]][d.by]

\* A transaction that commits holds the whole effect of its request, and the
\* number after the last one if it stores a conversation.
LEMMA CommitIsEffect ==
  ASSUME IInv, NEW r \in Requests, Complete(r)
  PROVE  /\ kind[r] \in {"create", "remove", "user"}
         /\ writes[r] \ {Sequence(r)} = EffectOf[kind[r]][r]
         /\ \E d \in EffectOf[kind[r]][r] : d.by = r
         /\ \A d \in EffectOf[kind[r]][r] : d.by = r
         /\ Sequence(r) \in writes[r] <=> kind[r] = "create"
         /\ kind[r] = "create" => seqNum[r] = seqValue + 1 /\ seqValue > 0
<1>1. TypeOK /\ InOrder /\ Numbered /\ AnswerOf(r)
  BY DEF IInv, Answered
<1>2. /\ \A u : Sequence(r) # Member(u, r)
      /\ Sequence(r) \notin {Conv(r), Tombstone(r), EmptyConv(r), Device(r), User(r)}
  BY DEF Sequence, Member, Conv, Tombstone, EmptyConv, Device, User, Doc
<1>3. \A d \in Own(r) : d.by = r
  BY OwnDocs
<1>4. CASE /\ pc[r] = "members"
           /\ writes[r] = {Sequence(r), Conv(r)}
                              \cup {Member(u, r) : u \in UsersOf[r]}
  <2>1. kind[r] = "create" /\ EffectOf["create"][r] \subseteq Own(r)
    BY <1>1, <1>4, EffectForms DEF AnswerOf, Own
  <2>2. writes[r] \ {Sequence(r)} = EffectOf["create"][r]
    BY <1>2, <1>4, EffectForms
  <2>3. Conv(r) \in EffectOf["create"][r] /\ Sequence(r) \in writes[r]
    BY <1>4, EffectForms
  <2>4. seqNum[r] = seqValue + 1 /\ seqValue > 0
    BY <1>1, <1>4, <2>3 DEF Numbered, TypeOK
  <2> QED
    BY <1>3, <2>1, <2>2, <2>3, <2>4
<1>5. CASE pc[r] = "commitRemoval" /\ writes[r] = {Tombstone(r), EmptyConv(r)}
  <2>1. kind[r] = "remove" /\ EffectOf["remove"][r] \subseteq Own(r)
    BY <1>1, <1>5, EffectForms DEF AnswerOf, Own
  <2>2. Tombstone(r) \in EffectOf["remove"][r] /\ Sequence(r) \notin writes[r]
    BY <1>2, <1>5, EffectForms
  <2> QED
    BY <1>3, <1>5, <2>1, <2>2, EffectForms
<1>6. CASE pc[r] = "commitUser" /\ writes[r] = {Device(r), User(r)}
  <2>1. kind[r] = "user" /\ EffectOf["user"][r] \subseteq Own(r)
    BY <1>1, <1>6, EffectForms DEF AnswerOf, Own
  <2>2. User(r) \in EffectOf["user"][r] /\ Sequence(r) \notin writes[r]
    BY <1>2, <1>6, EffectForms
  <2> QED
    BY <1>3, <1>6, <2>1, <2>2, EffectForms
<1> QED
  BY <1>1, <1>4, <1>5, <1>6, CompleteIsWhole

LEMMA AskedPreserved ==
  ASSUME IInv, Asked, [Next]_vars
  PROVE  Asked'
<1>1. TypeOK /\ Closed
  BY DEF IInv
<1>2. \A r \in Requests : pc'[r] = "new" => kind'[r] = "none"
  <2>1. CASE Start \/ UNCHANGED vars
    BY <2>1 DEF Start, vars, Asked
  <2>2. CASE Killed \/ \E r \in Requests : RabbitTask(r) \/ RemovalPanics(r)
    BY <1>1, <2>2 DEF Killed, RabbitTask, RemovalPanics, Die, TypeOK, Asked
  <2>3. ASSUME NEW r \in Requests,
               Reject(r) \/ Begin(r) \/ Expire(r) \/ HandlerStep(r)
        PROVE  \A q \in Requests : pc'[q] = "new" => kind'[q] = "none"
    <3>1. \A q \in Requests \ {r} : pc'[q] = pc[q] /\ kind'[q] = kind[q]
      BY <1>1, <2>3, OthersUntouched
    <3>2. pc'[r] = "new" => pc[r] = "new" /\ kind'[r] = kind[r]
      <4> USE <1>1 DEF TypeOK
      <4>1. CASE Reject(r) \/ Begin(r) \/ Expire(r)
        BY <4>1 DEF Reject, Begin, Expire
      <4>2. CASE IncrementSequence(r) \/ InsertConv(r) \/ InsertMember(r)
        BY <4>2 DEF IncrementSequence, InsertConv, InsertMember, Insert
      <4>3. CASE InsertTombstone(r) \/ InsertEmptyConv(r) \/ InsertDevice(r) \/ InsertUser(r)
        BY <4>3 DEF InsertTombstone, InsertEmptyConv, InsertDevice, InsertUser, Insert
      <4>4. CASE Fail(r) \/ RetryRemoval(r) \/ Commit(r) \/ CommitLost(r)
        BY <4>4 DEF Fail, RetryRemoval, Commit, CommitLost, GiveUp
      <4>5. CASE CreateTopic(r) \/ AnswerSignUp(r)
        BY <4>5 DEF CreateTopic, AnswerSignUp, Respond
      <4> QED
        BY <2>3, <4>1, <4>2, <4>3, <4>4, <4>5 DEF HandlerStep
    <3> QED
      BY <3>1, <3>2 DEF Asked
  <2> QED
    BY <2>1, <2>2, <2>3 DEF Next
<1>3. \A d \in db : kind'[d.by] = kind[d.by]
  BY <1>1, OverStaysOver DEF Closed, TypeOK, Docs
<1>4. CASE db' = db
  BY <1>2, <1>3, <1>4 DEF Asked, EffectOf
<1>5. ASSUME NEW r \in Requests, Commit(r) \/ CommitLost(r), TakesEffect(r)
      PROVE  Asked'
  <2>1. Complete(r) /\ kind' = kind
    BY <1>5 DEF Commit, CommitLost
  <2>2. db' = db \cup EffectOf[kind[r]][r]
    BY <1>5, <2>1, CommitIsEffect DEF TakesEffect
  <2>3. \A d \in EffectOf[kind[r]][r] : kind'[d.by] # "none" /\ d \in EffectOf[kind'[d.by]][d.by]
    BY <2>1, CommitIsEffect
  <2> QED
    BY <1>2, <2>1, <2>2, <2>3 DEF Asked, EffectOf
<1> QED
  BY <1>1, <1>4, <1>5, Effects

\* Two effects of one key would have written two documents of one key.
LEMMA KeysOfEffects ==
  ASSUME IInv, Asked, NEW r \in Requests, Complete(r), NEW q \in Committed
  PROVE  q \in Requests \ {r} /\ KeyOf[kind[q]][q] # KeyOf[kind[r]][r]
<1>1. PICK d \in db : d.by = q
  BY DEF Committed
<1>2. /\ TypeOK /\ Closed /\ NothingPartial /\ KeysExclusive
      /\ q \in Requests
      /\ d \in EffectOf[kind[q]][q]
      /\ kind[q] \in {"create", "remove", "user"}
  BY <1>1 DEF IInv, Asked, TypeOK, Docs
<1>3. pc[q] \in {"after", "done", "lost"}
  BY <1>1, <1>2 DEF Closed
<1>4. q # r
  BY <1>3 DEF Complete
<1>5. writes[r] \ {Sequence(r)} = EffectOf[kind[r]][r] /\ kind[r] \in {"create", "remove", "user"}
  BY CommitIsEffect
<1>6. CASE kind[q] = "create" /\ kind[r] = "create"
  <2>1. Conv(q) \in db
    BY <1>1, <1>2, <1>6, EffectForms DEF NothingPartial, Stored, Member, Doc
  <2>2. Conv(r) \in writes[r]
    BY <1>5, <1>6, EffectForms
  <2>3. ~SameKey(Conv(r), Conv(q))
    BY <1>2, <2>1, <2>2 DEF KeysExclusive
  <2> QED
    BY <1>2, <1>4, <1>6, <2>3, KeyForms DEF SameKey, Conv, Doc
<1>7. CASE kind[q] = "remove" /\ kind[r] = "remove"
  <2>1. EmptyConv(q) \in db
    BY <1>1, <1>2, <1>7, EffectForms DEF NothingPartial, Tombstone, Doc
  <2>2. EmptyConv(r) \in writes[r]
    BY <1>5, <1>7, EffectForms
  <2>3. ~SameKey(EmptyConv(r), EmptyConv(q))
    BY <1>2, <2>1, <2>2 DEF KeysExclusive
  <2> QED
    BY <2>3 DEF SameKey, EmptyConv, Doc
<1>8. CASE kind[q] = "user" /\ kind[r] = "user"
  <2>1. User(q) \in db
    BY <1>1, <1>2, <1>8, EffectForms DEF NothingPartial, Device, Doc
  <2>2. User(r) \in writes[r]
    BY <1>5, <1>8, EffectForms
  <2>3. ~SameKey(User(r), User(q))
    BY <1>2, <2>1, <2>2 DEF KeysExclusive
  <2> QED
    BY <1>2, <1>4, <1>8, <2>3, KeyForms DEF SameKey, User, Doc
<1>9. CASE kind[q] # kind[r]
  <2>1. IdOf[q] # ZeroId /\ IdOf[r] # ZeroId
    BY <1>2, BackendAssumption
  <2> QED
    BY <1>2, <1>4, <1>5, <1>9, <2>1, KeyForms
<1> QED
  BY <1>2, <1>5, <1>6, <1>7, <1>8, <1>9

\* A commit, whether its report arrives or not, is the effect of the request.
LEMMA CommitTakesEffect ==
  ASSUME IInv, Asked, NEW r \in Requests, Complete(r), TakesEffect(r),
         UNCHANGED <<kind, seqNum>>
  PROVE  Atomic!TakeEffect(r)
<1>1. TypeOK /\ kind[r] \in {"create", "remove", "user"}
  BY CommitIsEffect DEF IInv
<1>2. r \in Open \ Committed
  <2>1. r \notin Committed
    BY KeysOfEffects
  <2>2. pc[r] \in InTransaction
    BY DEF Complete, InTransaction
  <2> QED
    BY <2>1, <2>2 DEF Open
<1>3. \A q \in Committed : KeyOf[kind[q]][q] # KeyOf[kind[r]][r]
  BY KeysOfEffects
<1>4. db' = db \cup EffectOf[kind[r]][r]
  BY CommitIsEffect DEF TakesEffect
<1>5. Committed' = Committed \cup {r}
  <2>1. Committed' = {d.by : d \in db'}
    BY DEF Committed
  <2> QED
    BY <1>4, <2>1, CommitIsEffect DEF Committed
<1>6. seqValue' = IF kind[r] = "create" THEN seqValue + 1 ELSE seqValue
  BY CommitIsEffect DEF TakesEffect
<1>7. Last' = IF kind[r] \in {"create"} THEN Last + 1 ELSE Last
  BY <1>1, <1>6, CommitIsEffect DEF Last, TypeOK
<1>8. Number' = [Number EXCEPT ![r] = IF kind[r] \in {"create"} THEN Last + 1 ELSE 0]
  <2>1. kind[r] = "create" => seqNum[r] = Last + 1
    BY CommitIsEffect DEF Last
  <2>2. ASSUME NEW q \in Requests
        PROVE  Number'[q] = [Number EXCEPT ![r] = IF kind[r] \in {"create"}
                                                 THEN Last + 1 ELSE 0][q]
    BY <1>5, <2>1 DEF Number
  <2> QED
    BY <2>2 DEF Number
<1> QED
  BY <1>2, <1>3, <1>4, <1>5, <1>7, <1>8 DEF Atomic!TakeEffect, Open, Last, Number

\* What leaves the database, its numbers and the sequence alone leaves the effects.
LEMMA EffectsStay ==
  ASSUME IInv, UNCHANGED <<db, seqValue, kind>>, [Next]_vars
  PROVE  UNCHANGED <<Committed, db, Number, Last, kind>>
<1>1. Committed' = Committed
  BY DEF Committed
<1>2. ASSUME NEW r \in Requests
      PROVE  Number'[r] = Number[r]
  <2>1. CASE r \in Committed
    <3>1. pc[r] \in {"after", "done", "lost"}
      BY <2>1 DEF Committed, IInv, Closed
    <3>2. seqNum'[r] = seqNum[r]
      BY <3>1, OverStaysOver DEF IInv
    <3> QED
      BY <1>1, <3>2 DEF Number
  <2>2. CASE r \notin Committed
    BY <1>1, <2>2 DEF Number
  <2> QED
    BY <2>1, <2>2
<1>3. Number' = Number
  BY <1>2 DEF Number
<1> QED
  BY <1>1, <1>3 DEF Last

\* Each step of the handlers, the process and the server is one of AtomicStore, or
\* changes nothing of what it speaks of.
LEMMA StepRefines ==
  ASSUME IInv, Asked, [Next]_vars
  PROVE  [Atomic!StoreNext]_(Atomic!storeVars)
<1>1. TypeOK /\ Answered
  BY DEF IInv
<1> DEFINE Same == UNCHANGED <<Committed, db, Number, Last, kind>>
<1>2. ASSUME Same, Open' = Open, answer' = answer
      PROVE  UNCHANGED Atomic!storeVars
  BY <1>2 DEF Atomic!storeVars, Open, Number, Last
<1>3. CASE UNCHANGED vars
  <2>1. Same
    BY <1>3, EffectsStay DEF vars
  <2> QED
    BY <1>2, <1>3, <2>1 DEF vars, Open
<1>4. CASE Start
  <2>1. UNCHANGED <<db, kind, seqNum, pc, answer>>
    BY <1>4 DEF Start
  <2>2. Last' = Last
    BY <1>4 DEF Start, Last, IInv, Numbered
  <2>3. Same /\ Open' = Open
    BY <2>1, <2>2 DEF Committed, Number, Open
  <2> QED
    BY <1>2, <2>1, <2>3
<1>5. CASE Die
  <2>1. Same
    BY <1>5, EffectsStay DEF Die
  <2>2. Open' = {}
    BY <1>5 DEF Die, Open, InTransaction, TypeOK
  <2>3. answer' = answer
    BY <1>5 DEF Die
  <2>4. Atomic!Crash
    BY <2>1, <2>2, <2>3 DEF Atomic!Crash, Open, Number, Last
  <2> QED
    BY <2>4 DEF Atomic!StoreNext
<1>6. ASSUME NEW r \in Requests,
             Reject(r) \/ Begin(r) \/ Expire(r) \/ HandlerStep(r)
      PROVE  [Atomic!StoreNext]_(Atomic!storeVars)
  <2>1. \A q \in Requests \ {r} : pc'[q] = pc[q] /\ answer'[q] = answer[q]
    BY <1>1, <1>6, OthersUntouched
  <2>2. AnswerOf(r)
    BY <1>1 DEF Answered
  <2>3. ASSUME pc[r] \in InTransaction \cup {"after"}, pc'[r] = "done"
        PROVE  Open' = Open \ {r}
    BY <2>1, <2>3 DEF Open, InTransaction
  <2>4. ASSUME pc[r] \in InTransaction \cup {"after"}, pc'[r] \in InTransaction \cup {"after"}
        PROVE  Open' = Open
    BY <2>1, <2>4 DEF Open
  <2>5. ASSUME NEW code \in {200, 500}, Same,
               pc[r] \in InTransaction \cup {"after"}, pc'[r] = "done",
               answer' = [answer EXCEPT ![r] = code],
               code = 200 => r \in Committed \/ kind[r] \in {"user"}
        PROVE  Atomic!StoreNext
    <3>1. r \in Open
      BY <2>5 DEF Open
    <3>2. Atomic!Answer(r, code)
      BY <2>3, <2>5, <3>1 DEF Atomic!Answer, Open, Number, Last
    <3> QED
      BY <3>2 DEF Atomic!StoreNext
  <2>6. CASE Reject(r)
    <3>1. Same
      BY <1>6, <2>6, EffectsStay DEF Reject, Next
    <3>2. kind[r] = "none" /\ answer[r] = 0
      BY <2>2, <2>6 DEF Reject, Asked, AnswerOf
    <3>3. Open' = Open
      BY <2>1, <2>6, <1>1 DEF Reject, Open, InTransaction, TypeOK
    <3>4. answer' = [answer EXCEPT ![r] = 500]
      BY <2>6 DEF Reject
    <3>5. Atomic!Refuse(r)
      BY <3>1, <3>2, <3>3, <3>4 DEF Atomic!Refuse, Open, Number, Last
    <3> QED
      BY <3>5 DEF Atomic!StoreNext
  <2>7. CASE Begin(r)
    <3>1. PICK k \in {"create", "remove", "user"} :
              /\ kind' = [kind EXCEPT ![r] = k]
              /\ pc' = [pc EXCEPT ![r] = CASE k = "create" -> "increment"
                                           [] k = "remove" -> "tombstone"
                                           [] k = "user"   -> "device"]
      BY <2>7 DEF Begin
    <3>2. kind[r] = "none" /\ answer[r] = 0 /\ pc[r] = "new"
      BY <2>2, <2>7 DEF Begin, Asked, AnswerOf
    <3>3. UNCHANGED <<db, seqNum, seqValue, answer>>
      BY <2>7 DEF Begin
    <3>4. Open' = Open \cup {r}
      <4>1. pc'[r] \in InTransaction
        BY <1>1, <3>1 DEF TypeOK, InTransaction
      <4> QED
        BY <2>1, <4>1 DEF Open
    <3>5. Committed' = Committed /\ r \notin Committed
      BY <3>2, <3>3 DEF Committed, IInv, Closed
    <3>6. Number' = Number
      <4>1. \A q \in Requests \ {r} : kind'[q] = kind[q]
        BY <1>1, <3>1 DEF TypeOK
      <4>2. \A q \in Requests : Number'[q] = Number[q]
        BY <3>3, <3>5, <4>1 DEF Number
      <4> QED
        BY <4>2 DEF Number
    <3>7. Atomic!Ask(r, k)
      BY <3>1, <3>2, <3>3, <3>4, <3>5, <3>6 DEF Atomic!Ask, Open, Number, Last
    <3> QED
      BY <3>7 DEF Atomic!StoreNext
  <2>8. CASE Expire(r)
    <3>1. Same
      BY <2>8, <1>6, EffectsStay DEF Expire, Next
    <3>2. Open' = Open /\ answer' = answer
      BY <2>8 DEF Expire, Open
    <3> QED
      BY <1>2, <3>1, <3>2
  <2>9. CASE \/ IncrementSequence(r) \/ InsertConv(r) \/ InsertMember(r)
             \/ InsertTombstone(r) \/ InsertEmptyConv(r)
             \/ InsertDevice(r) \/ InsertUser(r)
    <3>1. /\ pc[r] \in InTransaction /\ pc'[r] \in InTransaction
          /\ UNCHANGED <<db, seqValue, kind, answer>>
      BY <1>1, <2>9 DEF IncrementSequence, InsertConv, InsertMember, InsertTombstone,
             InsertEmptyConv, InsertDevice, InsertUser, Insert, InTransaction, TypeOK
    <3>2. Same
      BY <1>6, <3>1, EffectsStay DEF Next
    <3> QED
      BY <1>2, <2>4, <3>1, <3>2
  <2>10. CASE Fail(r)
    <3>1. pc[r] \in InTransaction /\ UNCHANGED <<db, seqValue, kind>> /\ GiveUp(r)
      BY <2>10 DEF Fail
    <3>2. Same
      BY <1>6, <3>1, EffectsStay DEF Next
    <3>3. CASE kind[r] = "user"
      <4>1. pc'[r] = "after" /\ answer' = answer
        BY <1>1, <3>1, <3>3 DEF GiveUp, TypeOK
      <4> QED
        BY <1>2, <2>4, <3>1, <3>2, <4>1
    <3>4. CASE kind[r] # "user"
      <4>1. pc'[r] = "done" /\ answer' = [answer EXCEPT ![r] = 500]
        BY <1>1, <3>1, <3>4 DEF GiveUp, TypeOK
      <4> QED
        BY <2>5, <3>1, <3>2, <4>1
    <3> QED
      BY <3>3, <3>4
  <2>11. CASE RetryRemoval(r)
    <3>1. /\ pc[r] \in InTransaction /\ pc'[r] \in InTransaction
          /\ UNCHANGED <<db, seqValue, kind, answer>>
      BY <1>1, <2>11 DEF RetryRemoval, Pending, InTransaction, TypeOK
    <3>2. Same
      BY <1>6, <3>1, EffectsStay DEF Next
    <3> QED
      BY <1>2, <2>4, <3>1, <3>2
  <2>12. CASE Commit(r) \/ CommitLost(r)
    <3>1. /\ Complete(r) /\ TakesEffect(r) /\ UNCHANGED <<kind, seqNum>>
          /\ pc[r] \in InTransaction
      BY <2>12 DEF Commit, CommitLost, Complete, InTransaction
    <3>2. Atomic!TakeEffect(r)
      BY <3>1, CommitTakesEffect
    <3>3. CASE pc'[r] = "after" /\ answer' = answer
      <4>1. Open' = Open
        BY <2>4, <3>1, <3>3
      <4>2. Atomic!Succeed(r)
        BY <3>2, <3>3, <4>1 DEF Atomic!Succeed, Open
      <4> QED
        BY <4>2 DEF Atomic!StoreNext
    <3>4. CASE pc'[r] = "done" /\ answer' = [answer EXCEPT ![r] = 500]
      <4>1. Open' = Open \ {r}
        BY <2>3, <3>1, <3>4
      <4>2. Atomic!SucceedUnheard(r)
        BY <3>2, <3>4, <4>1 DEF Atomic!SucceedUnheard, Open
      <4> QED
        BY <4>2 DEF Atomic!StoreNext
    <3> QED
      BY <1>1, <2>12, <3>3, <3>4 DEF Commit, CommitLost, GiveUp, TypeOK
  <2>13. CASE CreateTopic(r) \/ AnswerSignUp(r)
    <3>1. PICK code \in {200, 500}, starts \in BOOLEAN :
              /\ Respond(r, code, starts)
              /\ kind[r] \in {"create", "user"}
      BY <2>13 DEF CreateTopic, AnswerSignUp
    <3>2. /\ pc[r] = "after" /\ pc'[r] = "done"
          /\ answer' = [answer EXCEPT ![r] = code]
          /\ UNCHANGED <<db, seqValue, kind>>
      BY <1>1, <3>1 DEF Respond, TypeOK
    <3>3. Same
      BY <1>6, <3>2, EffectsStay DEF Next
    <3>4. kind[r] = "create" => r \in Committed
      <4>1. kind[r] = "create" => Conv(r) \in db
        BY <2>2, <3>2 DEF AnswerOf
      <4> QED
        BY <4>1, ConvFields DEF Committed
    <3> QED
      BY <2>5, <3>1, <3>2, <3>3, <3>4
  <2> QED
    BY <1>6, <2>6, <2>7, <2>8, <2>9, <2>10, <2>11, <2>12, <2>13 DEF HandlerStep
<1> QED
  BY <1>3, <1>4, <1>5, <1>6 DEF Next, Killed, RabbitTask, RemovalPanics

\* The transactions of the handlers, with their conflicts, failures, retries, lost
\* commits and restarts, implement effects that take place at once or never.
THEOREM StoreImplemented == Spec => ImplementsStore
<1>1. Init => Asked /\ Atomic!StoreInit
  <2> SUFFICES ASSUME Init PROVE Asked /\ Atomic!StoreInit
    OBVIOUS
  <2>1. Asked
    BY DEF Init, Asked
  <2>2. Committed = {} /\ Open = {} /\ Number = [r \in Requests |-> 0] /\ Last = 1
    BY DEF Init, Committed, Open, InTransaction, Number, Last
  <2> QED
    BY <2>1, <2>2 DEF Init, Atomic!StoreInit, Open, Number, Last
<1>2. IInv /\ Asked /\ [Next]_vars => Asked'
  BY AskedPreserved
<1>3. IInv /\ Asked /\ [Next]_vars => [Atomic!StoreNext]_(Atomic!storeVars)
  BY StepRefines
<1> QED
  BY <1>1, <1>2, <1>3, Invariance, PTL DEF Spec, ImplementsStore, Atomic!StoreSpec
=============================================================================
