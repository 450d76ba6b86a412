------------------------------ MODULE Backend -------------------------------
(***************************************************************************)
(* The REST handlers that write to MongoDB in transactions, in the process *)
(* that main starts: createNewChatConversation ("create"),                 *)
(* removeUserFromChat ("remove") and createUserHandler ("user").           *)
(*                                                                         *)
(* MongoDB is external.  A transaction keeps what it has written to itself *)
(* until it commits.  A write to a document that another open transaction  *)
(* has written fails at once with a transient error, a second document     *)
(* with the same _id with another one, and any call may fail or time out.  *)
(* A commit that reports an error may have taken effect.  The transaction  *)
(* of a client that is gone stays open until the server ends it.           *)
(*                                                                         *)
(* main gives every broker pool as nil, so the first use of the RabbitMQ   *)
(* pool panics, which ends the process: nothing below recovers.            *)
(***************************************************************************)
EXTENDS Naturals, FiniteSets

CONSTANTS Requests, \* requests; a client that tries again sends another one
          Ids,      \* ids that clients send: of conversations and of users
          IdOf,     \* IdOf[r]: the ChatId, or the UserId, of request r
          ZeroId,   \* the id of a record whose Id was never set
          Users,    \* users of conversations
          UsersOf,  \* UsersOf[r]: the UserIds in the body of request r
          MaxSeeds  \* bound: seed documents inserted by main

ASSUME BackendAssumption ==
    /\ IdOf \in [Requests -> Ids]
    /\ UsersOf \in [Requests -> SUBSET Users]
    /\ ZeroId \notin Ids
    /\ MaxSeeds \in Nat

VARIABLES
    up,        \* the process runs
    pc,        \* pc[r]: where the handler of request r is
    kind,      \* kind[r]: what request r asks for
    seqNum,    \* seqNum[r]: what IncrementSequence returned to it
    writes,    \* writes[r]: documents its open transaction has written
    db,        \* committed documents, but for the sequence
    seeds,     \* sequence documents; FindOneAndUpdate finds the first one
    seqValue,  \* committed SeqValue of the first one
    transient, \* transient[r]: a transient error has ended its transaction
    tries,     \* tries[r]: calls of its critical section by DoTrx
    answer,    \* answer[r]: its status code
    task       \* task[r]: it has started its goroutine for RabbitMQ

vars == <<up, pc, kind, seqNum, writes, db, seeds, seqValue, transient, tries,
          answer, task>>

-----------------------------------------------------------------------------
(* Documents.  Members and devices have random ids; they are told apart by *)
(* the request that wrote them.                                            *)

Doc(coll, i, r) == [coll |-> coll, id |-> i, by |-> r]

Sequence(r)  == Doc("sequence", ZeroId, r)
Conv(r)      == Doc("conv", IdOf[r], r)
Member(u, r) == Doc("member", u, r)
Tombstone(r) == Doc("tombstone", IdOf[r], r)  \* a member record, _id = ChatId
EmptyConv(r) == Doc("conv", ZeroId, r)      \* a MongoChatConv without an Id
Device(r)    == Doc("device", IdOf[r], r)
User(r)      == Doc("user", IdOf[r], r)

\* Fault (the intention, in fact): a zero id is omitted (bson "omitempty"), and
\* the driver makes one up.
SameKeyUnlessZero(d, e) ==
    /\ d.coll = e.coll
    /\ d.id = e.id
    /\ d.coll \notin {"member", "device"}
    /\ d.coll = "conv" => d.id # ZeroId

\* The _id is unique in a collection; a zero one is an _id like any other.
SameKey(d, e) ==
    /\ d.coll = e.coll
    /\ d.id = e.id
    /\ d.coll \notin {"member", "device"}

\* Another open transaction has written the document.
Conflicts(r, d) ==
    \E q \in Requests \ {r} : \E e \in writes[q] : SameKey(d, e)

Duplicate(d) == \E e \in db : SameKey(d, e)

InTransaction == {"increment", "conv", "members", "tombstone", "emptyConv",
                  "commitRemoval", "device", "user", "commitUser"}

\* The documents one of which the handler writes next.
Pending(r) ==
    CASE pc[r] = "increment" -> {Sequence(r)}
      [] pc[r] = "conv"      -> {Conv(r)}
      [] pc[r] = "members"   -> {Member(u, r) : u \in UsersOf[r]} \ writes[r]
      [] pc[r] = "tombstone" -> {Tombstone(r)}
      [] pc[r] = "emptyConv" -> {EmptyConv(r)}
      [] pc[r] = "device"    -> {Device(r)}
      [] pc[r] = "user"      -> {User(r)}
      [] OTHER               -> {}

Docs == [coll : {"sequence", "conv", "member", "tombstone", "device", "user"},
         id   : Ids \cup {ZeroId} \cup Users,
         by   : Requests]

TypeOK ==
    /\ up \in BOOLEAN
    /\ pc \in [Requests ->
                  InTransaction \cup {"new", "after", "done", "lost"}]
    /\ kind \in [Requests -> {"none", "create", "remove", "user"}]
    /\ seqNum \in [Requests -> Nat]
    /\ writes \in [Requests -> SUBSET Docs]
    /\ db \subseteq Docs
    /\ seeds \in 0..MaxSeeds
    /\ seqValue \in Nat
    /\ transient \in [Requests -> BOOLEAN]
    /\ tries \in [Requests -> 0..1]
    /\ answer \in [Requests -> {0, 200, 500}]
    /\ task \in [Requests -> BOOLEAN]

Init ==
    /\ up = FALSE
    /\ pc = [r \in Requests |-> "new"]
    /\ kind = [r \in Requests |-> "none"]
    /\ seqNum = [r \in Requests |-> 0]
    /\ writes = [r \in Requests |-> {}]
    /\ db = {}
    /\ seeds = 0
    /\ seqValue = 0
    /\ transient = [r \in Requests |-> FALSE]
    /\ tries = [r \in Requests |-> 0]
    /\ answer = [r \in Requests |-> 0]
    /\ task = [r \in Requests |-> FALSE]

-----------------------------------------------------------------------------
(* The process                                                             *)

\* main connects and inserts the seed of the sequence; an error is ignored.
Start ==
    /\ ~up
    /\ up' = TRUE
    /\ \/ UNCHANGED <<seeds, seqValue>>
       \/ /\ seeds < MaxSeeds
          /\ seeds' = seeds + 1
          /\ seqValue' = IF seeds = 0 THEN 1 ELSE seqValue
    /\ UNCHANGED <<pc, kind, seqNum, writes, db, transient, tries, answer,
                   task>>

\* The process is gone, and with it every handler and goroutine.
Die ==
    /\ up
    /\ up' = FALSE
    /\ pc' = [r \in Requests |->
                 IF pc[r] \in {"new", "done"} THEN pc[r] ELSE "lost"]
    /\ task' = [r \in Requests |-> FALSE]
    /\ UNCHANGED <<kind, seqNum, writes, db, seeds, seqValue, transient,
                   tries, answer>>

\* A signal, or a failure elsewhere.
Killed == Die

\* Fault: the goroutine recovers.
RabbitTaskRecovers(r) ==
    /\ task[r]
    /\ task' = [task EXCEPT ![r] = FALSE]
    /\ UNCHANGED <<up, pc, kind, seqNum, writes, db, seeds, seqValue,
                   transient, tries, answer>>

\* c.RMQConnPool.GetConnection() on a nil pool, in a goroutine that does not
\* recover.
RabbitTask(r) ==
    /\ task[r]
    /\ Die

\* The server ends a transaction whose client has let go of it.
Expire(r) ==
    /\ pc[r] \notin InTransaction
    /\ writes[r] # {}
    /\ writes' = [writes EXCEPT ![r] = {}]
    /\ UNCHANGED <<up, pc, kind, seqNum, db, seeds, seqValue, transient,
                   tries, answer, task>>

-----------------------------------------------------------------------------
(* A request                                                               *)

\* The body has no usable ids, or the user is unknown: 500.
Reject(r) ==
    /\ up
    /\ pc[r] = "new"
    /\ pc' = [pc EXCEPT ![r] = "done"]
    /\ answer' = [answer EXCEPT ![r] = 500]
    /\ UNCHANGED <<up, kind, seqNum, writes, db, seeds, seqValue, transient,
                   tries, task>>

\* The handler has read the body and starts its transaction.
Begin(r) ==
    /\ up
    /\ pc[r] = "new"
    /\ \E k \in {"create", "remove", "user"} :
          /\ kind' = [kind EXCEPT ![r] = k]
          /\ pc' = [pc EXCEPT ![r] = CASE k = "create" -> "increment"
                                       [] k = "remove" -> "tombstone"
                                       [] k = "user"   -> "device"]
          /\ tries' = [tries EXCEPT ![r] = IF k = "remove" THEN 0 ELSE 1]
    /\ UNCHANGED <<up, seqNum, writes, db, seeds, seqValue, transient,
                   answer, task>>

\* One insert with the session of the transaction (DoInsertOne).
Insert(r, d, next) ==
    /\ up
    /\ ~Conflicts(r, d)
    /\ ~Duplicate(d)
    /\ writes' = [writes EXCEPT ![r] = @ \cup {d}]
    /\ pc' = [pc EXCEPT ![r] = next]
    /\ UNCHANGED <<up, kind, db, seeds, seqValue, transient, tries, answer,
                   task>>

\* Fault: the increment does not use the session context.
IncrementSequenceNow(r) ==
    /\ up
    /\ pc[r] = "increment"
    /\ seeds > 0
    /\ seqValue' = seqValue + 1
    /\ seqNum' = [seqNum EXCEPT ![r] = seqValue + 1]
    /\ pc' = [pc EXCEPT ![r] = "conv"]
    /\ UNCHANGED <<up, kind, writes, db, seeds, transient, tries, answer,
                   task>>

\* Fault: the handler goes on with the -1 that comes with an error.
IncrementSequenceUnchecked(r) ==
    /\ pc[r] = "increment"
    /\ seqNum' = [seqNum EXCEPT ![r] = IF seeds > 0 THEN seqValue + 1
                                                   ELSE 0 - 1]
    /\ Insert(r, Sequence(r), "conv")

\* FindOneAndUpdate needs a document, and writes it.
IncrementSequence(r) ==
    /\ pc[r] = "increment"
    /\ seeds > 0
    /\ seqNum' = [seqNum EXCEPT ![r] = seqValue + 1]
    /\ Insert(r, Sequence(r), "conv")

InsertConv(r) ==
    /\ pc[r] = "conv"
    /\ Insert(r, Conv(r), "members")
    /\ UNCHANGED seqNum

\* Fault: the members are inserted with NewStdMgoCtx, outside the transaction.
InsertMemberNow(r) ==
    /\ up
    /\ pc[r] = "members"
    /\ \E d \in Pending(r) :
          /\ writes' = [writes EXCEPT ![r] = @ \cup {d}]
          /\ db' = db \cup {d}
    /\ UNCHANGED <<up, pc, kind, seqNum, seeds, seqValue, transient, tries,
                   answer, task>>

\* One turn of the loop over UserIds.
InsertMember(r) ==
    /\ pc[r] = "members"
    /\ \E d \in Pending(r) : Insert(r, d, "members")
    /\ UNCHANGED seqNum

InsertTombstone(r) ==
    /\ pc[r] = "tombstone"
    /\ Insert(r, Tombstone(r), "emptyConv")
    /\ UNCHANGED seqNum

InsertEmptyConv(r) ==
    /\ pc[r] = "emptyConv"
    /\ Insert(r, EmptyConv(r), "commitRemoval")
    /\ UNCHANGED seqNum

InsertDevice(r) ==
    /\ pc[r] = "device"
    /\ Insert(r, Device(r), "user")
    /\ UNCHANGED seqNum

InsertUser(r) ==
    /\ pc[r] = "user"
    /\ Insert(r, User(r), "commitUser")
    /\ UNCHANGED seqNum

-----------------------------------------------------------------------------
(* The end of a transaction                                                *)

\* createUserHandler goes on after an error (ignoreTransErr), the others
\* answer 500.
GiveUp(r) ==
    /\ pc' = [pc EXCEPT ![r] = IF kind[r] = "user" THEN "after" ELSE "done"]
    /\ answer' = IF kind[r] = "user" THEN answer
                                  ELSE [answer EXCEPT ![r] = 500]

\* An error of a call other than the commit.  The transaction is aborted,
\* unless that fails too.  M.DoTrx gives the error to the handler, transient
\* or not: errors.As looks for a *mongo.CommandError, which the driver never
\* returns (its errors are values).
Fail(r) ==
    /\ up
    /\ pc[r] \in InTransaction
    /\ \/ UNCHANGED transient
       \/ /\ kind[r] # "remove"
          /\ \E d \in Pending(r) : Conflicts(r, d)
          /\ transient' = [transient EXCEPT ![r] = TRUE]
    /\ \/ writes' = [writes EXCEPT ![r] = {}]
       \/ UNCHANGED writes
    /\ GiveUp(r)
    /\ UNCHANGED <<up, kind, seqNum, db, seeds, seqValue, tries, task>>

\* Fault: every error is taken for a transient one.
RetryRemovalAlways(r) ==
    /\ up
    /\ kind[r] = "remove"
    /\ \E d \in Pending(r) : Conflicts(r, d) \/ Duplicate(d)
    /\ writes' = [writes EXCEPT ![r] = {}]
    /\ pc' = [pc EXCEPT ![r] = "tombstone"]
    /\ UNCHANGED <<up, kind, seqNum, db, seeds, seqValue, transient, tries,
                   answer, task>>

\* session.WithTransaction aborts and runs its callback again after a
\* transient error, until its context ends (Fail).
RetryRemoval(r) ==
    /\ up
    /\ kind[r] = "remove"
    /\ \E d \in Pending(r) : Conflicts(r, d)
    /\ writes' = [writes EXCEPT ![r] = {}]
    /\ pc' = [pc EXCEPT ![r] = "tombstone"]
    /\ UNCHANGED <<up, kind, seqNum, db, seeds, seqValue, transient, tries,
                   answer, task>>

\* The critical section has returned without an error.
Complete(r) ==
    \/ pc[r] \in {"commitRemoval", "commitUser"}
    \/ pc[r] = "members" /\ Pending(r) = {}

TakesEffect(r) ==
    /\ db' = db \cup (writes[r] \ {Sequence(r)})
    /\ seqValue' = IF Sequence(r) \in writes[r] THEN seqValue + 1
                                               ELSE seqValue
    /\ writes' = [writes EXCEPT ![r] = {}]

\* Fault: the error of the commit is only logged.
CommitIgnoresError(r) ==
    /\ up
    /\ Complete(r)
    /\ pc' = [pc EXCEPT ![r] = "after"]
    /\ TakesEffect(r) \/ UNCHANGED <<db, seqValue, writes>>
    /\ UNCHANGED <<up, kind, seqNum, seeds, transient, tries, answer, task>>

Commit(r) ==
    /\ up
    /\ Complete(r)
    /\ TakesEffect(r)
    /\ pc' = [pc EXCEPT ![r] = "after"]
    /\ UNCHANGED <<up, kind, seqNum, seeds, transient, tries, answer, task>>

\* The commit takes effect and reports an error; the abort that follows
\* changes nothing.
CommitLost(r) ==
    /\ up
    /\ Complete(r)
    /\ TakesEffect(r)
    /\ GiveUp(r)
    /\ UNCHANGED <<up, kind, seqNum, seeds, transient, tries, task>>

-----------------------------------------------------------------------------
(* After the transaction                                                   *)

Respond(r, code, starts) ==
    /\ up
    /\ pc[r] = "after"
    /\ pc' = [pc EXCEPT ![r] = "done"]
    /\ answer' = [answer EXCEPT ![r] = code]
    /\ task' = [task EXCEPT ![r] = starts]
    /\ UNCHANGED <<up, kind, seqNum, writes, db, seeds, seqValue, transient,
                   tries>>

\* createNewChatConversation creates the Kafka topic and answers; the
\* goroutine for RabbitMQ starts only if Kafka has accepted the request.
CreateTopic(r) ==
    /\ kind[r] = "create"
    /\ Respond(r, 200, TRUE) \/ Respond(r, 500, FALSE)

\* Fault (the intention, in fact): the Recovery middleware recovers.
RemovalAnswers(r) ==
    /\ kind[r] = "remove"
    /\ Respond(r, 500, FALSE)

\* removeUserFromChat uses the nil RabbitMQ pool while it handles the request.
\* MakeRunParallel has given the rest of the chain a goroutine of its own, and
\* Recovery does not recover there: HandlePanic calls recover, but is itself
\* called by the deferred function, and then recover returns nil.
RemovalPanics(r) ==
    /\ kind[r] = "remove"
    /\ pc[r] = "after"
    /\ Die

\* createUserHandler starts two goroutines and answers "(done)".
AnswerSignUp(r) ==
    /\ kind[r] = "user"
    /\ Respond(r, 200, TRUE)

HandlerStep(r) ==
    \/ IncrementSequence(r)
    \/ InsertConv(r)
    \/ InsertMember(r)
    \/ InsertTombstone(r)
    \/ InsertEmptyConv(r)
    \/ InsertDevice(r)
    \/ InsertUser(r)
    \/ Fail(r)
    \/ RetryRemoval(r)
    \/ Commit(r)
    \/ CommitLost(r)
    \/ CreateTopic(r)
    \/ AnswerSignUp(r)

Next ==
    \/ Start
    \/ Killed
    \/ \E r \in Requests :
          \/ Reject(r)
          \/ Begin(r)
          \/ HandlerStep(r)
          \/ RabbitTask(r)
          \/ RemovalPanics(r)
          \/ Expire(r)

Spec == Init /\ [][Next]_vars

\* Handlers and goroutines run, and the server ends abandoned transactions.
\* Nothing makes a request arrive, or the process start or be killed.
FairSpec ==
    /\ Spec
    /\ \A r \in Requests : /\ WF_vars(HandlerStep(r))
                           /\ WF_vars(RabbitTask(r))
                           /\ WF_vars(RemovalPanics(r))
                           /\ WF_vars(Expire(r))

-----------------------------------------------------------------------------
(* Properties                                                              *)

Stored == {d \in db : d.coll = "conv" /\ d.id # ZeroId}

\* However requests conflict, fail, or are cut off by the end of the process,
\* a conversation is stored with all its members and its members with it, a
\* user with his device, and a removal with its empty conversation.
NothingPartial ==
    /\ \A d \in Stored : \A u \in UsersOf[d.by] : Member(u, d.by) \in db
    /\ \A d \in db :
          /\ d.coll = "member" => Conv(d.by) \in Stored
          /\ d.coll = "device" => User(d.by) \in db
          /\ d.coll = "user" => Device(d.by) \in db
          /\ d.coll = "tombstone" => EmptyConv(d.by) \in db

\* The stored conversations are numbered from 2 without gaps and without
\* repetition, across failures, restarts and further seed documents.
SeqNumbersDense ==
    /\ \A d, e \in Stored : seqNum[d.by] = seqNum[e.by] => d = e
    /\ {seqNum[d.by] : d \in Stored} = 2..seqValue

\* A request to create a conversation that is answered 200 has stored it, and
\* no two of them are for the same ChatId.
AnswerMeansStored ==
    \A r \in Requests :
        kind[r] = "create" /\ answer[r] = 200 =>
            /\ Conv(r) \in db
            /\ \A q \in Requests \ {r} :
                  kind[q] = "create" /\ answer[q] = 200 => IdOf[q] # IdOf[r]

\* The empty conversation that every removal inserts has the zero id, so one
\* removal takes effect in the life of the database.
AtMostOneRemoval ==
    \A d, e \in db : d.coll = "tombstone" /\ e.coll = "tombstone" => d = e

\* What a request writes when it takes effect, and the key that no other one may
\* have written.  A removal's is the zero id of its empty conversation.
EffectOf ==
    [create |-> [r \in Requests |-> {Conv(r)} \cup {Member(u, r) : u \in UsersOf[r]}],
     remove |-> [r \in Requests |-> {Tombstone(r), EmptyConv(r)}],
     user   |-> [r \in Requests |-> {Device(r), User(r)}]]

KeyOf ==
    [create |-> [r \in Requests |-> <<"conv", IdOf[r]>>],
     remove |-> [r \in Requests |-> <<"conv", ZeroId>>],
     user   |-> [r \in Requests |-> <<"user", IdOf[r]>>]]

Committed == {d.by : d \in db}

Atomic == INSTANCE AtomicStore WITH
              Kinds     <- {"create", "remove", "user"},
              Counted   <- {"create"},
              Blind     <- {"user"},
              asked     <- kind,
              open      <- {r \in Requests : pc[r] \in InTransaction \cup {"after"}},
              committed <- Committed,
              stored    <- db,
              number    <- [r \in Requests |->
                              IF r \in Committed /\ kind[r] = "create"
                              THEN seqNum[r] ELSE 0],
              last      <- IF seqValue = 0 THEN 1 ELSE seqValue

\* Whatever conflicts, fails, is retried or is cut off, a request takes effect as a
\* whole, in one step, before its answer and in the life of its process, or never:
\* the transactions of the handlers implement AtomicStore.
ImplementsStore == Atomic!StoreSpec

\* Every handler that starts ends, unless the process does: a removal does
\* not run its callback for ever.
HandlersEnd ==
    \A r \in Requests :
        pc[r] \in InTransaction ~> pc[r] \in {"done", "lost"}

\* Creating a conversation or a user, or removing a member, ends the process:
\* each goes on to use the nil RabbitMQ pool.
WritesEndProcess ==
    \A r \in Requests :
        (task[r] \/ (kind[r] = "remove" /\ pc[r] = "after")) ~> ~up

\* "inside DoTrx, we do one retry if it's a transient error" (a comment of
\* createNewChatConversation).
TransientIsRetried ==
    \A r \in Requests :
        kind[r] = "create" /\ answer[r] = 500 /\ transient[r] => tries[r] > 1
=============================================================================
