------------------------------ MODULE Brokers -------------------------------
(***************************************************************************)
(* The connection pools of src/common (RabbitMQ, its second version, Kafka *)
(* producers and consumers, Redis, MongoDB) and the callers that publish   *)
(* or subscribe through them, src/rest/io.  The pools share nothing, so    *)
(* the model has one pool, of any kind; main.go gives its services no pool *)
(* (Lifecycle and Backend say what happens then), so this is library code  *)
(* as a caller with pools would use it.  The brokers are external.         *)
(*                                                                         *)
(* A slot has a readers-writer lock.  GetConnection looks at the slot with *)
(* the read lock, and gives it up: what it returns is read after that, and *)
(* when the slot is no use it takes the write lock, dials and stores.  Two *)
(* callers can reach the write lock one after the other; the pools of      *)
(* RabbitMQ look again then, the others only say so in a comment.  The     *)
(* write lock is held while a caller dials, so a redial is one step.       *)
(***************************************************************************)
EXTENDS Naturals, FiniteSets

CONSTANTS
  Callers,       \* the calls of a publisher, a subscriber or a query
  Size,          \* the size of the pool
  MaxConns       \* bound: how many connections are ever made

\* What Parts assumes of the constants.
BrokersAssumption == Size \in Nat \ {0} /\ MaxConns \in Nat /\ Size <= MaxConns

Kinds == {"rabbit", "pool2", "kafka", "redis", "mongo"}
Slots == 0..Size - 1

VARIABLES
  kind,          \* the kind of the pool, "none" before it is made
  slot,          \* slot -> its connection, 0 for nil
  open,          \* connections that are open
  made,          \* how many connections were made
  counter,       \* the round-robin counter
  notify,        \* pool-2.go: slots whose first connection is watched
  at, my,        \* call -> where it is, and its slot
  conn,          \* call -> the connection it was given
  tries          \* call -> retryCount

vars == <<kind, slot, open, made, counter, notify, at, my, conn, tries>>
pool == <<kind, slot, open, made, counter, notify>>

TypeOK ==
  /\ kind \in Kinds \cup {"none"}
  /\ slot \in [Slots -> 0..MaxConns]
  /\ open \subseteq 1..MaxConns
  /\ made \in 0..MaxConns
  /\ counter \in Slots
  /\ notify \subseteq Slots
  /\ at \in [Callers -> {"start", "pick", "check", "take", "lock", "use", "sleep", "done"}]
  /\ my \in [Callers -> Slots]
  /\ conn \in [Callers -> 0..MaxConns]
  /\ tries \in [Callers -> 0..6]

Init ==
  /\ kind = "none"
  /\ slot = [i \in Slots |-> 0]
  /\ open = {}
  /\ made = 0
  /\ counter = 0
  /\ notify = {}
  /\ at = [c \in Callers |-> "start"]
  /\ my = [c \in Callers |-> 0]
  /\ conn = [c \in Callers |-> 0]
  /\ tries = [c \in Callers |-> 0]

Goto(c, from, to) == at[c] = from /\ at' = [at EXCEPT ![c] = to]

-----------------------------------------------------------------------------
\* A pool with its slots.
Made(k, s) ==
  /\ kind = "none"
  /\ kind' = k
  /\ made' = Size
  /\ open' = 1..Size
  /\ slot' = s
  /\ notify' = IF k = "pool2" THEN Slots ELSE {}
  /\ UNCHANGED <<counter, at, my, conn, tries>>

\* The constructors dial every slot, or return an error and no pool.
NewPool(k) == k # "mongo" /\ Made(k, [i \in Slots |-> i + 1])

\* The one of MongoDB logs the error of Connect and keeps the nil client.
NewMongoPool == \E up \in SUBSET Slots : Made("mongo", [i \in Slots |-> IF i \in up THEN i + 1 ELSE 0])

\* The limits on retryCount: a call above it returns at once.
MaxRetries == IF kind = "rabbit" THEN 5 ELSE 3

\* Fault: one retry too many.
StartOneMore(c) ==
  /\ kind # "none"
  /\ \E from \in {"start", "sleep"} :
       \/ tries[c] > MaxRetries + 1 /\ Goto(c, from, "done")
       \/ tries[c] <= MaxRetries + 1 /\ Goto(c, from, "pick")
  /\ UNCHANGED <<pool, my, conn, tries>>

\* A call: the first one, or a retry after its three seconds.
Start(c) ==
  /\ kind # "none"
  /\ \E from \in {"start", "sleep"} :
       \/ tries[c] > MaxRetries /\ Goto(c, from, "done")
       \/ tries[c] <= MaxRetries /\ Goto(c, from, "pick")
  /\ UNCHANGED <<pool, my, conn, tries>>

\* GetConnection: the counter, under the mutex of the pool.
Pick(c) ==
  /\ Goto(c, "pick", "check")
  /\ counter' = (counter + 1) % Size
  /\ my' = [my EXCEPT ![c] = counter']
  /\ UNCHANGED <<kind, slot, open, made, notify, conn, tries>>

\* Only RabbitMQ connections are asked whether they are closed with an effect:
\* nobody closes a Kafka producer, and the clients of Redis and MongoDB have no
\* such state.
Usable(i) == slot[i] # 0 /\ (kind \in {"rabbit", "pool2"} => slot[i] \in open)

Check(c) ==
  /\ IF Usable(my[c]) THEN Goto(c, "check", "take") ELSE Goto(c, "check", "lock")
  /\ UNCHANGED <<pool, my, conn, tries>>

\* return connWrapper.conn, after RUnlock.
Take(c) ==
  /\ Goto(c, "take", "use")
  /\ conn' = [conn EXCEPT ![c] = slot[my[c]]]
  /\ UNCHANGED <<pool, my, tries>>

\* A new connection in slot i.
Store(i) ==
  /\ made < MaxConns
  /\ made' = made + 1
  /\ open' = open \cup {made + 1}
  /\ slot' = [slot EXCEPT ![i] = made + 1]

\* Dialled under the write lock; a failure starts over after some seconds.
Dial(c) ==
  \/ /\ Goto(c, "lock", "use")
     /\ Store(my[c])
     /\ conn' = [conn EXCEPT ![c] = made + 1]
  \/ /\ Goto(c, "lock", "pick")
     /\ UNCHANGED <<slot, open, made, conn>>

\* Fault: the second look of the RabbitMQ pools left out, as in the others.
RedialUnchecked(c) ==
  /\ Dial(c)
  /\ UNCHANGED <<kind, counter, notify, my, tries>>

\* The write lock, and the second look where there is one.
Redial(c) ==
  /\ \/ /\ kind \in {"rabbit", "pool2"} /\ Usable(my[c])
        /\ Goto(c, "lock", "use")
        /\ conn' = [conn EXCEPT ![c] = slot[my[c]]]
        /\ UNCHANGED <<slot, open, made>>
     \/ ~(kind \in {"rabbit", "pool2"} /\ Usable(my[c])) /\ Dial(c)
  /\ UNCHANGED <<kind, counter, notify, my, tries>>

\* pool-2.go: the goroutine that watches the first connection of a slot dials and
\* stores without a look at the slot.  Then its channel is closed.
Notified(i) ==
  /\ i \in notify /\ i + 1 \notin open
  /\ notify' = notify \ {i}
  /\ Store(i) \/ UNCHANGED <<slot, open, made>>
  /\ UNCHANGED <<kind, counter, at, my, conn, tries>>

\* The broker or the network closes a connection of RabbitMQ.
Close(k) ==
  /\ kind \in {"rabbit", "pool2"} /\ k \in open
  /\ open' = open \ {k}
  /\ UNCHANGED <<kind, slot, made, counter, notify, at, my, conn, tries>>

-----------------------------------------------------------------------------
\* The attempt is over: what it knew is gone.
Leave(c, to) ==
  /\ Goto(c, "use", to)
  /\ my' = [my EXCEPT ![c] = 0]
  /\ conn' = [conn EXCEPT ![c] = 0]
  /\ tries' = [tries EXCEPT ![c] = IF to = "sleep" THEN @ + 1 ELSE @]
  /\ UNCHANGED pool

\* PublishMessageToRabbit calls doRetry, once per attempt, when the channel cannot
\* be created, which a closed connection guarantees; a failing publish is logged.
PublishRabbit(c) ==
  /\ kind = "rabbit"
  /\ Leave(c, "sleep") \/ (conn[c] \in open /\ Leave(c, "done"))

\* PublishMessageToRedis and publishMessageToKafkaTopic retry a failure of the
\* broker, and not one of the encoding.
PublishRedis(c) == kind = "redis" /\ (Leave(c, "sleep") \/ Leave(c, "done"))
PublishKafka(c) == kind = "kafka" /\ (Leave(c, "sleep") \/ Leave(c, "done"))

\* The goroutine of ConsumeFromRedisChannel starts over when the subscription
\* fails, and when it ends after having worked; the count is never reset.
ConsumeRedis(c) == kind = "redis" /\ Leave(c, "sleep")

\* The store functions on MongoDB (module Backend); pool-2.go has no caller.
Query(c) == kind \in {"mongo", "pool2"} /\ Leave(c, "done")

-----------------------------------------------------------------------------
Next ==
  \/ NewMongoPool \/ \E k \in Kinds : NewPool(k)
  \/ \E c \in Callers :
       \/ Start(c) \/ Pick(c) \/ Check(c) \/ Take(c) \/ Redial(c)
       \/ PublishRabbit(c) \/ PublishRedis(c) \/ PublishKafka(c)
       \/ ConsumeRedis(c) \/ Query(c)
  \/ \E i \in Slots : Notified(i)
  \/ \E k \in 1..MaxConns : Close(k)

Spec == Init /\ [][Next]_vars

-----------------------------------------------------------------------------
\* However its callers interleave, the RabbitMQ pool never loses a connection
\* that works: every open connection is in a slot, because the second look under
\* the write lock (rabbitmq/pool.go:127) finds the one that another caller stored.
RabbitConnsKept ==
  kind = "rabbit" => \A k \in open : \E i \in Slots : slot[i] = k
=============================================================================
