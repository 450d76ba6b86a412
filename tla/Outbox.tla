-------------------------------- MODULE Outbox ------------------------------
(***************************************************************************)
(* How a REST handler sends a message out: SendMessageOutToMultipleTopics  *)
(* and SendMessageOut of src/rest/io/push.go.  Each starts a goroutine per *)
(* broker and returns.  The publishers, with their pools and retries, are  *)
(* in Brokers: here a publish ends, with or without an error, or panics    *)
(* because the broker has no pool (main gives its services none).  One to  *)
(* RabbitMQ dials again every three seconds for as long as it is away; one *)
(* to Redis or Kafka ends, their clients having timeouts of their own.  A  *)
(* deferred HandlePanic does not recover, since recover works only in the  *)
(* deferred function itself; a deferred recover() does.  The message is    *)
(* one that can be marshalled; one that cannot is logged, at every topic.  *)
(***************************************************************************)
EXTENDS FiniteSets

CONSTANT Topics

Brokers == {"rabbit", "redis", "kafka"}

VARIABLES
  up,         \* the process runs
  pools,      \* brokers that have a pool
  down,       \* RabbitMQ cannot be reached
  call,       \* "none", "many" (SendMessageOutToMultipleTopics), "one"
  wanted,     \* the topics of the call
  worker,     \* broker -> its goroutine: "none", "loop", "done"
  todo,       \* broker -> topics its goroutine has still to take
  flying,     \* <<broker, topic>> with a goroutine of its own that publishes
  tried       \* broker -> topics that were published, well or not

vars == <<up, pools, down, call, wanted, worker, todo, flying, tried>>

TypeOK ==
  /\ up \in BOOLEAN
  /\ pools \subseteq Brokers
  /\ down \in BOOLEAN
  /\ call \in {"none", "many", "one"}
  /\ wanted \subseteq Topics
  /\ worker \in [Brokers -> {"none", "loop", "done"}]
  /\ todo \in [Brokers -> SUBSET Topics]
  /\ flying \subseteq Brokers \X Topics
  /\ tried \in [Brokers -> SUBSET Topics]

Init ==
  /\ up = TRUE
  /\ pools \in SUBSET Brokers
  /\ down \in BOOLEAN
  /\ call = "none"
  /\ wanted = {}
  /\ worker = [b \in Brokers |-> "none"]
  /\ todo = [b \in Brokers |-> {}]
  /\ flying = {}
  /\ tried = [b \in Brokers |-> {}]

-----------------------------------------------------------------------------
Start(c, topics) ==
  /\ up /\ call = "none"
  /\ call' = c
  /\ wanted' = topics
  /\ worker' = [b \in Brokers |-> "loop"]
  /\ todo' = [b \in Brokers |-> topics]
  /\ UNCHANGED <<up, pools, down, flying, tried>>

\* The topics of a call are those of the users of a conversation.
SendMessageOutToMultipleTopics == \E topics \in SUBSET Topics : Start("many", topics)
SendMessageOut == \E t \in Topics : Start("one", {t})

\* The goroutine of b publishes to topic t; an error is logged.
Publish(b, t) ==
  /\ b \in pools
  /\ todo' = [todo EXCEPT ![b] = @ \ {t}]
  /\ tried' = [tried EXCEPT ![b] = @ \cup {t}]
  /\ UNCHANGED <<up, pools, down, call, wanted, worker, flying>>

Panic(b) ==
  /\ b \notin pools
  /\ up' = FALSE
  /\ UNCHANGED <<pools, down, call, wanted, worker, todo, flying, tried>>

Looping(b) == up /\ worker[b] = "loop"

\* A topic gets a goroutine of its own, which no deferred function covers.
Spawn(b) ==
  /\ Looping(b)
  /\ \E t \in todo[b] :
       /\ todo' = [todo EXCEPT ![b] = @ \ {t}]
       /\ flying' = flying \cup {<<b, t>>}
  /\ UNCHANGED <<up, pools, down, call, wanted, worker, tried>>

Land(b, t) ==
  /\ up /\ <<b, t>> \in flying
  /\ \/ /\ b \in pools /\ (b = "rabbit" => ~down)
        /\ flying' = flying \ {<<b, t>>}
        /\ tried' = [tried EXCEPT ![b] = @ \cup {t}]
        /\ UNCHANGED <<up, pools, down, call, wanted, worker, todo>>
     \/ Panic(b)

\* PublishMessageToRabbit returns; its goroutine asks for the connection, and gets it
\* when RabbitMQ can be reached.
RabbitLoop == Spawn("rabbit")
RabbitTopic(t) == Land("rabbit", t)

\* Fault: an error of one topic ends the loop.
RedisLoopGivesUp ==
  /\ Looping("redis") /\ call = "many"
  /\ \E t \in todo["redis"] :
       \/ Publish("redis", t) \/ Panic("redis")
       \/ /\ "redis" \in pools
          /\ todo' = [todo EXCEPT !["redis"] = {}]
          /\ UNCHANGED <<up, pools, down, call, wanted, worker, flying, tried>>

RedisLoop ==
  /\ Looping("redis") /\ call = "many"
  /\ \E t \in todo["redis"] : Publish("redis", t) \/ Panic("redis")

\* The goroutine of SendMessageOut for Redis is the one that recovers by itself.
RedisOnce ==
  /\ Looping("redis") /\ call = "one"
  /\ \E t \in todo["redis"] :
       \/ Publish("redis", t)
       \/ /\ "redis" \notin pools
          /\ todo' = [todo EXCEPT !["redis"] = {}]
          /\ UNCHANGED <<up, pools, down, call, wanted, worker, flying, tried>>

KafkaLoop == call = "many" /\ Spawn("kafka")
KafkaTopic(t) == Land("kafka", t)

KafkaOnce ==
  /\ Looping("kafka") /\ call = "one"
  /\ \E t \in todo["kafka"] : Publish("kafka", t) \/ Panic("kafka")

LoopOver(b) ==
  /\ Looping(b) /\ todo[b] = {}
  /\ worker' = [worker EXCEPT ![b] = "done"]
  /\ UNCHANGED <<up, pools, down, call, wanted, todo, flying, tried>>

\* RabbitMQ goes away, or comes back.
Outage == down' = ~down /\ UNCHANGED <<up, pools, call, wanted, worker, todo, flying, tried>>

-----------------------------------------------------------------------------
Rabbit == RabbitLoop \/ LoopOver("rabbit")
Redis == RedisLoop \/ RedisOnce \/ LoopOver("redis")
Kafka == KafkaLoop \/ KafkaOnce \/ LoopOver("kafka")
Next ==
  \/ SendMessageOutToMultipleTopics \/ SendMessageOut \/ Rabbit \/ Redis \/ Kafka
  \/ \E t \in Topics : RabbitTopic(t) \/ KafkaTopic(t)
  \/ Outage

Spec == Init /\ [][Next]_vars

-----------------------------------------------------------------------------
\* No topic is left out or published twice: on a broker that has a pool, each topic of the
\* call is still to be taken, or in a goroutine of its own, or published, and never
\* two of these.  On a broker without a pool nothing is published (push.go).
TopicsOnce ==
  \A b \in Brokers :
    LET flown == {t \in Topics : <<b, t>> \in flying} IN
    /\ b \in pools /\ call # "none" => wanted = todo[b] \cup flown \cup tried[b]
    /\ todo[b] \cap flown = {} /\ todo[b] \cap tried[b] = {} /\ flown \cap tried[b] = {}
    /\ worker[b] = "done" => todo[b] = {}
    /\ b \notin pools => tried[b] = {}

\* A call reaches every topic on every broker, an error at one notwithstanding.  Redis
\* and Kafka do not wait for RabbitMQ, which is reached if it stays within reach some
\* day; for as long as it does not, the goroutines of its topics stay.  A call ends
\* the process instead if a pool is missing that it needs, and the one pool it can do
\* without is that of Redis, in SendMessageOut (push.go:246-252).
NeedsPool == IF call = "one" THEN {"rabbit", "kafka"} ELSE IF wanted = {} THEN {} ELSE Brokers
Reached(b) ==
  /\ worker[b] = "done" /\ \A t \in Topics : <<b, t>> \notin flying
  /\ tried[b] = (IF b \in pools THEN wanted ELSE {})
ReachedOrDead(brokers) ==
  IF NeedsPool \subseteq pools THEN \A b \in brokers : Reached(b) ELSE ~up
TopicsReached ==
  /\ (call # "none") ~> ReachedOrDead({"redis", "kafka"})
  /\ <>[]~down => ((call # "none") ~> ReachedOrDead(Brokers))
=============================================================================
