-------------------------------- MODULE Frames ------------------------------
(***************************************************************************)
(* The frames that a client sends: handleIncomingWSMessages of             *)
(* src/ws/service.go from ReadMessage to the handler of every item.  The   *)
(* read loop takes the items of a frame in order; it refuses or ignores    *)
(* some itself and starts a goroutine for each of the others, which        *)
(* decodes and checks its item before the work starts.  What happens then  *)
(* is in WSService (messages, conversations), Signaling and Polling.       *)
(*                                                                         *)
(* An item gets a number when it is read; a frame that is blank or no JSON *)
(* counts as one refused item.  A connection shares nothing with another   *)
(* one here.  ReadMessage returns text and binary frames only, so the      *)
(* cases for pings, pongs and close frames are never taken.                *)
(*                                                                         *)
(* An error frame waits for uc.Mtx, which may be held for ever: by         *)
(* SafeClose after a stuck offer (Signaling), or by a write to a peer that *)
(* does not read, for no write has a deadline.                             *)
(***************************************************************************)
EXTENDS Naturals, Sequences

CONSTANT MaxItems     \* bound: items the client ever sends

Items == 1..MaxItems

\* What the read loop tells apart: "refused" stands for an item without a type, with
\* one that is no string, with an unknown one, or with one of the removed types
\* (ConsumeFromRMQ, ConsumeFromRedis, AddLocation, AckMessage,
\* PollForKafkaMessages); "placeholder" for AddUserToChat, RemoveUserFromChat and
\* ChatIsOver.
Started == {"signal", "pollConvs", "pollAll", "message", "conv", "user"}
Kinds == Started \cup {"refused", "placeholder"}

VARIABLES
  reader,     \* the read loop: "reading", "items", "left"; "closed" after SafeClose
  pinned,     \* uc.Mtx is held for ever
  list,       \* the items of the frame still to be taken
  count,      \* items taken so far
  task,       \* item -> its goroutine: "none", its kind, "fetch", "refuse", "done"
  refused,    \* items answered with an error frame (a failed write is ignored)
  accepted    \* items whose work was started, or that ask for none

vars == <<reader, pinned, list, count, task, refused, accepted>>

TypeOK ==
  /\ reader \in {"reading", "items", "left", "closed"}
  /\ pinned \in BOOLEAN
  /\ list \in Seq(Kinds)
  /\ count \in 0..MaxItems
  /\ task \in [Items -> Started \cup {"none", "fetch", "refuse", "done"}]
  /\ refused \subseteq Items
  /\ accepted \subseteq Items

Init ==
  /\ reader = "reading"
  /\ pinned = FALSE
  /\ list = <<>>
  /\ count = 0
  /\ task = [i \in Items |-> "none"]
  /\ refused = {}
  /\ accepted = {}

-----------------------------------------------------------------------------
\* The loop ends when it finds the connection closed, before or after ReadMessage,
\* or ReadMessage returns an error; the deferred function of its goroutine closes the
\* connection.  Nobody else does.
StopReading ==
  /\ reader = "reading"
  /\ reader' = "left"
  /\ UNCHANGED <<pinned, list, count, task, refused, accepted>>

SafeClose ==
  /\ reader = "left" /\ ~pinned
  /\ reader' = "closed"
  /\ UNCHANGED <<pinned, list, count, task, refused, accepted>>

\* uc.Mtx is not given back.
Pin ==
  /\ reader # "closed" /\ ~pinned
  /\ pinned' = TRUE
  /\ UNCHANGED <<reader, list, count, task, refused, accepted>>

\* A frame with items; an empty list is ignored.
ReadFrame ==
  /\ reader = "reading"
  /\ \E n \in 1..MaxItems - count : \E items \in [1..n -> Kinds] : list' = items
  /\ reader' = "items"
  /\ UNCHANGED <<pinned, count, task, refused, accepted>>

\* A frame of white space, or no JSON.
RefuseFrame ==
  /\ reader = "reading" /\ ~pinned /\ count < MaxItems
  /\ count' = count + 1
  /\ refused' = refused \cup {count'}
  /\ UNCHANGED <<reader, pinned, list, task, accepted>>

\* The loop takes the next item; it does not look at the connection.
Take(kind) ==
  /\ reader = "items" /\ Head(list) = kind
  /\ list' = Tail(list)
  /\ reader' = IF list' = <<>> THEN "reading" ELSE "items"
  /\ count' = count + 1
  /\ UNCHANGED pinned

\* The loop itself writes the error frame.
RefuseItem ==
  /\ Take("refused") /\ ~pinned
  /\ refused' = refused \cup {count'}
  /\ UNCHANGED <<task, accepted>>

IgnoreItem ==
  /\ Take("placeholder")
  /\ accepted' = accepted \cup {count'}
  /\ UNCHANGED <<task, refused>>

StartItem(kind) ==
  /\ Take(kind)
  /\ task' = [task EXCEPT ![count'] = kind]
  /\ UNCHANGED <<refused, accepted>>

-----------------------------------------------------------------------------
Refuse(i) ==
  /\ task' = [task EXCEPT ![i] = "refuse"]
  /\ UNCHANGED <<reader, pinned, list, count, refused, accepted>>

\* WriteJSONSafely, with the error frame.
WriteError(i) ==
  /\ task[i] = "refuse" /\ ~pinned
  /\ task' = [task EXCEPT ![i] = "done"]
  /\ refused' = refused \cup {i}
  /\ UNCHANGED <<reader, pinned, list, count, accepted>>

Accept(i) ==
  /\ task' = [task EXCEPT ![i] = "done"]
  /\ accepted' = accepted \cup {i}
  /\ UNCHANGED <<reader, pinned, list, count, refused>>

\* handleWebRTCMessage begins; its errors are in Signaling.
Signal(i) == task[i] = "signal" /\ Accept(i)

\* A second goroutine fetches.
StartFetch(i) ==
  /\ task' = [task EXCEPT ![i] = "fetch"]
  /\ UNCHANGED <<reader, pinned, list, count, refused, accepted>>

\* Fault: the loop over the ids is left with continue, not with return.
PollConvsSkipsBadIds(i) ==
  /\ task[i] = "pollConvs"
  /\ \/ StartFetch(i)
     \/ /\ ~pinned
        /\ task' = [task EXCEPT ![i] = "fetch"]
        /\ refused' = refused \cup {i}
        /\ UNCHANGED <<reader, pinned, list, count, accepted>>

\* The ids of the conversations: one that is malformed, or zero, refuses them all.
PollConvs(i) == task[i] = "pollConvs" /\ (Refuse(i) \/ StartFetch(i))

\* getAllMessagesForParticularChats, in its goroutine: an empty list of ids is refused.
Fetch(i) == task[i] = "fetch" /\ (Refuse(i) \/ Accept(i))

\* getMongoMessagesForAllChatsByUser.
PollAll(i) == task[i] = "pollAll" /\ Accept(i)

\* A message must decode, have an id, a conversation and an author, and its author
\* must be the user of the connection; then it is stored and relayed.
Message(i) == task[i] = "message" /\ (Refuse(i) \/ Accept(i))

\* A conversation must decode; then it is stored and its participants notified.
Conv(i) == task[i] = "conv" /\ (Refuse(i) \/ Accept(i))

\* A user must decode; nothing is done with it.
User(i) == task[i] = "user" /\ (Refuse(i) \/ Accept(i))

-----------------------------------------------------------------------------
Loop ==
  \/ RefuseItem \/ IgnoreItem
  \/ \E kind \in Started : StartItem(kind)
Task(i) ==
  \/ Signal(i) \/ PollConvs(i) \/ Fetch(i) \/ PollAll(i) \/ Message(i) \/ Conv(i) \/ User(i)
  \/ WriteError(i)
Next ==
  \/ StopReading \/ SafeClose \/ Pin \/ ReadFrame \/ RefuseFrame \/ Loop
  \/ \E i \in Items : Task(i)

Spec == Init /\ [][Next]_vars

-----------------------------------------------------------------------------
\* An item that was taken and is not under way is answered, no item is answered twice,
\* and none before it is taken (service.go:704-1261).
AnsweredOnce ==
  \A i \in Items :
    /\ ~(i \in refused /\ i \in accepted)
    /\ i <= count /\ task[i] \in {"none", "done"} => i \in refused \cup accepted
    /\ i > count => task[i] = "none" /\ i \notin refused \cup accepted

Answered(i) == i \in refused \cup accepted /\ ~(i \in refused /\ i \in accepted)

\* The error frame of item i, or of the item the loop is at before it comes to i, waits
\* for a mutex that is never given back.
Waits(i) ==
  /\ pinned
  /\ task[i] = "refuse" \/ (reader = "items" /\ i > count /\ Head(list) = "refused")

\* Every item of a frame that was read is answered for, once and for good: it ends
\* refused with an error frame or accepted and never both, also when the connection
\* closes while the loop is in the middle of the frame (service.go:704-1261).  Only a
\* mutex that is never given back is in the way, and then of those items alone that are
\* refused, or come after one that is, in a frame the loop takes: the work on the
\* others begins all the same.
ItemsAnswered ==
  \A i \in Items :
    (count + Len(list) >= i) ~>
      [](Waits(i) \/ (task[i] \in {"none", "done"} /\ Answered(i)))
=============================================================================
