------------------------------- MODULE Bindings -----------------------------
(***************************************************************************)
(* The queues of devices and their bindings in RabbitMQ, as the REST       *)
(* handlers keep them when they have broker pools (main gives them none:   *)
(* Backend): the goroutine that createNewChatConversation starts after its *)
(* commit, removeUserFromChat after its transaction, and the goroutine of  *)
(* createUserHandler.  The queue of a device gets the messages of a        *)
(* conversation by a binding with the key of the conversation, and those   *)
(* of its user by one with the key of the user.                            *)
(*                                                                         *)
(* There is one conversation, with one creation, and one removal of one of *)
(* its users.  The creation uses one channel for all its tasks, three at a *)
(* time.  It declares a queue and waits for the answer, but it binds with  *)
(* no-wait: the frame is sent, nothing is returned, and the broker binds   *)
(* later or refuses, which closes the channel.  The client learns of a     *)
(* channel that was closed some time after; what it sends meanwhile is     *)
(* lost, and no error is returned.  The removal and the new user wait for  *)
(* every answer.  Any call that waits may fail.                            *)
(*                                                                         *)
(* Both queries for devices return no more than Limit rows, in no given    *)
(* order.  GetConnection never returns while the broker is away (Brokers), *)
(* which is a step that is not taken.  The code behind "if false" is left  *)
(* out, RabbitMQ and Kafka are external.                                   *)
(***************************************************************************)
EXTENDS Naturals, FiniteSets

CONSTANTS
  Users,         \* the users of the conversation
  Devices,       \* the device rows of MongoDB
  OwnerOf,       \* OwnerOf[d]: the UserId of the row
  Leaver,        \* the user that is removed, and that was a new user
  NewDevice,     \* the device it came with as a new user
  Limit          \* rows a query for devices returns at most, 100 in the code

\* What Parts assumes of the constants.
BindingsAssumption ==
  /\ Leaver \in Users /\ OwnerOf \in [Devices -> Users]
  /\ NewDevice \in Devices /\ IsFiniteSet(Devices) /\ Limit \in Nat

VARIABLES
  bad,       \* device rows that do not decode, or lack an id
  bound,     \* <<device, "chat" or "user">>: bindings of the queue of the device
  pending,   \* devices whose binding was sent and is not yet made by the broker
  creator,   \* the goroutine of the creation
  chan,      \* its channel: "none", "open", "closing" (frames are lost), "closed"
  cut,       \* the broker has closed it, or its connection has gone
  task,      \* user -> the task of the creation: "none", "user", "rows", "bind", "done"
  found,     \* user -> devices the query of the task has returned
  rows,      \* user -> those it has still to bind
  failed,    \* users whose task met an error
  late,      \* users whose task was not over when the channel began to close
  sent,      \* the users were told of the conversation
  remover,   \* the handler of the removal
  listed,    \* devices its query has returned
  left,      \* those it has still to unbind
  raced,     \* bindings of its user could still be made when it started
  answer,    \* its status
  newUser    \* the goroutine of createUserHandler: "idle" or "done"

channel == <<pending, chan, cut>>
creation == <<creator, task, found, rows, failed, late, sent>>
removal == <<remover, listed, left, raced, answer>>
vars == <<bad, bound, channel, creation, removal, newUser>>

DevicesOf(u) == {d \in Devices : OwnerOf[d] = u}

\* What a query for some devices may return, with SetLimit and no order.
Page(ds) == {s \in SUBSET ds : IF Cardinality(ds) <= Limit THEN s = ds
                                                          ELSE Cardinality(s) = Limit}

TypeOK ==
  /\ bad \subseteq Devices
  /\ bound \subseteq Devices \X {"chat", "user"}
  /\ pending \subseteq Devices
  /\ creator \in {"idle", "connect", "tasks", "close", "closing", "done"}
  /\ chan \in {"none", "open", "closing", "closed"}
  /\ cut \in BOOLEAN
  /\ task \in [Users -> {"none", "user", "rows", "bind", "done"}]
  /\ found \in [Users -> SUBSET Devices]
  /\ rows \in [Users -> SUBSET Devices]
  /\ failed \subseteq Users
  /\ late \subseteq Users
  /\ sent \in BOOLEAN
  /\ remover \in {"idle", "connect", "given", "find", "rows", "done"}
  /\ listed \subseteq Devices
  /\ left \subseteq Devices
  /\ raced \in BOOLEAN
  /\ answer \in {0, 200, 500}
  /\ newUser \in {"idle", "done"}

Init ==
  /\ bad \in SUBSET Devices
  /\ bound = {}
  /\ pending = {}
  /\ creator = "idle"
  /\ chan = "none"
  /\ cut = FALSE
  /\ task = [u \in Users |-> "none"]
  /\ found = [u \in Users |-> {}]
  /\ rows = [u \in Users |-> {}]
  /\ failed = {}
  /\ late = {}
  /\ sent = FALSE
  /\ remover = "idle"
  /\ listed = {}
  /\ left = {}
  /\ raced = FALSE
  /\ answer = 0
  /\ newUser = "idle"

-----------------------------------------------------------------------------
(* The creation of the conversation.                                       *)

\* The transaction has committed and 200 is the answer; the goroutine starts.
Create ==
  /\ creator = "idle"
  /\ creator' = "connect"
  /\ UNCHANGED <<bad, bound, channel, task, found, rows, failed, late, sent, removal,
                 newUser>>

\* A connection from the pool, and a channel or an error.
Connect ==
  /\ creator = "connect"
  /\ \/ creator' = "tasks" /\ chan' = "open"
     \/ creator' = "done" /\ UNCHANGED chan
  /\ UNCHANGED <<bad, bound, pending, cut, task, found, rows, failed, late, sent, removal,
                 newUser>>

\* iter.SeqFromList(3, ids) gives out the next user while fewer than three tasks
\* are under way.
NextTask(u) ==
  /\ creator = "tasks" /\ task[u] = "none"
  /\ Cardinality({v \in Users : task[v] \in {"user", "rows", "bind"}}) < 3
  /\ task' = [task EXCEPT ![u] = "user"]
  /\ UNCHANGED <<bad, bound, channel, creator, found, rows, failed, late, sent, removal,
                 newUser>>

\* A step of the task of u that leaves the channel and the broker alone.
TaskStep(u, from, to) ==
  /\ task[u] = from
  /\ task' = [task EXCEPT ![u] = to]
  /\ UNCHANGED <<bad, bound, channel, creator, late, sent, removal, newUser>>

\* FindOne of the user and FindManyCursor of the devices.
FindDevices(u) ==
  /\ TaskStep(u, "user", "rows")
  /\ \E s \in Page(DevicesOf(u)) : /\ found' = [found EXCEPT ![u] = s]
                                  /\ rows' = [rows EXCEPT ![u] = s]
  /\ UNCHANGED failed

\* An error of either ends the task.
FindFails(u) ==
  /\ TaskStep(u, "user", "done")
  /\ failed' = failed \cup {u}
  /\ UNCHANGED <<found, rows>>

\* Fault: a row that does not decode ends the task.
SkipRowAndTask(u) ==
  /\ TaskStep(u, "rows", "rows")
  /\ \E d \in rows[u] \cap bad : rows' = [rows EXCEPT ![u] = {}]
  /\ UNCHANGED <<found, failed>>

SkipRow(u) ==
  /\ TaskStep(u, "rows", "rows")
  /\ \E d \in rows[u] \cap bad : rows' = [rows EXCEPT ![u] = @ \ {d}]
  /\ UNCHANGED <<found, failed>>

\* QueueDeclare for the next row, and the answer of the broker.
DeclareRow(u) ==
  /\ chan = "open" /\ rows[u] \ bad # {}
  /\ TaskStep(u, "rows", "bind")
  /\ UNCHANGED <<found, rows, failed>>

\* QueueDeclare fails, as it does once the channel is closed; the next row follows.
DeclareFails(u) ==
  /\ TaskStep(u, "rows", "rows")
  /\ \E d \in rows[u] \ bad : rows' = [rows EXCEPT ![u] = @ \ {d}]
  /\ failed' = failed \cup {u}
  /\ UNCHANGED found

\* QueueBind with no-wait.  The frame goes to the broker; or it is lost, the channel
\* being closed at the other end; or an error is returned and logged.
BindRow(u) ==
  /\ task[u] = "bind"
  /\ task' = [task EXCEPT ![u] = "rows"]
  /\ \E d \in rows[u] \ bad :
       /\ rows' = [rows EXCEPT ![u] = @ \ {d}]
       /\ \/ chan = "open" /\ pending' = pending \cup {d} /\ UNCHANGED failed
          \/ chan = "closing" /\ UNCHANGED <<pending, failed>>
          \/ failed' = failed \cup {u} /\ UNCHANGED pending
  /\ UNCHANGED <<bad, bound, chan, cut, creator, found, late, sent, removal, newUser>>

\* The end of the rows, or an error of the cursor, which is logged.
RowsOver(u) ==
  /\ TaskStep(u, "rows", "done")
  /\ failed' = IF rows[u] = {} THEN failed ELSE failed \cup {u}
  /\ rows' = [rows EXCEPT ![u] = {}]
  /\ UNCHANGED found

\* The loop over the users may end before the last tasks do; the users are told
\* (Outbox), and the channel is closed.
Tell ==
  /\ creator = "tasks" /\ \A u \in Users : task[u] # "none"
  /\ sent' = TRUE
  /\ creator' = "close"
  /\ UNCHANGED <<bad, bound, channel, task, found, rows, failed, late, removal, newUser>>

\* ch.Close sends its frame and waits.  A task that is not over may send another one
\* before the answer is there.
CloseChannel ==
  /\ creator = "close"
  /\ creator' = "closing"
  /\ chan' = IF chan = "open" THEN "closing" ELSE chan
  /\ late' = {u \in Users : task[u] # "done"}
  /\ UNCHANGED <<bad, bound, pending, cut, task, found, rows, failed, sent, removal,
                 newUser>>

\* The broker answers after the frames that came before, or the close has failed.
ChannelClosed ==
  /\ creator = "closing" /\ pending = {}
  /\ chan' = "closed"
  /\ creator' = "done"
  /\ UNCHANGED <<bad, bound, pending, cut, task, found, rows, failed, late, sent, removal,
                 newUser>>

-----------------------------------------------------------------------------
(* The channel of the creation, at the broker.                             *)

BrokerBinds(d) ==
  /\ d \in pending
  /\ pending' = pending \ {d}
  /\ bound' = bound \cup {<<d, "chat">>}
  /\ UNCHANGED <<bad, chan, cut, creation, removal, newUser>>

\* The broker refuses a binding, which closes the channel, or the connection is
\* lost: the frames on their way are not looked at.
BrokerCloses ==
  /\ chan \in {"open", "closing"} /\ ~cut
  /\ cut' = TRUE
  /\ pending' = {}
  /\ chan' = "closing"
  /\ UNCHANGED <<bad, bound, creation, removal, newUser>>

ClientLearns ==
  /\ chan = "closing" /\ cut
  /\ chan' = "closed"
  /\ UNCHANGED <<bad, bound, pending, cut, creation, removal, newUser>>

-----------------------------------------------------------------------------
(* The removal of Leaver.                                                  *)

Answer(code) == answer' = code /\ remover' = "done"

\* The task of the user may still send a binding, or has one on its way.
MayStillBind(u) ==
  \/ task[u] # "done" /\ creator # "done"
  \/ pending \cap DevicesOf(u) # {}

\* Its transaction has committed.
Remove ==
  /\ remover = "idle" /\ creator # "idle"
  /\ remover' = "connect"
  /\ raced' = MayStillBind(Leaver)
  /\ UNCHANGED <<bad, bound, channel, creation, listed, left, answer, newUser>>

RemoverConnects ==
  /\ remover = "connect"
  /\ \/ remover' = "given" /\ UNCHANGED answer
     \/ Answer(500)
  /\ UNCHANGED <<bad, bound, channel, creation, listed, left, raced, newUser>>

Unbind(d) == bound' = bound \ {<<d, "chat">>}

\* The device that the request names; the broker does not mind a queue or a
\* binding that is not there.
UnbindGiven ==
  /\ remover = "given"
  /\ \/ /\ (\E d \in DevicesOf(Leaver) : Unbind(d)) \/ UNCHANGED bound
        /\ remover' = "find" /\ UNCHANGED answer
     \/ Answer(500) /\ UNCHANGED bound
  /\ UNCHANGED <<bad, channel, creation, listed, left, raced, newUser>>

FindLeft ==
  /\ remover = "find"
  /\ \/ /\ remover' = "rows"
        /\ \E s \in Page(DevicesOf(Leaver)) : listed' = s /\ left' = s
        /\ UNCHANGED answer
     \/ Answer(500) /\ UNCHANGED <<listed, left>>
  /\ UNCHANGED <<bad, bound, channel, creation, raced, newUser>>

\* Fault: it stops at the first row it has unbound.
UnbindRowOnce ==
  /\ remover = "rows"
  /\ \E d \in left :
       \/ d \notin bad /\ Unbind(d) /\ left' = {} /\ UNCHANGED <<remover, answer>>
       \/ d \in bad /\ left' = left \ {d} /\ UNCHANGED <<bound, remover, answer>>
       \/ d \notin bad /\ Answer(500) /\ UNCHANGED <<bound, left>>
  /\ UNCHANGED <<bad, channel, creation, listed, raced, newUser>>

\* The next row: one that does not decode is skipped, an error ends the handler.
UnbindRow ==
  /\ remover = "rows"
  /\ \E d \in left :
       \/ d \notin bad /\ Unbind(d) /\ left' = left \ {d} /\ UNCHANGED <<remover, answer>>
       \/ d \in bad /\ left' = left \ {d} /\ UNCHANGED <<bound, remover, answer>>
       \/ d \notin bad /\ Answer(500) /\ UNCHANGED <<bound, left>>
  /\ UNCHANGED <<bad, channel, creation, listed, raced, newUser>>

\* The end of the rows, or an error of the cursor, which nobody looks at: the rows
\* that are left keep their bindings.
Removed ==
  /\ remover = "rows"
  /\ Answer(200)
  /\ UNCHANGED <<bad, bound, channel, creation, listed, left, raced, newUser>>

-----------------------------------------------------------------------------
\* The goroutine of createUserHandler that makes the queues of the new user and his
\* device: a channel of its own, QueueDeclare and QueueBind with the key of the user,
\* which wait for the broker; an error ends it or is logged.  (The goroutine that makes
\* his topic in Kafka logs its errors.)
BindOwnQueue ==
  /\ newUser = "idle"
  /\ newUser' = "done"
  /\ bound' \in {bound, bound \cup {<<NewDevice, "user">>}}
  /\ UNCHANGED <<bad, channel, creation, removal>>

-----------------------------------------------------------------------------
TaskOf(u) ==
  \/ NextTask(u) \/ FindDevices(u) \/ FindFails(u) \/ SkipRow(u) \/ DeclareRow(u)
  \/ DeclareFails(u) \/ BindRow(u) \/ RowsOver(u)
Next ==
  \/ Create \/ Connect \/ Tell \/ CloseChannel \/ ChannelClosed
  \/ \E u \in Users : TaskOf(u)
  \/ \E d \in Devices : BrokerBinds(d)
  \/ BrokerCloses \/ ClientLearns
  \/ Remove \/ RemoverConnects \/ UnbindGiven \/ FindLeft \/ UnbindRow \/ Removed
  \/ BindOwnQueue

Spec == Init /\ [][Next]_vars

-----------------------------------------------------------------------------
\* The devices of u that a query has to see: all of them, when they fit its limit.
Due(u, seen) == (IF Cardinality(DevicesOf(u)) <= Limit THEN DevicesOf(u) ELSE seen) \ bad

\* What the queues get once the handlers are through.  A task that met no error has
\* sent the binding of every device of its user, and the broker has made it when the
\* channel is closed, though the channel is shared and nobody waits for a binding
\* (conversations/handlers.go:686).  Exceptions: the broker closed the channel, which
\* says nothing to the tasks whose bindings it drops; or the task was not over when
\* the creation closed it (handlers.go:632, "not close the channel too early").
\* A removal that was answered 200 leaves no device of the user bound, with these
\* exceptions: it overtook the task that binds them or a binding on its way, since
\* creation answers 200 before it binds anything (conversations/handlers.go:480), or
\* its cursor failed before it came to the device (chats-map/handlers.go:501).
\* Either way, of a user with more devices than Limit only so many are looked after.
BindingsSettle ==
  /\ \A u \in Users :
       (/\ task[u] = "done" /\ u \notin failed \cup late
        /\ ~cut
        /\ u = Leaver => remover = "idle") =>
       \A d \in Due(u, found[u]) : <<d, "chat">> \in bound
                                  \/ (d \in pending /\ creator # "done")
  /\ answer = 200 /\ ~raced =>
       \A d \in Due(Leaver, listed) \ left : <<d, "chat">> \notin bound
=============================================================================
