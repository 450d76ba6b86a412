--------------------------- MODULE Bindings_proofs --------------------------
(***************************************************************************)
(* For any number of users and devices, any limit of the queries, and any  *)
(* rows that do not decode: what the queues get once a creation and a      *)
(* removal are through.                                                    *)
(*                                                                         *)
(* BindingsSettle speaks of tasks and removals that are over.  What makes  *)
(* it inductive is what they have done while they are under way (Bound and *)
(* Unbound), what the life of the channel says of the bindings on their    *)
(* way and of the tasks it was closed too early for (Closing), and that a  *)
(* removal which overtook nothing never meets a binding of its user again  *)
(* (NotRaced).                                                             *)
(***************************************************************************)
EXTENDS Bindings, TLAPS

\* A task works on devices of its user, a removal on those of Leaver, and each has
\* what its query returned.
Owned ==
  /\ \A u \in Users :
       /\ rows[u] \subseteq DevicesOf(u)
       /\ task[u] \notin {"rows", "bind"} => rows[u] = {}
       /\ task[u] \in {"rows", "bind", "done"} /\ u \notin failed =>
            found[u] \in Page(DevicesOf(u))
  /\ left \subseteq DevicesOf(Leaver)
  /\ remover = "rows" \/ answer = 200 => listed \in Page(DevicesOf(Leaver))
  /\ answer # 0 => remover = "done"

\* A channel that is not there, or is closed, has nothing on its way; one that is
\* closing without the broker's doing is closed by the creation, which knows the
\* tasks that are not over.
Closing ==
  /\ creator \in {"idle", "connect"} => chan = "none"
  /\ creator = "done" => chan \in {"none", "closed"}
  /\ chan \in {"none", "closed"} => pending = {}
  /\ cut => pending = {} /\ chan \in {"closing", "closed"}
  /\ chan = "closing" /\ ~cut => creator = "closing"
  /\ creator = "closing" => \A u \in Users \ late : task[u] = "done"
  /\ creator \notin {"closing", "done"} => late = {}

\* The removal came when nothing of its user could be bound any more.
NotRaced == remover # "idle" /\ ~raced => ~MayStillBind(Leaver)

\* A task with none of the exceptions has sent the bindings of the devices it has
\* passed, and nobody but the removal unbinds them.
OnItsWay(d) == <<d, "chat">> \in bound \/ d \in pending
Unharmed(u) == u \notin failed \cup late /\ (u = Leaver => remover = "idle")
Bound ==
  ~cut => \A u \in Users :
    task[u] \in {"rows", "bind", "done"} /\ Unharmed(u) =>
      \A d \in found[u] \ (bad \cup rows[u]) : OnItsWay(d)

\* A removal has unbound the devices it has passed.
Unbound ==
  (remover = "rows" \/ answer = 200) /\ ~raced =>
    \A d \in listed \ (bad \cup left) : <<d, "chat">> \notin bound

IInv == TypeOK /\ Owned /\ Closing /\ NotRaced /\ Bound /\ Unbound

-----------------------------------------------------------------------------
LEMMA InitIInv ==
  ASSUME BindingsAssumption
  PROVE  Init => IInv
<1> SUFFICES ASSUME Init
             PROVE  IInv
  OBVIOUS
<1>1. TypeOK
  BY DEF Init, TypeOK
<1>2. Owned
  BY DEF BindingsAssumption, Init, Owned
<1>3. Closing /\ NotRaced /\ Bound /\ Unbound
  BY DEF Init, Closing, NotRaced, Bound, Unbound
<1> QED
  BY <1>1, <1>2, <1>3 DEF IInv

\* A query returns some of the rows, and all of them when they fit its limit.
LEMMA PageFacts ==
  ASSUME NEW ds, NEW s \in Page(ds)
  PROVE  s \subseteq ds /\ (Cardinality(ds) <= Limit => s = ds)
  BY DEF Page

\* A device has one owner, so a removal touches the devices of nobody else.
LEMMA OneOwner ==
  ASSUME NEW u \in Users, NEW v \in Users, NEW d, d \in DevicesOf(u), d \in DevicesOf(v)
  PROVE  u = v
  BY DEF DevicesOf

\* A step that binds and unbinds nothing keeps Bound, when no task comes to have
\* passed a good device that it had still to bind, ...
LEMMA BoundKept ==
  ASSUME Bound, UNCHANGED <<bad, bound, pending>>, cut => cut',
         remover' = "idle" => remover = "idle", failed \subseteq failed', late \subseteq late',
         \A u \in Users : task'[u] \in {"rows", "bind", "done"} /\ u \notin failed' =>
           \/ found'[u] \subseteq rows'[u]
           \/ /\ task[u] \in {"rows", "bind", "done"} /\ found'[u] = found[u]
              /\ rows[u] \ bad \subseteq rows'[u]
  PROVE  Bound'
<1> SUFFICES ASSUME ~cut', NEW u \in Users, task'[u] \in {"rows", "bind", "done"},
                    u \notin failed' \cup late', u = Leaver => remover' = "idle",
                    NEW d \in found'[u], d \notin bad, d \notin rows'[u]
             PROVE  OnItsWay(d)
  BY DEF Bound, OnItsWay, Unharmed
<1>1. task[u] \in {"rows", "bind", "done"} /\ d \in found[u] /\ d \notin rows[u]
  OBVIOUS
<1> QED
  BY <1>1 DEF Bound, Unharmed

\* ... and Unbound, when the removal does not come to its rows.
LEMMA UnboundKept ==
  ASSUME Unbound, UNCHANGED <<bad, bound, listed, left, raced>>,
         remover' = "rows" \/ answer' = 200 => remover = "rows" \/ answer = 200
  PROVE  Unbound'
  BY DEF Unbound

-----------------------------------------------------------------------------
\* The goroutine of the creation, up to its tasks and after them.
LEMMA CreatorIInv ==
  ASSUME BindingsAssumption, IInv, Create \/ Connect \/ Tell \/ CloseChannel \/ ChannelClosed
  PROVE  IInv'
<1>1. TypeOK /\ Owned /\ Closing /\ NotRaced /\ Bound /\ Unbound
  BY DEF IInv
<1>2. /\ UNCHANGED <<bad, bound, pending, cut, task, found, rows, failed, removal, newUser>>
      /\ creator # "done"
  BY DEF Create, Connect, Tell, CloseChannel, ChannelClosed, channel
<1>3. UNCHANGED <<remover, listed, left, raced, answer>>
  BY <1>2 DEF removal
<1>4. /\ TypeOK' /\ Closing' /\ late \subseteq late'
  <2>1. CASE Create
    BY <1>1, <1>2, <1>3, <2>1 DEF Create, channel, TypeOK, Closing
  <2>2. CASE Connect
    BY <1>1, <1>2, <1>3, <2>2 DEF Connect, TypeOK, Closing
  <2>3. CASE Tell
    BY <1>1, <1>2, <1>3, <2>3 DEF Tell, channel, TypeOK, Closing
  <2>4. CASE CloseChannel
    BY <1>1, <1>2, <1>3, <2>4 DEF CloseChannel, TypeOK, Closing
  <2>5. CASE ChannelClosed
    BY <1>1, <1>2, <1>3, <2>5 DEF ChannelClosed, TypeOK, Closing
  <2> QED
    BY <2>1, <2>2, <2>3, <2>4, <2>5
<1>5. Owned'
  BY <1>1, <1>2, <1>3 DEF Owned, DevicesOf, Page
<1>6. NotRaced'
  BY <1>1, <1>2, <1>3 DEF NotRaced, MayStillBind, DevicesOf
<1>7. Bound' /\ Unbound'
  BY <1>1, <1>2, <1>3, <1>4, BoundKept, UnboundKept
<1> QED
  BY <1>4, <1>5, <1>6, <1>7 DEF IInv

\* The steps of a task that leave the channel and the broker alone.
LEMMA TaskIInv ==
  ASSUME BindingsAssumption, IInv, NEW u \in Users,
         \/ NextTask(u) \/ FindDevices(u) \/ FindFails(u) \/ SkipRow(u) \/ DeclareRow(u)
         \/ DeclareFails(u) \/ RowsOver(u)
  PROVE  IInv'
<1>1. TypeOK /\ Owned /\ Closing /\ NotRaced /\ Bound /\ Unbound
  BY DEF IInv
<1>2. UNCHANGED <<bad, bound, channel, creator, late, sent, removal, newUser>>
  BY DEF NextTask, FindDevices, FindFails, SkipRow, DeclareRow, DeclareFails, RowsOver, TaskStep
<1>3. UNCHANGED <<pending, chan, cut, remover, listed, left, raced, answer>>
  BY <1>2 DEF channel, removal
<1>4. /\ task' \in [Users -> {"none", "user", "rows", "bind", "done"}]
      /\ rows' \in [Users -> SUBSET Devices] /\ found' \in [Users -> SUBSET Devices]
      /\ failed \subseteq failed' /\ failed' \subseteq Users
      /\ \A v \in Users \ {u} : task'[v] = task[v] /\ rows'[v] = rows[v] /\ found'[v] = found[v]
      /\ task[u] # "done"
      /\ creator # "tasks" => task[u] # "none"
      /\ rows'[u] \subseteq DevicesOf(u)
      /\ task'[u] \notin {"rows", "bind"} => rows'[u] = {}
      /\ task'[u] \in {"rows", "bind", "done"} /\ u \notin failed' =>
           /\ found'[u] \in Page(DevicesOf(u))
           /\ \/ found'[u] \subseteq rows'[u]
              \/ /\ task[u] \in {"rows", "bind", "done"} /\ found'[u] = found[u]
                 /\ rows[u] \ bad \subseteq rows'[u]
  <2>1. CASE NextTask(u)
    BY <1>1, <2>1 DEF NextTask, TypeOK, Owned
  <2>2. CASE FindDevices(u)
    <3>1. PICK s \in Page(DevicesOf(u)) : /\ found' = [found EXCEPT ![u] = s]
                                         /\ rows' = [rows EXCEPT ![u] = s]
      BY <2>2 DEF FindDevices
    <3>2. s \subseteq DevicesOf(u) /\ DevicesOf(u) \subseteq Devices
      BY PageFacts DEF DevicesOf
    <3>3. task[u] = "user" /\ task' = [task EXCEPT ![u] = "rows"] /\ UNCHANGED failed
      BY <2>2 DEF FindDevices, TaskStep
    <3> QED
      BY <1>1, <3>1, <3>2, <3>3 DEF TypeOK, Owned
  <2>3. CASE FindFails(u)
    BY <1>1, <2>3 DEF FindFails, TaskStep, TypeOK, Owned
  <2>4. CASE SkipRow(u)
    <3>1. PICK d \in rows[u] \cap bad : rows' = [rows EXCEPT ![u] = @ \ {d}]
      BY <2>4 DEF SkipRow
    <3>2. task[u] = "rows" /\ task' = [task EXCEPT ![u] = "rows"] /\ UNCHANGED <<found, failed>>
      BY <2>4 DEF SkipRow, TaskStep
    <3> QED
      BY <1>1, <3>1, <3>2 DEF TypeOK, Owned
  <2>5. CASE DeclareRow(u)
    BY <1>1, <2>5 DEF DeclareRow, TaskStep, TypeOK, Owned
  <2>6. CASE DeclareFails(u)
    <3>1. PICK d \in rows[u] \ bad : rows' = [rows EXCEPT ![u] = @ \ {d}]
      BY <2>6 DEF DeclareFails
    <3>2. /\ task[u] = "rows" /\ task' = [task EXCEPT ![u] = "rows"]
          /\ failed' = failed \cup {u} /\ UNCHANGED found
      BY <2>6 DEF DeclareFails, TaskStep
    <3> QED
      BY <1>1, <3>1, <3>2 DEF TypeOK, Owned
  <2>7. CASE RowsOver(u)
    <3>1. /\ task[u] = "rows" /\ task' = [task EXCEPT ![u] = "done"]
          /\ failed' = IF rows[u] = {} THEN failed ELSE failed \cup {u}
          /\ rows' = [rows EXCEPT ![u] = {}] /\ UNCHANGED found
      BY <2>7 DEF RowsOver, TaskStep
    <3> QED
      BY <1>1, <3>1 DEF TypeOK, Owned
  <2> QED
    BY <2>1, <2>2, <2>3, <2>4, <2>5, <2>6, <2>7
<1>5. TypeOK'
  BY <1>1, <1>2, <1>3, <1>4 DEF TypeOK
<1>6. Owned'
  <2>1. /\ left' \subseteq DevicesOf(Leaver) /\ (answer' # 0 => remover' = "done")
        /\ remover' = "rows" \/ answer' = 200 => listed' \in Page(DevicesOf(Leaver))
    BY <1>1, <1>3 DEF Owned
  <2>2. ASSUME NEW v \in Users
        PROVE  /\ rows'[v] \subseteq DevicesOf(v)
               /\ task'[v] \notin {"rows", "bind"} => rows'[v] = {}
               /\ task'[v] \in {"rows", "bind", "done"} /\ v \notin failed' =>
                    found'[v] \in Page(DevicesOf(v))
    BY <1>1, <1>4 DEF Owned
  <2> QED
    BY <2>1, <2>2 DEF Owned, DevicesOf, Page
<1>7. Closing'
  BY <1>1, <1>2, <1>3, <1>4 DEF Closing
<1>8. NotRaced'
  BY <1>1, <1>2, <1>3, <1>4 DEF BindingsAssumption, NotRaced, MayStillBind, DevicesOf
<1>9. Bound' /\ Unbound'
  <2>1. \A v \in Users : task'[v] \in {"rows", "bind", "done"} /\ v \notin failed' =>
           \/ found'[v] \subseteq rows'[v]
           \/ /\ task[v] \in {"rows", "bind", "done"} /\ found'[v] = found[v]
              /\ rows[v] \ bad \subseteq rows'[v]
    BY <1>4
  <2> QED
    BY <1>1, <1>2, <1>3, <1>4, <2>1, BoundKept, UnboundKept
<1> QED
  BY <1>5, <1>6, <1>7, <1>8, <1>9 DEF IInv

\* A task that binds a device of Leaver has not been overtaken: its channel is open
\* and it is not over.  A frame that is lost was sent too late, or the broker has cut
\* the channel.
LEMMA BindIInv ==
  ASSUME BindingsAssumption, IInv, NEW u \in Users, BindRow(u)
  PROVE  IInv'
<1> USE DEF BindingsAssumption, removal
<1>1. TypeOK /\ Owned /\ Closing /\ NotRaced /\ Bound /\ Unbound
  BY DEF IInv
<1>2. PICK d \in rows[u] \ bad :
        /\ rows' = [rows EXCEPT ![u] = @ \ {d}]
        /\ \/ chan = "open" /\ pending' = pending \cup {d} /\ UNCHANGED failed
           \/ chan = "closing" /\ UNCHANGED <<pending, failed>>
           \/ failed' = failed \cup {u} /\ UNCHANGED pending
  BY DEF BindRow
<1>3. /\ d \in DevicesOf(u) /\ d \in Devices
      /\ task[u] = "bind" /\ task' = [task EXCEPT ![u] = "rows"]
      /\ UNCHANGED <<bad, bound, chan, cut, creator, found, late, sent, remover, listed, left,
                    raced, answer, newUser>>
  BY <1>1, <1>2 DEF BindRow, Owned, DevicesOf
<1>4. TypeOK'
  BY <1>1, <1>2, <1>3 DEF TypeOK
<1>5. /\ \A v \in Users \ {u} : rows'[v] = rows[v] /\ task'[v] = task[v]
      /\ rows'[u] = rows[u] \ {d} /\ task'[u] = "rows"
      /\ failed \subseteq failed' /\ pending \subseteq pending' /\ pending' \subseteq pending \cup {d}
  BY <1>1, <1>2, <1>3 DEF TypeOK
<1>6. Owned'
  <2>1. /\ left' \subseteq DevicesOf(Leaver) /\ (answer' # 0 => remover' = "done")
        /\ remover' = "rows" \/ answer' = 200 => listed' \in Page(DevicesOf(Leaver))
    BY <1>1, <1>3 DEF Owned
  <2>2. ASSUME NEW v \in Users
        PROVE  /\ rows'[v] \subseteq DevicesOf(v)
               /\ task'[v] \notin {"rows", "bind"} => rows'[v] = {}
               /\ task'[v] \in {"rows", "bind", "done"} /\ v \notin failed' =>
                    found'[v] \in Page(DevicesOf(v))
    BY <1>1, <1>3, <1>5 DEF Owned
  <2> QED
    BY <2>1, <2>2 DEF Owned, DevicesOf, Page
<1>7. Closing'
  <2>1. chan \in {"none", "closed"} \/ cut => UNCHANGED pending
    BY <1>1, <1>2 DEF Closing
  <2>2. creator # "closing" \/ u \in late
    BY <1>1, <1>3 DEF Closing
  <2> QED
    BY <1>1, <1>3, <1>5, <2>1, <2>2 DEF Closing
<1>8. NotRaced'
  <2> SUFFICES ASSUME remover # "idle", ~raced
               PROVE  ~MayStillBind(Leaver)'
    BY <1>3 DEF NotRaced
  <2>1. ~MayStillBind(Leaver)
    BY <1>1 DEF NotRaced
  <2>2. task'[Leaver] = "done" \/ creator = "done"
    <3>1. CASE u = Leaver
      BY <1>3, <2>1, <3>1 DEF MayStillBind
    <3> QED
      BY <1>5, <2>1, <3>1 DEF MayStillBind
  <2>3. pending' \cap DevicesOf(Leaver) = {}
    <3>1. CASE u = Leaver
      <4>1. creator = "done"
        BY <1>3, <2>1, <3>1 DEF MayStillBind
      <4>2. UNCHANGED pending
        BY <1>1, <1>2, <4>1 DEF Closing
      <4> QED
        BY <2>1, <4>2 DEF MayStillBind
    <3>2. CASE u # Leaver
      BY <1>3, <1>5, <2>1, <3>2, OneOwner DEF MayStillBind
    <3> QED
      BY <3>1, <3>2
  <2> QED
    BY <1>3, <2>2, <2>3 DEF MayStillBind, DevicesOf
<1>9. Bound'
  <2> SUFFICES ASSUME ~cut, NEW v \in Users, task'[v] \in {"rows", "bind", "done"},
                      v \notin failed' \cup late, v = Leaver => remover = "idle",
                      NEW e \in found[v], e \notin bad, e \notin rows'[v]
               PROVE  <<e, "chat">> \in bound \/ e \in pending'
    BY <1>3 DEF Bound, Unharmed, OnItsWay
  <2>1. task[v] \in {"rows", "bind", "done"} /\ v \notin failed
    BY <1>3, <1>5
  <2>2. CASE e \notin rows[v]
    BY <1>1, <1>5, <2>1, <2>2 DEF Bound, Unharmed, OnItsWay
  <2>3. CASE e \in rows[v]
    <3>1. v = u /\ e = d
      BY <1>5, <2>3
    <3>2. CASE chan = "closing"
      BY <1>1, <1>3, <3>1, <3>2 DEF Closing
    <3> QED
      BY <1>2, <3>1, <3>2
  <2> QED
    BY <2>2, <2>3
<1>10. Unbound'
  BY <1>1, <1>3, UnboundKept
<1> QED
  BY <1>4, <1>6, <1>7, <1>8, <1>9, <1>10 DEF IInv

-----------------------------------------------------------------------------
\* The broker binds what is on its way, of which nothing belongs to a user whose
\* removal overtook nothing.
LEMMA BrokerIInv ==
  ASSUME BindingsAssumption, IInv,
         (\E d \in Devices : BrokerBinds(d)) \/ BrokerCloses \/ ClientLearns
  PROVE  IInv'
<1> USE DEF BindingsAssumption, creation, removal
<1>1. TypeOK /\ Owned /\ Closing /\ NotRaced /\ Bound /\ Unbound
  BY DEF IInv
<1>2. /\ UNCHANGED <<bad, creator, task, found, rows, failed, late, sent, newUser>>
      /\ UNCHANGED <<remover, listed, left, raced, answer>>
      /\ pending' \subseteq pending
  BY DEF BrokerBinds, BrokerCloses, ClientLearns
<1>3. TypeOK'
  <2>1. CASE \E d \in Devices : BrokerBinds(d)
    BY <1>1, <1>2, <2>1 DEF BrokerBinds, TypeOK
  <2>2. CASE BrokerCloses
    BY <1>1, <1>2, <2>2 DEF BrokerCloses, TypeOK
  <2>3. CASE ClientLearns
    BY <1>1, <1>2, <2>3 DEF ClientLearns, TypeOK
  <2> QED
    BY <2>1, <2>2, <2>3
<1>4. Owned'
  BY <1>1, <1>2 DEF Owned, DevicesOf, Page
<1>5. Closing'
  <2>1. CASE \E d \in Devices : BrokerBinds(d)
    BY <1>1, <1>2, <2>1 DEF BrokerBinds, Closing
  <2>2. CASE BrokerCloses
    BY <1>1, <1>2, <2>2 DEF BrokerCloses, Closing
  <2>3. CASE ClientLearns
    BY <1>1, <1>2, <2>3 DEF ClientLearns, Closing
  <2> QED
    BY <2>1, <2>2, <2>3
<1>6. NotRaced'
  BY <1>1, <1>2 DEF NotRaced, MayStillBind, DevicesOf
<1>7. Bound' /\ Unbound'
  <2>1. CASE BrokerCloses
    BY <1>1, <1>2, <2>1, UnboundKept DEF BrokerCloses, Bound
  <2>2. CASE ClientLearns
    BY <1>1, <1>2, <2>2, UnboundKept DEF ClientLearns, Bound, Closing
  <2>3. ASSUME NEW d \in Devices, BrokerBinds(d)
        PROVE  Bound' /\ Unbound'
    <3>1. /\ d \in pending /\ pending' = pending \ {d} /\ UNCHANGED cut
          /\ bound' = bound \cup {<<d, "chat">>}
      BY <2>3 DEF BrokerBinds
    <3>2. Bound'
      BY <1>1, <1>2, <3>1 DEF Bound, Unharmed, OnItsWay
    <3>3. Unbound'
      <4> SUFFICES ASSUME remover = "rows" \/ answer = 200, ~raced,
                          NEW e \in listed, e \notin bad, e \notin left
                   PROVE  <<e, "chat">> \notin bound'
        BY <1>2 DEF Unbound
      <4>1. remover # "idle" /\ e \in DevicesOf(Leaver)
        BY <1>1, PageFacts DEF Owned
      <4>2. d # e
        BY <1>1, <3>1, <4>1 DEF NotRaced, MayStillBind
      <4> QED
        BY <1>1, <3>1, <4>2 DEF Unbound
    <3> QED
      BY <3>2, <3>3
  <2> QED
    BY <2>1, <2>2, <2>3
<1> QED
  BY <1>3, <1>4, <1>5, <1>6, <1>7 DEF IInv

-----------------------------------------------------------------------------
\* The steps of a removal leave the creation and its channel alone.
LEMMA RemovalKeeps ==
  ASSUME BindingsAssumption, IInv, UNCHANGED <<bad, channel, creation>>
  PROVE  /\ Closing'
         /\ \A u \in Users :
              /\ rows'[u] \subseteq DevicesOf(u)
              /\ task'[u] \notin {"rows", "bind"} => rows'[u] = {}
              /\ task'[u] \in {"rows", "bind", "done"} /\ u \notin failed' =>
                   found'[u] \in Page(DevicesOf(u))
         /\ MayStillBind(Leaver)' <=> MayStillBind(Leaver)
<1>1. /\ UNCHANGED <<bad, pending, chan, cut, creator, task, found, rows, failed, late>>
      /\ Owned /\ Closing
  BY DEF channel, creation, IInv
<1> QED
  BY <1>1 DEF Owned, Closing, MayStillBind, DevicesOf

\* The steps of a removal that unbind nothing.
LEMMA RemoverIInv ==
  ASSUME BindingsAssumption, IInv, Remove \/ RemoverConnects \/ FindLeft \/ Removed
  PROVE  IInv'
<1> USE DEF BindingsAssumption, Answer
<1>1. TypeOK /\ Owned /\ NotRaced /\ Bound /\ Unbound
  BY DEF IInv
<1>2. /\ UNCHANGED <<bad, bound, channel, creation, newUser>>
      /\ remover' # "idle" /\ remover # "done"
  BY DEF Remove, RemoverConnects, FindLeft, Removed
<1>3. UNCHANGED <<pending, chan, cut, creator, task, found, rows, failed, late, sent>>
  BY <1>2 DEF channel, creation
<1>4. TypeOK'
  <2>1. CASE FindLeft
    <3>1. \A s \in Page(DevicesOf(Leaver)) : s \subseteq Devices
      BY PageFacts DEF DevicesOf
    <3> QED
      BY <1>1, <1>2, <1>3, <2>1, <3>1 DEF FindLeft, TypeOK
  <2>2. CASE Remove
    <3>1. raced' \in BOOLEAN
      BY <2>2 DEF Remove, MayStillBind
    <3> QED
      BY <1>1, <1>2, <1>3, <2>2, <3>1 DEF Remove, TypeOK
  <2>3. CASE RemoverConnects
    BY <1>1, <1>2, <1>3, <2>3 DEF RemoverConnects, TypeOK
  <2>4. CASE Removed
    BY <1>1, <1>2, <1>3, <2>4 DEF Removed, TypeOK
  <2> QED
    BY <2>1, <2>2, <2>3, <2>4
<1>5. answer = 0
  BY <1>1, <1>2 DEF Owned
<1>6. Owned'
  <2>1. left' \subseteq DevicesOf(Leaver) /\ (answer' # 0 => remover' = "done")
    BY <1>1, <1>5, PageFacts DEF Owned, Remove, RemoverConnects, FindLeft, Removed
  <2>2. remover' = "rows" \/ answer' = 200 => listed' \in Page(DevicesOf(Leaver))
    BY <1>1, <1>5 DEF Owned, Remove, RemoverConnects, FindLeft, Removed
  <2> QED
    BY <1>2, <2>1, <2>2, RemovalKeeps DEF Owned, DevicesOf, Page
<1>7. NotRaced'
  BY <1>1, <1>2, RemovalKeeps DEF NotRaced, Remove, RemoverConnects, FindLeft, Removed
<1>8. Bound'
  BY <1>1, <1>2, <1>3 DEF Bound, Unharmed, OnItsWay
<1>9. Unbound'
  <2>1. CASE Remove \/ RemoverConnects
    BY <1>5, <2>1 DEF Unbound, Remove, RemoverConnects
  <2>2. CASE FindLeft
    BY <1>5, <2>2 DEF Unbound, FindLeft
  <2>3. CASE Removed
    BY <1>1, <2>3 DEF Unbound, Removed
  <2> QED
    BY <2>1, <2>2, <2>3
<1> QED
  BY <1>2, <1>4, <1>6, <1>7, <1>8, <1>9, RemovalKeeps DEF IInv

\* To unbind a device of Leaver disturbs the devices of nobody else, and only
\* removes bindings.
LEMMA UnbindIInv ==
  ASSUME BindingsAssumption, IInv, UnbindGiven \/ UnbindRow
  PROVE  IInv'
<1> USE DEF BindingsAssumption, Answer
<1>1. TypeOK /\ Owned /\ NotRaced /\ Bound /\ Unbound
  BY DEF IInv
<1>2. /\ UNCHANGED <<bad, channel, creation, listed, raced, newUser>>
      /\ remover # "idle" /\ remover' # "idle" /\ remover # "done"
      /\ left' \subseteq left
  BY DEF UnbindGiven, UnbindRow
<1>3. UNCHANGED <<pending, chan, cut, creator, task, found, rows, failed, late, sent>>
  BY <1>2 DEF channel, creation
<1>4. bound' = bound \/ \E d \in DevicesOf(Leaver) : bound' = bound \ {<<d, "chat">>}
  BY <1>1 DEF UnbindGiven, UnbindRow, Unbind, Owned
<1>5. TypeOK'
  BY <1>1, <1>2, <1>3, <1>4 DEF TypeOK, UnbindGiven, UnbindRow
<1>6. answer = 0 /\ answer' # 200
  BY <1>1, <1>2 DEF Owned, UnbindGiven, UnbindRow
<1>7. Owned'
  <2>1. left' \subseteq DevicesOf(Leaver) /\ (answer' # 0 => remover' = "done")
    BY <1>1, <1>2, <1>6 DEF Owned, UnbindGiven, UnbindRow
  <2>2. remover' = "rows" \/ answer' = 200 => listed' \in Page(DevicesOf(Leaver))
    BY <1>1, <1>2, <1>6 DEF Owned, UnbindGiven, UnbindRow
  <2> QED
    BY <1>2, <2>1, <2>2, RemovalKeeps DEF Owned, DevicesOf, Page
<1>8. NotRaced'
  BY <1>1, <1>2, RemovalKeeps DEF NotRaced
<1>9. Bound'
  <2> SUFFICES ASSUME ~cut, NEW u \in Users, task[u] \in {"rows", "bind", "done"},
                      u \notin failed \cup late, u # Leaver,
                      NEW e \in found[u], e \notin bad, e \notin rows[u]
               PROVE  <<e, "chat">> \in bound' \/ e \in pending
    BY <1>2, <1>3 DEF Bound, Unharmed, OnItsWay
  <2>1. <<e, "chat">> \in bound \/ e \in pending
    BY <1>1 DEF Bound, Unharmed, OnItsWay
  <2>2. e \notin DevicesOf(Leaver)
    BY <1>1, PageFacts, OneOwner DEF Owned
  <2> QED
    BY <1>4, <2>1, <2>2
<1>10. Unbound'
  <2>1. CASE UnbindGiven
    BY <1>6, <2>1 DEF UnbindGiven, Unbound
  <2>2. CASE UnbindRow
    <3>1. PICK d \in left :
            \/ d \notin bad /\ Unbind(d) /\ left' = left \ {d} /\ UNCHANGED <<remover, answer>>
            \/ d \in bad /\ left' = left \ {d} /\ UNCHANGED <<bound, remover, answer>>
            \/ d \notin bad /\ Answer(500) /\ UNCHANGED <<bound, left>>
      BY <2>2 DEF UnbindRow
    <3>2. remover = "rows"
      BY <2>2 DEF UnbindRow
    <3> QED
      BY <1>1, <1>2, <1>6, <3>1, <3>2 DEF Unbound, Unbind
  <2> QED
    BY <2>1, <2>2
<1> QED
  BY <1>2, <1>5, <1>7, <1>8, <1>9, <1>10, RemovalKeeps DEF IInv

-----------------------------------------------------------------------------
\* The goroutine of a new user binds with the key of the user, never with that of
\* the conversation.
LEMMA NewUserIInv ==
  ASSUME BindingsAssumption, IInv, BindOwnQueue
  PROVE  IInv'
<1>1. TypeOK /\ Owned /\ Closing /\ NotRaced /\ Bound /\ Unbound
  BY DEF IInv
<1>2. /\ UNCHANGED <<bad, pending, chan, cut, creator, task, found, rows, failed, late, sent>>
      /\ UNCHANGED <<remover, listed, left, raced, answer>>
      /\ newUser' = "done"
      /\ \A d : <<d, "chat">> \in bound' <=> <<d, "chat">> \in bound
      /\ bound' \subseteq Devices \X {"chat", "user"}
  BY <1>1 DEF BindOwnQueue, channel, creation, removal, BindingsAssumption, TypeOK
<1>3. TypeOK'
  BY <1>1, <1>2 DEF TypeOK
<1>4. Owned' /\ Closing'
  BY <1>1, <1>2 DEF Owned, Closing, DevicesOf, Page
<1>5. NotRaced'
  BY <1>1, <1>2 DEF NotRaced, MayStillBind, DevicesOf
<1>6. Bound' /\ Unbound'
  BY <1>1, <1>2 DEF Bound, Unbound, Unharmed, OnItsWay
<1> QED
  BY <1>3, <1>4, <1>5, <1>6 DEF IInv

LEMMA StepIInv ==
  ASSUME BindingsAssumption
  PROVE  IInv /\ [Next]_vars => IInv'
<1> SUFFICES ASSUME IInv, [Next]_vars
             PROVE  IInv'
  OBVIOUS
<1>1. CASE \E u \in Users : TaskOf(u)
  <2>1. PICK u \in Users : TaskOf(u)
    BY <1>1
  <2> QED
    BY <2>1, TaskIInv, BindIInv DEF TaskOf
<1>2. CASE Next /\ ~(\E u \in Users : TaskOf(u))
  BY <1>2, CreatorIInv, BrokerIInv, RemoverIInv, UnbindIInv, NewUserIInv DEF Next
<1>3. CASE UNCHANGED vars
  <2>1. /\ UNCHANGED <<bad, bound, pending, chan, cut, creator, task, found, rows, failed>>
        /\ UNCHANGED <<late, sent, remover, listed, left, raced, answer, newUser>>
    BY <1>3 DEF vars, channel, creation, removal
  <2> QED
    BY <2>1 DEF IInv, TypeOK, Owned, Closing, NotRaced, MayStillBind, Bound, Unbound, Unharmed,
                OnItsWay, DevicesOf, Page
<1> QED
  BY <1>1, <1>2, <1>3

-----------------------------------------------------------------------------
\* The bindings follow the tasks, the channel and the removal row by row
\* (conversations/handlers.go:480, chats-map/handlers.go:501).
THEOREM BindingsInvariant ==
  ASSUME BindingsAssumption
  PROVE  Spec => []IInv
<1>1. Init => IInv
  BY InitIInv
<1>2. IInv /\ [Next]_vars => IInv'
  BY StepIInv
<1> QED
  BY <1>1, <1>2, PTL DEF Spec

\* A task without an error, whose channel the broker kept and nobody closed too early,
\* has its devices bound when the channel is closed, though no binding is waited for
\* (conversations/handlers.go:686); a removal that answered 200, overtook nothing and
\* came to the end of its rows has unbound every device it looked after.
THEOREM BindingsDoSettle ==
  ASSUME BindingsAssumption
  PROVE  Spec => []BindingsSettle
<1>1. IInv => BindingsSettle
  <2> SUFFICES ASSUME IInv
               PROVE  BindingsSettle
    OBVIOUS
  <2>1. TypeOK /\ Owned /\ Closing /\ Bound /\ Unbound
    BY DEF IInv
  <2>2. ASSUME NEW u \in Users, task[u] = "done", u \notin failed \cup late, ~cut,
               u = Leaver => remover = "idle", NEW d \in Due(u, found[u])
        PROVE  <<d, "chat">> \in bound \/ (d \in pending /\ creator # "done")
    <3>1. d \in found[u] /\ d \notin bad /\ rows[u] = {}
      BY <2>1, <2>2, PageFacts DEF Owned, Due
    <3>2. OnItsWay(d)
      BY <2>1, <2>2, <3>1 DEF Bound, Unharmed
    <3> QED
      BY <2>1, <3>2 DEF OnItsWay, Closing
  <2>3. ASSUME answer = 200, ~raced, NEW d \in Due(Leaver, listed) \ left
        PROVE  <<d, "chat">> \notin bound
    <3>1. d \in listed /\ d \notin bad
      BY <2>1, <2>3, PageFacts DEF Owned, Due
    <3> QED
      BY <2>1, <2>3, <3>1 DEF Unbound
  <2> QED
    BY <2>2, <2>3 DEF BindingsSettle
<1> QED
  BY <1>1, BindingsInvariant, PTL
=============================================================================
