------------------------------ MODULE ChatRoom ------------------------------
(***************************************************************************)
(* What the WebSocket service promises about a chat, without saying how:   *)
(* connections join conversations, a message is stored, acknowledged to    *)
(* its sender once it is stored, and delivered at most once to the other   *)
(* connections of its conversation.  A message is one item that a client   *)
(* sends: an item that is sent twice counts as two.  WSService implements  *)
(* this module.                                                            *)
(***************************************************************************)
CONSTANTS Conns,     \* connections
          Convs,     \* conversations
          Msgs,      \* chat messages
          ConvIds,   \* ConvIds[c]: the conversations connection c asked for
          Sender,    \* Sender[m]: the connection a message comes from
          ConvOf     \* ConvOf[m]: the conversation a message is sent to

VARIABLES members,   \* members[k]: connections of conversation k
          accepted,  \* messages the service took responsibility for
          stored,    \* messages in the database
          acked,     \* messages acknowledged to their sender
          delivered  \* delivered[c]: messages connection c has received

roomVars == <<members, accepted, stored, acked, delivered>>

RoomInit ==
    /\ members = [k \in Convs |-> {}]
    /\ accepted = {}
    /\ stored = {}
    /\ acked = {}
    /\ delivered = [c \in Conns |-> {}]

\* A connection becomes a member of one of the conversations it asked for.
Join(c, k) ==
    /\ k \in ConvIds[c]
    /\ members' = [members EXCEPT ![k] = @ \cup {c}]
    /\ UNCHANGED <<accepted, stored, acked, delivered>>

\* The service takes a message from a connection.
Accept(m) ==
    /\ accepted' = accepted \cup {m}
    /\ UNCHANGED <<members, stored, acked, delivered>>

\* The database takes the message.
Store(m) ==
    /\ m \in accepted
    /\ stored' = stored \cup {m}
    /\ UNCHANGED <<members, accepted, acked, delivered>>

\* The sender learns that its message is stored, and not before it is.
Ack(m) ==
    /\ m \in stored \ acked
    /\ acked' = acked \cup {m}
    /\ UNCHANGED <<members, accepted, stored, delivered>>

\* A member other than the sender receives the message, once.
Deliver(m, p) ==
    /\ m \in accepted
    /\ p \in members[ConvOf[m]]
    /\ p # Sender[m]
    /\ m \notin delivered[p]
    /\ delivered' = [delivered EXCEPT ![p] = @ \cup {m}]
    /\ UNCHANGED <<members, accepted, stored, acked>>

RoomNext ==
    \/ \E c \in Conns, k \in Convs : Join(c, k)
    \/ \E m \in Msgs : Accept(m) \/ Store(m) \/ Ack(m)
    \/ \E m \in Msgs, p \in Conns : Deliver(m, p)

RoomSpec == RoomInit /\ [][RoomNext]_roomVars
=============================================================================
