---------------------------- MODULE MCWSService -----------------------------
(* Small instances of WSService: two devices (c1, c3) of one user and one   *)
(* of another.  m1 is written by its sender's user, m3 is not.    *)
EXTENDS WSService, TLC

CONSTANTS c1, c2, c3, u1, u2, k1, m1, m3, n1

MCUserOf == [c \in Conns |-> IF c = c2 THEN u2 ELSE u1]

\* c1 and c2 share a conversation, c3 asked for none ("[]").
MCConvIds == [c \in Conns |-> IF c = c3 THEN {} ELSE {k1}]

\* All connections share a conversation.
MCSharedConv == [c \in Conns |-> {k1}]

\* c1 asked for no conversation: its cleanup ends.
MCConvIdsButC1 == [c \in Conns |-> IF c = c1 THEN {} ELSE {k1}]

MCSender == [i \in Items |-> IF i = n1 THEN c2 ELSE c1]
MCSenderC1 == [i \in Items |-> c1]
MCConvOf == [m \in Msgs |-> k1]
MCAuthorOf == [m \in Msgs |-> IF m = m3 THEN u2 ELSE u1]
\* n1 is about both users, or about u1 only.
MCParticipants == [n \in Notices |-> {u1, u2}]
MCOneParticipant == [n \in Notices |-> {u1}]
=============================================================================
