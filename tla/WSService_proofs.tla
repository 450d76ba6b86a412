-------------------------- MODULE WSService_proofs --------------------------
(***************************************************************************)
(* Theorems about WSService, for every set of connections, users,          *)
(* conversations and items: type correctness, agreement of the two maps,   *)
(* and what the second lock of the cleanup does to the registry.           *)
(***************************************************************************)
EXTENDS WSService, TLAPS

\* The service has the right types in every reachable state.
THEOREM TypeCorrect == Spec => []TypeOK
<1>1. Init => TypeOK
  <2> SUFFICES ASSUME Init PROVE TypeOK
    OBVIOUS
  <2>1. /\ mu \in Conns \cup {Free}
        /\ userIdToConns \in [Users -> SUBSET Conns]
        /\ convIdToConns \in [Convs -> SUBSET Conns]
    BY DEF Init
  <2>2. /\ pc \in [Conns -> PCs]
        /\ sock \in [Conns -> {"none", "open", "down", "closed"}]
        /\ IsConnClosed \in [Conns -> BOOLEAN]
    BY DEF Init, PCs
  <2>3. /\ phase \in [Items -> Phases]
        /\ db \in [Items -> {"idle", "pending", "stored", "failed", "answered"}]
    BY DEF Init, Phases
  <2>4. /\ rangeKeys \in [Msgs -> SUBSET Conns]
        /\ targets \in [Items -> SUBSET Conns]
    BY DEF Init
  <2>5. got \in [Conns -> SUBSET Items] /\ acked \subseteq Msgs /\ crashed \in BOOLEAN
    BY DEF Init
  <2> QED
    BY <2>1, <2>2, <2>3, <2>4, <2>5 DEF TypeOK
<1>2. ASSUME TypeOK, [Next]_vars
      PROVE  TypeOK'
  <2> USE <1>2, ConstantsAssumption
  <2>1. ASSUME NEW c \in Conns, RegisterUser(c)
        PROVE  TypeOK'
    BY <2>1 DEF RegisterUser, Goto, PCs, TypeOK, registry, conn, traffic
  <2>2. ASSUME NEW c \in Conns, RegisterDone(c)
        PROVE  TypeOK'
    BY <2>2 DEF RegisterDone, Goto, PCs, TypeOK, registry, conn, traffic
  <2>3. ASSUME NEW c \in Conns, ReadError(c)
        PROVE  TypeOK'
    BY <2>3 DEF ReadError, Goto, PCs, TypeOK, registry, conn, traffic
  <2>4. ASSUME NEW c \in Conns, SafeClose(c)
        PROVE  TypeOK'
    BY <2>4 DEF SafeClose, Goto, PCs, TypeOK, registry, conn, traffic
  <2>5. ASSUME NEW c \in Conns, CleanUp(c)
        PROVE  TypeOK'
    BY <2>5 DEF CleanUp, Goto, PCs, TypeOK, registry, conn, traffic
  <2>6. ASSUME NEW c \in Conns, Reject(c)
        PROVE  TypeOK'
    BY <2>6 DEF Reject, Goto, PCs, TypeOK, registry, conn, traffic
  <2>7. ASSUME NEW c \in Conns, Upgrade(c)
        PROVE  TypeOK'
    BY <2>7 DEF Upgrade, Goto, PCs, TypeOK, registry, conn, traffic
  <2>8. ASSUME NEW c \in Conns, PeerGone(c)
        PROVE  TypeOK'
    BY <2>8 DEF PeerGone, Goto, PCs, TypeOK, registry, conn, traffic
  <2>9. ASSUME NEW c \in Conns, CloseFrame(c)
        PROVE  TypeOK'
    BY <2>9 DEF CloseFrame, Goto, PCs, TypeOK, registry, conn, traffic
  <2>10. ASSUME NEW c \in Conns, NEW k \in Convs, RegisterConv(c, k)
        PROVE  TypeOK'
    BY <2>10 DEF RegisterConv, TypeOK, registry, conn, traffic
  <2>11. ASSUME NEW i \in Items, Insert(i)
        PROVE  TypeOK'
    BY <2>11 DEF Insert, TypeOK, registry, conn, traffic
  <2>12. ASSUME NEW i \in Items, NEW p \in Conns, Send(i, p)
        PROVE  TypeOK'
    BY <2>12 DEF Send, TypeOK, registry, conn, traffic
  <2>13. ASSUME NEW m \in Msgs, AckSender(m)
        PROVE  TypeOK'
    BY <2>13 DEF AckSender, Phases, Items, TypeOK, registry, conn, traffic
  <2>14. ASSUME NEW m \in Msgs, RelayLookup(m)
        PROVE  TypeOK'
    BY <2>14 DEF RelayLookup, Phases, Items, TypeOK, registry, conn, traffic
  <2>15. ASSUME NEW m \in Msgs, RelayRange(m)
        PROVE  TypeOK'
    BY <2>15 DEF RelayRange, Phases, Items, TypeOK, registry, conn, traffic
  <2>16. ASSUME NEW m \in Msgs, RelaySpawn(m)
        PROVE  TypeOK'
    BY <2>16 DEF RelaySpawn, Phases, Items, TypeOK, registry, conn, traffic
  <2>17. ASSUME NEW m \in Msgs, DispatchMessage(m)
        PROVE  TypeOK'
    BY <2>17 DEF DispatchMessage, Phases, Items, TypeOK, registry, conn, traffic
  <2>18. ASSUME NEW n \in Notices, NotifyLookup(n)
        PROVE  TypeOK'
    BY <2>18 DEF NotifyLookup, Phases, Items, TypeOK, registry, conn, traffic
  <2>19. ASSUME NEW n \in Notices, DispatchNotice(n)
        PROVE  TypeOK'
    BY <2>19 DEF DispatchNotice, Phases, Items, TypeOK, registry, conn, traffic
  <2>20. ASSUME MapFault
        PROVE  TypeOK'
    BY <2>20 DEF MapFault, TypeOK, registry, conn, traffic
  <2>21. ASSUME UNCHANGED vars
        PROVE  TypeOK'
    BY <2>21 DEF vars, TypeOK
  <2> QED
    BY <2>1, <2>2, <2>3, <2>4, <2>5, <2>6, <2>7, <2>8, <2>9, <2>10, <2>11, <2>12, <2>13, <2>14, <2>15, <2>16, <2>17, <2>18, <2>19, <2>20, <2>21
       DEF Next, ConnStep, ItemStep, MessageStep
<1> QED
  BY <1>1, <1>2, PTL DEF Spec
-----------------------------------------------------------------------------
(* The registry                                                            *)

\* What a step does to the registry and to the connections: nothing, or one
\* of seven actions of one connection.
RegistryStep(c) ==
    \/ RegisterUser(c)
    \/ \E k \in Convs : RegisterConv(c, k)
    \/ RegisterDone(c)
    \/ ReadError(c) \/ CloseFrame(c)
    \/ SafeClose(c)
    \/ CleanUp(c)
    \/ Reject(c) \/ Upgrade(c)

\* Every step is a registry step of one connection or leaves the registry and
\* the program counters alone.
LEMMA RegistrySteps ==
    ASSUME [Next]_vars
    PROVE  \/ \E c \in Conns : RegistryStep(c)
           \/ UNCHANGED <<registry, pc>>
<1>1. ASSUME NEW c \in Conns,
             ConnStep(c) \/ Reject(c) \/ Upgrade(c) \/ CloseFrame(c)
      PROVE  \E d \in Conns : RegistryStep(d)
  BY <1>1 DEF ConnStep, RegistryStep
<1>2. ASSUME NEW c \in Conns, PeerGone(c)
      PROVE  UNCHANGED <<registry, pc>>
  BY <1>2 DEF PeerGone
<1>3. ASSUME NEW i \in Items, ItemStep(i)
      PROVE  UNCHANGED <<registry, pc>>
  BY <1>3 DEF ItemStep, Insert, Send, conn
<1>4. ASSUME NEW m \in Msgs, MessageStep(m) \/ DispatchMessage(m)
      PROVE  UNCHANGED <<registry, pc>>
  BY <1>4 DEF MessageStep, AckSender, RelayLookup, RelayRange, RelaySpawn,
              DispatchMessage, conn
<1>5. ASSUME NEW n \in Notices, NotifyLookup(n) \/ DispatchNotice(n)
      PROVE  UNCHANGED <<registry, pc>>
  BY <1>5 DEF NotifyLookup, DispatchNotice, conn
<1>6. CASE MapFault
  BY <1>6 DEF MapFault, conn
<1>7. CASE UNCHANGED vars
  BY <1>7 DEF vars, registry
<1> QED
  BY <1>1, <1>2, <1>3, <1>4, <1>5, <1>6, <1>7 DEF Next

\* The invariant of the registry holds in every reachable state.
THEOREM RegistryInvariant == Spec => []RegistryInv
<1>1. Init => RegistryInv
  BY ConstantsAssumption
     DEF Init, RegistryInv, LockOwner, UserEntries, ConvEntries, Listed
<1>2. ASSUME TypeOK, RegistryInv, [Next]_vars
      PROVE  RegistryInv'
  <2> USE <1>2, ConstantsAssumption
      DEF RegistryInv, LockOwner, UserEntries, ConvEntries, Listed
  <2>1. ASSUME NEW c \in Conns, RegisterUser(c)
        PROVE  RegistryInv'
    BY <2>1 DEF RegisterUser, Goto, TypeOK
  <2>2. ASSUME NEW c \in Conns, NEW k \in Convs, RegisterConv(c, k)
        PROVE  RegistryInv'
    BY <2>2 DEF RegisterConv, TypeOK, conn
  <2>3. ASSUME NEW c \in Conns, RegisterDone(c)
        PROVE  RegistryInv'
    BY <2>3 DEF RegisterDone, Goto, TypeOK
  <2>4. ASSUME NEW c \in Conns, ReadError(c) \/ CloseFrame(c) \/ SafeClose(c)
        PROVE  RegistryInv'
    <3>1. /\ pc[c] \in {"reading", "closing"}
          /\ \E l \in {"closing", "cleanLock"} : pc' = [pc EXCEPT ![c] = l]
          /\ UNCHANGED registry
      BY <2>4 DEF ReadError, CloseFrame, SafeClose, Goto
    <3> QED
      BY <3>1 DEF registry, TypeOK
  <2>5. ASSUME NEW c \in Conns, CleanUp(c)
        PROVE  RegistryInv'
    BY <2>5 DEF CleanUp, Goto, TypeOK
  <2>6. ASSUME NEW c \in Conns, Reject(c) \/ Upgrade(c)
        PROVE  RegistryInv'
    BY <2>6 DEF Reject, Upgrade, Goto, registry, TypeOK
  <2>7. CASE UNCHANGED <<registry, pc>>
    BY <2>7 DEF registry
  <2> QED
    BY RegistrySteps, <2>1, <2>2, <2>3, <2>4, <2>5, <2>6, <2>7
       DEF RegistryStep
<1> QED
  BY <1>1, <1>2, TypeCorrect, PTL DEF Spec

\* The two maps list the same connections whenever s.mu is free.
THEOREM MapsAgreeAlways == Spec => []MapsAgree
<1>1. RegistryInv => MapsAgree
  BY ConstantsAssumption
     DEF RegistryInv, LockOwner, UserEntries, ConvEntries, Listed, MapsAgree
<1> QED
  BY <1>1, RegistryInvariant, PTL

\* Once a cleanup waits for the mutex it holds, the registry never changes.
THEOREM WedgeIsFinal == Spec => WedgeFreezesRegistry
<1>1. ASSUME RegistryInv, [Next]_vars, Wedged
      PROVE  UNCHANGED registry
  <2>1. PICK w \in Conns : pc[w] = "relock" /\ mu = w
    BY <1>1 DEF Wedged, RegistryInv, LockOwner
  <2>2. ASSUME NEW c \in Conns, RegistryStep(c)
        PROVE  UNCHANGED registry
    <3>1. mu # Free /\ pc[c] # "regConvs"
      BY <1>1, <2>1, ConstantsAssumption DEF RegistryInv, LockOwner
    <3> QED
      BY <2>2, <3>1 DEF RegistryStep, RegisterUser, RegisterConv, RegisterDone,
         ReadError, CloseFrame, SafeClose, CleanUp, Reject, Upgrade
  <2> QED
    BY <1>1, <2>2, RegistrySteps
<1>2. ASSUME RegistryInv, [Next]_vars
      PROVE  [Wedged => UNCHANGED registry]_vars
  BY <1>1, <1>2
<1> QED
  BY <1>2, RegistryInvariant, PTL DEF Spec, WedgeFreezesRegistry
-----------------------------------------------------------------------------
(* The relay                                                               *)

\* What a connection's own steps leave alone.
LEMMA ConnStepsKeepTraffic ==
    ASSUME NEW c \in Conns,
           ConnStep(c) \/ Reject(c) \/ Upgrade(c) \/ PeerGone(c) \/ CloseFrame(c)
    PROVE  UNCHANGED <<traffic, crashed>>
BY DEF ConnStep, RegisterUser, RegisterConv, RegisterDone, ReadError,
       SafeClose, CleanUp, Reject, Upgrade, PeerGone, CloseFrame

\* No step takes a connection out of the map of a conversation.
LEMMA ConvEntriesGrow ==
    ASSUME TypeOK, [Next]_vars, NEW k \in Convs
    PROVE  convIdToConns[k] \subseteq convIdToConns'[k]
<1>1. ASSUME NEW c \in Conns, RegistryStep(c)
      PROVE  convIdToConns[k] \subseteq convIdToConns'[k]
  <2>1. ASSUME NEW j \in Convs, RegisterConv(c, j)
        PROVE  convIdToConns[k] \subseteq convIdToConns'[k]
    BY <2>1 DEF RegisterConv, TypeOK
  <2> QED
    BY <1>1, <2>1 DEF RegistryStep, RegisterUser, RegisterDone, ReadError,
       CloseFrame, SafeClose, CleanUp, Reject, Upgrade, registry
<1> QED
  BY <1>1, RegistrySteps DEF registry

\* What is still to be sent has not been sent and goes to a peer.
LEMMA SentOnceHolds == Spec => []SentOnce
<1>1. Init => SentOnce
  BY DEF Init, SentOnce, Items
<1>2. ASSUME TypeOK, SentOnce, [Next]_vars
      PROVE  SentOnce'
  <2> USE <1>2, ConstantsAssumption
  <2>1. \A k \in Convs : convIdToConns[k] \subseteq convIdToConns'[k]
    BY ConvEntriesGrow
  <2> USE <2>1
  <2>2. ASSUME UNCHANGED traffic
        PROVE  SentOnce'
    BY <2>2 DEF traffic, SentOnce
  <2>3. ASSUME NEW i \in Items, Insert(i)
        PROVE  SentOnce'
    BY <2>3 DEF Insert, SentOnce, TypeOK, Items
  <2>4. ASSUME NEW i \in Items, NEW p \in Conns, Send(i, p)
        PROVE  SentOnce'
    <3>1. /\ UNCHANGED <<convIdToConns, phase, db, acked>>
          /\ targets' = [targets EXCEPT ![i] = @ \ {p}]
          /\ got' = [got EXCEPT ![p] = @ \cup {i}] \/ got' = got
          /\ p \in targets[i]
      BY <2>4 DEF Send, registry
    <3>2. /\ \A j \in Items : targets'[j] \subseteq targets[j]
          /\ p \notin targets'[i]
      BY <3>1 DEF TypeOK
    <3>3. \A c \in Conns : /\ got[c] \subseteq got'[c]
                           /\ got'[c] \subseteq got[c] \cup {i}
                           /\ c # p => got'[c] = got[c]
      BY <3>1 DEF TypeOK
    <3>4. i \in Msgs => phase[i] = "sent"
      BY <3>1 DEF SentOnce
    <3>5. targets \in [Items -> SUBSET Conns]
      BY DEF TypeOK
    <3> QED
      BY <3>1, <3>2, <3>3, <3>4, <3>5 DEF SentOnce, Items
  <2>5. ASSUME NEW m \in Msgs, AckSender(m)
        PROVE  SentOnce'
    BY <2>5 DEF AckSender, SentOnce, TypeOK, Items
  <2>6. ASSUME NEW m \in Msgs, RelayLookup(m)
        PROVE  SentOnce'
    BY <2>6 DEF RelayLookup, SentOnce, TypeOK, Items
  <2>7. ASSUME NEW m \in Msgs, RelayRange(m)
        PROVE  SentOnce'
    BY <2>7 DEF RelayRange, SentOnce, TypeOK, Items
  <2>8. ASSUME NEW m \in Msgs, RelaySpawn(m)
        PROVE  SentOnce'
    BY <2>8 DEF RelaySpawn, SentOnce, TypeOK, Items, registry
  <2>9. ASSUME NEW m \in Msgs, DispatchMessage(m)
        PROVE  SentOnce'
    BY <2>9 DEF DispatchMessage, SentOnce, TypeOK, Items
  <2>10. ASSUME NEW n \in Notices, NotifyLookup(n) \/ DispatchNotice(n)
         PROVE  SentOnce'
    BY <2>10 DEF NotifyLookup, DispatchNotice, SentOnce, TypeOK, Items
  <2>11. CASE MapFault
    BY <2>2, <2>11 DEF MapFault
  <2>12. CASE UNCHANGED vars
    BY <2>2, <2>12 DEF vars, traffic
  <2> QED
    BY <2>2, <2>3, <2>4, <2>5, <2>6, <2>7, <2>8, <2>9, <2>10, <2>11, <2>12,
       ConnStepsKeepTraffic DEF Next, ItemStep, MessageStep
<1> QED
  BY <1>1, <1>2, TypeCorrect, PTL DEF Spec
\* A send that runs is given up for a connection that is closing only.
LEMMA SendReaches ==
    ASSUME TypeOK, NEW i \in Items, NEW p \in Conns, Send(i, p),
           NEW m \in Msgs, NEW q \in Conns,
           q \in targets[m] \/ m \in got[q] \/ MayFail(q)
    PROVE  q \in targets'[m] \/ m \in got'[q] \/ MayFail(q)'
<1>1. /\ targets' = [targets EXCEPT ![i] = @ \ {p}]
      /\ MayFail(p) \/ got' = [got EXCEPT ![p] = @ \cup {i}]
      /\ got' = [got EXCEPT ![p] = @ \cup {i}] \/ got' = got
      /\ UNCHANGED <<sock, IsConnClosed>>
  BY DEF Send, conn
<1>2. MayFail(q)' <=> MayFail(q)
  BY <1>1 DEF MayFail
<1>3. got[q] \subseteq got'[q] /\ targets[m] \ {p} \subseteq targets'[m]
  BY <1>1 DEF TypeOK, Items
<1>4. ASSUME q = p, i = m, ~MayFail(p)
      PROVE  m \in got'[q]
  BY <1>1, <1>4 DEF TypeOK
<1>5. i # m => targets'[m] = targets[m]
  BY <1>1 DEF TypeOK, Items
<1> QED
  BY <1>2, <1>3, <1>4, <1>5

\* No peer that a relay has found is left out.
LEMMA SentToAllHolds == Spec => []SentToAll
<1>1. Init => SentToAll
  BY DEF Init, SentToAll
<1>2. ASSUME TypeOK, TypeOK', RegistryInv, SentToAll, [Next]_vars
      PROVE  SentToAll'
  <2> USE <1>2, ConstantsAssumption
  <2>1. \A k \in Convs : convIdToConns[k] \subseteq convIdToConns'[k]
    BY ConvEntriesGrow
  <2>2. ASSUME UNCHANGED rangeKeys,
               \A m \in Msgs : /\ phase'[m] = "sent" => phase[m] = "sent"
                               /\ targets[m] \subseteq targets'[m],
               UNCHANGED got,
               \A m \in Msgs : \A p \in rangeKeys[m] : MayFail(p) => MayFail(p)'
        PROVE  SentToAll'
    BY <2>1, <2>2 DEF SentToAll
  <2>3. ASSUME NEW c \in Conns,
               ConnStep(c) \/ Reject(c) \/ Upgrade(c) \/ PeerGone(c) \/ CloseFrame(c)
        PROVE  SentToAll'
    <3>1. UNCHANGED traffic
      BY <2>3, ConnStepsKeepTraffic
    <3>2. \A p \in Conns : pc[p] # "idle" => (MayFail(p) => MayFail(p)')
      BY <2>3 DEF ConnStep, RegisterUser, RegisterConv, RegisterDone, ReadError, SafeClose,
         CleanUp, Reject, Upgrade, PeerGone, CloseFrame, conn, MayFail, TypeOK
    <3>3. ASSUME NEW m \in Msgs, NEW p \in rangeKeys[m]
          PROVE  p \in Conns /\ pc[p] # "idle"
      <4>1. ConvOf[m] \in Convs /\ p \in convIdToConns[ConvOf[m]] /\ p \in Conns
        BY DEF SentToAll, TypeOK
      <4>2. pc[p] \in {"regConvs", "reading", "closing", "cleanLock", "relock"}
        BY <4>1 DEF RegistryInv, ConvEntries, Listed
      <4> QED
        BY <4>1, <4>2
    <3> QED
      BY <2>2, <3>1, <3>2, <3>3 DEF traffic
  <2>4. ASSUME NEW i \in Items, NEW p \in Conns, Send(i, p)
        PROVE  SentToAll'
    <3>1. UNCHANGED <<convIdToConns, rangeKeys, phase>>
      BY <2>4 DEF Send, registry
    <3>2. \A m \in Msgs : rangeKeys[m] \subseteq Conns
      BY DEF TypeOK
    <3> QED
      BY <2>4, <3>1, <3>2, SendReaches DEF SentToAll
  <2>5. ASSUME NEW m \in Msgs, RelaySpawn(m)
        PROVE  SentToAll'
    <3>1. PICK seen \in SUBSET convIdToConns[ConvOf[m]] :
            /\ rangeKeys[m] \subseteq seen
            /\ targets' = [targets EXCEPT ![m] = seen \ {Sender[m]}]
      BY <2>5 DEF RelaySpawn
    <3>2. /\ targets'[m] = seen \ {Sender[m]}
          /\ \A n \in Msgs : n # m => targets'[n] = targets[n] /\ phase'[n] = phase[n]
      BY <2>5, <3>1 DEF RelaySpawn, TypeOK, Items
    <3>3. UNCHANGED <<rangeKeys, got, sock, IsConnClosed, convIdToConns>>
      BY <2>5 DEF RelaySpawn, registry, conn
    <3> QED
      BY <3>1, <3>2, <3>3 DEF SentToAll, MayFail
  <2>6. ASSUME NEW m \in Msgs, RelayLookup(m)
        PROVE  SentToAll'
    <3>1. /\ phase'[m] = "sent" => convIdToConns[ConvOf[m]] = {}
          /\ \A n \in Msgs : n # m => phase'[n] = phase[n]
      BY <2>6 DEF RelayLookup, TypeOK, Items
    <3>2. UNCHANGED <<rangeKeys, targets, got, sock, IsConnClosed, convIdToConns>>
      BY <2>6 DEF RelayLookup, registry, conn
    <3> QED
      BY <3>1, <3>2 DEF SentToAll, MayFail
  <2>7. ASSUME NEW m \in Msgs, RelayRange(m)
        PROVE  SentToAll'
    <3>1. /\ phase'[m] = "ranging" /\ rangeKeys'[m] = convIdToConns[ConvOf[m]]
          /\ \A n \in Msgs : n # m => phase'[n] = phase[n] /\ rangeKeys'[n] = rangeKeys[n]
      BY <2>7 DEF RelayRange, TypeOK, Items
    <3>2. UNCHANGED <<targets, got, sock, IsConnClosed, convIdToConns>>
      BY <2>7 DEF RelayRange, registry, conn
    <3> QED
      BY <3>1, <3>2 DEF SentToAll, MayFail
  <2>8. ASSUME NEW i \in Items, Insert(i)
        PROVE  SentToAll'
    BY <2>2, <2>8 DEF Insert, conn, MayFail
  <2>9. ASSUME NEW m \in Msgs, AckSender(m) \/ DispatchMessage(m)
        PROVE  SentToAll'
    BY <2>2, <2>9 DEF AckSender, DispatchMessage, conn, MayFail, TypeOK, Items
  <2>10. ASSUME NEW n \in Notices, NotifyLookup(n) \/ DispatchNotice(n)
         PROVE  SentToAll'
    BY <2>2, <2>10 DEF NotifyLookup, DispatchNotice, conn, MayFail, TypeOK, Items
  <2>11. CASE MapFault \/ UNCHANGED vars
    BY <2>2, <2>11 DEF MapFault, vars, traffic, conn, MayFail
  <2> QED
    BY <2>3, <2>4, <2>5, <2>6, <2>7, <2>8, <2>9, <2>10, <2>11
       DEF Next, ItemStep, MessageStep
<1> QED
  BY <1>1, <1>2, TypeCorrect, RegistryInvariant, PTL DEF Spec

\* A relay sends once to every peer it has found and to nobody else.
THEOREM RelayInvariant == Spec => []RelayInv
  BY SentOnceHolds, SentToAllHolds, PTL DEF RelayInv
-----------------------------------------------------------------------------
(* The refinement                                                          *)

\* A step that changes none of what the abstract room shows.
LEMMA RoomStutters ==
    ASSUME UNCHANGED <<convIdToConns, phase, db, acked, got>>
    PROVE  UNCHANGED Room!roomVars
BY DEF Room!roomVars, AcceptedMsgs, StoredMsgs, DeliveredMsgs

\* The service implements the abstract room.
THEOREM Implementation == Spec => ImplementsRoom
<1>1. Init => Room!RoomInit
  BY DEF Init, Room!RoomInit, AcceptedMsgs, StoredMsgs, DeliveredMsgs, Items
<1>2. ASSUME TypeOK, RelayInv, [Next]_vars
      PROVE  [Room!RoomNext]_(Room!roomVars)
  <2> USE <1>2, ConstantsAssumption
  <2>1. ASSUME NEW c \in Conns, NEW k \in Convs, RegisterConv(c, k)
        PROVE  Room!Join(c, k)
    BY <2>1 DEF RegisterConv, traffic, Room!Join, AcceptedMsgs, StoredMsgs,
       DeliveredMsgs
  <2>2. ASSUME NEW c \in Conns,
               \/ RegisterUser(c) \/ RegisterDone(c) \/ ReadError(c)
               \/ SafeClose(c) \/ CleanUp(c) \/ Reject(c) \/ Upgrade(c)
               \/ PeerGone(c) \/ CloseFrame(c)
        PROVE  UNCHANGED Room!roomVars
    BY <2>2, RoomStutters DEF RegisterUser, RegisterDone, ReadError, SafeClose,
       CleanUp, Reject, Upgrade, PeerGone, CloseFrame, registry, traffic
  <2>3. ASSUME NEW i \in Items, Insert(i)
        PROVE  (i \in Msgs /\ Room!Store(i)) \/ UNCHANGED Room!roomVars
    <3>1. UNCHANGED <<convIdToConns, phase, acked, got>>
      BY <2>3 DEF Insert, registry
    <3>2. UNCHANGED <<AcceptedMsgs, DeliveredMsgs>>
      BY <3>1 DEF AcceptedMsgs, DeliveredMsgs
    <3>3. CASE i \in Msgs /\ db' = [db EXCEPT ![i] = "stored"]
      <4>1. StoredMsgs' = StoredMsgs \cup {i}
        BY <3>3 DEF StoredMsgs, TypeOK
      <4>2. i \in AcceptedMsgs
        BY <2>3, <3>3 DEF Insert, RelayInv, SentOnce, AcceptedMsgs
      <4> QED
        BY <3>1, <3>2, <3>3, <4>1, <4>2 DEF Room!Store
    <3>4. CASE i \notin Msgs \/ db' = [db EXCEPT ![i] = "failed"]
      <4>1. StoredMsgs' = StoredMsgs
        BY <2>3, <3>4 DEF Insert, StoredMsgs, TypeOK
      <4> QED
        BY <3>1, <3>2, <4>1 DEF Room!roomVars
    <3> QED
      BY <2>3, <3>3, <3>4 DEF Insert
  <2>4. ASSUME NEW i \in Items, NEW p \in Conns, Send(i, p)
        PROVE  (i \in Msgs /\ Room!Deliver(i, p)) \/ UNCHANGED Room!roomVars
    <3>1. UNCHANGED <<convIdToConns, phase, db, acked>>
      BY <2>4 DEF Send, registry
    <3>2. UNCHANGED <<AcceptedMsgs, StoredMsgs>>
      BY <3>1 DEF AcceptedMsgs, StoredMsgs
    <3>3. CASE i \in Msgs /\ got' = [got EXCEPT ![p] = @ \cup {i}]
      <4>1. DeliveredMsgs' = [DeliveredMsgs EXCEPT ![p] = @ \cup {i}]
        <5>1. \A c \in Conns :
                 got'[c] \cap Msgs = IF c = p THEN (got[c] \cap Msgs) \cup {i}
                                              ELSE got[c] \cap Msgs
          BY <3>3 DEF TypeOK
        <5> QED
          BY <5>1 DEF DeliveredMsgs
      <4>2. /\ phase[i] = "sent"
            /\ p \in convIdToConns[ConvOf[i]]
            /\ p # Sender[i]
            /\ i \notin got[p]
        BY <2>4, <3>3 DEF Send, RelayInv, SentOnce
      <4>3. i \in AcceptedMsgs /\ i \notin DeliveredMsgs[p]
        BY <3>3, <4>2 DEF AcceptedMsgs, DeliveredMsgs
      <4> QED
        BY <3>1, <3>2, <3>3, <4>1, <4>2, <4>3 DEF Room!Deliver
    <3>4. CASE i \notin Msgs \/ got' = got
      <4>1. DeliveredMsgs' = DeliveredMsgs
        BY <2>4, <3>4 DEF Send, DeliveredMsgs, TypeOK
      <4> QED
        BY <3>1, <3>2, <4>1 DEF Room!roomVars
    <3> QED
      BY <2>4, <3>3, <3>4 DEF Send
  <2>5. ASSUME NEW m \in Msgs, AckSender(m)
        PROVE  Room!Ack(m) \/ UNCHANGED Room!roomVars
    <3>1. /\ UNCHANGED <<convIdToConns, phase, got>>
          /\ db[m] = "stored" /\ db' = [db EXCEPT ![m] = "answered"]
          /\ acked' = acked \cup {m} \/ UNCHANGED acked
      BY <2>5 DEF AckSender, registry
    <3>2. UNCHANGED <<AcceptedMsgs, StoredMsgs, DeliveredMsgs>>
      BY <3>1 DEF AcceptedMsgs, StoredMsgs, DeliveredMsgs, TypeOK, Items
    <3>3. m \in StoredMsgs \ acked
      BY <3>1 DEF StoredMsgs, RelayInv, SentOnce
    <3> QED
      BY <3>1, <3>2, <3>3 DEF Room!Ack, Room!roomVars
  <2>6. ASSUME NEW m \in Msgs, RelayLookup(m) \/ RelayRange(m) \/ RelaySpawn(m)
        PROVE  UNCHANGED Room!roomVars
    <3>1. /\ UNCHANGED <<convIdToConns, db, acked, got>>
          /\ phase[m] \notin {"idle", "refused"}
          /\ \E l \in {"held", "ranging", "sent"} : phase' = [phase EXCEPT ![m] = l]
      BY <2>6 DEF RelayLookup, RelayRange, RelaySpawn, registry
    <3>2. AcceptedMsgs' = AcceptedMsgs
      BY <3>1 DEF AcceptedMsgs, TypeOK, Items
    <3> QED
      BY <3>1, <3>2 DEF Room!roomVars, StoredMsgs, DeliveredMsgs
  <2>7. ASSUME NEW m \in Msgs, DispatchMessage(m)
        PROVE  Room!Accept(m) \/ UNCHANGED Room!roomVars
    <3>1. UNCHANGED <<convIdToConns, acked, DeliveredMsgs, StoredMsgs>>
      <4>1. db' = db \/ (db[m] = "idle" /\ db' = [db EXCEPT ![m] = "pending"])
        BY <2>7 DEF DispatchMessage, RelayInv, SentOnce
      <4> QED
        BY <2>7, <4>1 DEF DispatchMessage, registry, DeliveredMsgs, StoredMsgs,
           TypeOK, Items
    <3>2. AcceptedMsgs' \in {AcceptedMsgs, AcceptedMsgs \cup {m}}
      <4>1. CASE phase' = [phase EXCEPT ![m] = "started"]
        BY <2>7, <4>1 DEF DispatchMessage, AcceptedMsgs, TypeOK, Items
      <4>2. CASE phase' = [phase EXCEPT ![m] = "refused"]
        BY <2>7, <4>2 DEF DispatchMessage, AcceptedMsgs, TypeOK, Items
      <4> QED
        BY <2>7, <4>1, <4>2 DEF DispatchMessage
    <3> QED
      BY <3>1, <3>2 DEF Room!Accept, Room!roomVars
  <2>8. ASSUME NEW n \in Notices, NotifyLookup(n) \/ DispatchNotice(n)
        PROVE  UNCHANGED Room!roomVars
    <3>1. /\ UNCHANGED <<convIdToConns, acked, got>>
          /\ \A m \in Msgs : phase'[m] = phase[m] /\ db'[m] = db[m]
      BY <2>8 DEF NotifyLookup, DispatchNotice, registry, TypeOK, Items
    <3> QED
      BY <3>1 DEF Room!roomVars, AcceptedMsgs, StoredMsgs, DeliveredMsgs
  <2>9. CASE MapFault \/ UNCHANGED vars
    BY <2>9, RoomStutters DEF MapFault, vars, registry, traffic
  <2> QED
    BY <2>1, <2>2, <2>3, <2>4, <2>5, <2>6, <2>7, <2>8, <2>9
       DEF Next, ConnStep, ItemStep, MessageStep, Room!RoomNext
<1> QED
  BY <1>1, <1>2, TypeCorrect, RelayInvariant, PTL
     DEF Spec, ImplementsRoom, Room!RoomSpec
-----------------------------------------------------------------------------
(* Notices                                                                 *)

\* NoticesAreStored, strengthened to the sends that have not run yet.
NoticeInv ==
    \A n \in Notices :
        /\ phase[n] = "idle" => db[n] = "idle"
        /\ \A c \in Conns :
              n \in got[c] \/ c \in targets[n] =>
                  db[n] = "stored" /\ UserOf[c] \in Participants[n]

\* A notice only reaches connections of participants, after the insert.
THEOREM NoticesAreStoredAlways == Spec => []NoticesAreStored
<1>1. Init => NoticeInv
  BY DEF Init, NoticeInv, Items
<1>2. ASSUME TypeOK, UserEntries, NoticeInv, [Next]_vars
      PROVE  NoticeInv'
  <2> USE <1>2, ConstantsAssumption
  <2>1. ASSUME UNCHANGED <<phase, db, got, targets>>
        PROVE  NoticeInv'
    BY <2>1 DEF NoticeInv
  <2>2. ASSUME NEW i \in Items, Insert(i)
        PROVE  NoticeInv'
    BY <2>2 DEF Insert, NoticeInv, TypeOK, Items
  <2>3. ASSUME NEW i \in Items, NEW p \in Conns, Send(i, p)
        PROVE  NoticeInv'
    <3>1. UNCHANGED <<phase, db>>
      BY <2>3 DEF Send
    <3>2. ASSUME NEW n \in Notices, NEW c \in Conns,
                 n \in got'[c] \/ c \in targets'[n]
          PROVE  n \in got[c] \/ c \in targets[n]
      BY <2>3, <3>2 DEF Send, TypeOK, Items
    <3> QED
      BY <3>1, <3>2 DEF NoticeInv
  <2>4. ASSUME NEW m \in Msgs,
               \/ AckSender(m) \/ RelayLookup(m) \/ RelayRange(m)
               \/ RelaySpawn(m) \/ DispatchMessage(m)
        PROVE  NoticeInv'
    <3>1. /\ UNCHANGED got
          /\ \A n \in Notices : /\ phase'[n] = phase[n]
                                /\ db'[n] = db[n]
                                /\ targets'[n] = targets[n]
      BY <2>4 DEF AckSender, RelayLookup, RelayRange, RelaySpawn,
         DispatchMessage, TypeOK, Items
    <3> QED
      BY <3>1 DEF NoticeInv
  <2>5. ASSUME NEW n \in Notices, NotifyLookup(n)
        PROVE  NoticeInv'
    <3>1. \A c \in Conns : c \in targets'[n] => UserOf[c] \in Participants[n]
      BY <2>5 DEF NotifyLookup, UserEntries, TypeOK, Items
    <3> QED
      BY <2>5, <3>1 DEF NotifyLookup, NoticeInv, TypeOK, Items
  <2>6. ASSUME NEW n \in Notices, DispatchNotice(n)
        PROVE  NoticeInv'
    BY <2>6 DEF DispatchNotice, NoticeInv, TypeOK, Items
  <2>7. CASE MapFault \/ UNCHANGED vars
    BY <2>1, <2>7 DEF MapFault, vars, traffic
  <2> QED
    BY <2>1, <2>2, <2>3, <2>4, <2>5, <2>6, <2>7, ConnStepsKeepTraffic
       DEF Next, ItemStep, MessageStep, traffic
<1>3. NoticeInv => NoticesAreStored
  BY DEF NoticeInv, NoticesAreStored
<1>4. RegistryInv => UserEntries
  BY DEF RegistryInv
<1> QED
  BY <1>1, <1>2, <1>3, <1>4, TypeCorrect, RegistryInvariant, PTL DEF Spec
=============================================================================
