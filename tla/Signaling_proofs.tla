-------------------------- MODULE Signaling_proofs --------------------------
(***************************************************************************)
(* Theorems about Signaling, for any number of signaling items, calls and  *)
(* chat frames on a connection.                                            *)
(***************************************************************************)
EXTENDS Signaling, TLAPS

\* The connection has the right types in every reachable state.
THEOREM SignalingTypes == Spec => []TypeOK
<1>1. Init => TypeOK
  BY DEF Init, TypeOK
<1>2. ASSUME TypeOK, [Next]_vars
      PROVE  TypeOK'
  <2> USE <1>2, SignalingAssumption DEF TypeOK
  <2>1. ASSUME NEW h \in Handlers, Dispatch(h)
        PROVE  TypeOK'
    BY <2>1 DEF Dispatch, Goto
  <2>2. ASSUME NEW h \in Handlers, Lookup(h)
        PROVE  TypeOK'
    <3>1. PICK l \in AfterLookup(h, Call[h] \in webrtcPCs) : at' = [at EXCEPT ![h] = l]
      BY <2>2 DEF Lookup, Goto
    <3>2. l \in {"create", "remove", "reply", "done"}
      BY <3>1 DEF AfterLookup
    <3> QED
      BY <2>2, <3>1, <3>2 DEF Lookup
  <2>3. ASSUME NEW h \in Handlers, GetOrCreate(h)
        PROVE  TypeOK'
    BY <2>3 DEF GetOrCreate, Goto
  <2>4. ASSUME NEW h \in Handlers, Remove(h)
        PROVE  TypeOK'
    BY <2>4 DEF Remove, Goto
  <2>5. ASSUME NEW h \in Handlers, Reply(h)
        PROVE  TypeOK'
    BY <2>5 DEF Reply, WriteJSONSafely, Goto
  <2>6. ASSUME NEW w \in Writers, StartWrite(w) \/ FinishWrite(w)
        PROVE  TypeOK'
    BY <2>6 DEF StartWrite, FinishWrite, WriteJSONSafely
  <2>7. CASE CloseStep \/ ReadEnds
    BY <2>7 DEF CloseStep, SafeCloseEnter, SafeCloseFinish, ReadEnds
  <2>8. CASE UNCHANGED vars
    BY <2>8 DEF vars
  <2> QED
    BY <2>1, <2>2, <2>3, <2>4, <2>5, <2>6, <2>7, <2>8 DEF Next, HandlerStep
<1> QED
  BY <1>1, <1>2, PTL DEF Spec

\* No peer connection is ever stored, whatever items arrive in what order.
THEOREM NoCallEverConnects == Spec => []NoCallConnects
<1>1. Init => NoCallConnects
  BY SignalingAssumption DEF Init, NoCallConnects
<1>2. ASSUME TypeOK, NoCallConnects, [Next]_vars
      PROVE  NoCallConnects'
  <2> USE <1>2, SignalingAssumption DEF TypeOK, NoCallConnects
  <2>1. ASSUME NEW h \in Handlers, Dispatch(h)
        PROVE  NoCallConnects'
    BY <2>1 DEF Dispatch, Goto
  <2>2. ASSUME NEW h \in Handlers, Lookup(h)
        PROVE  NoCallConnects'
    <3>1. PICK l \in AfterLookup(h, Call[h] \in webrtcPCs) : at' = [at EXCEPT ![h] = l]
      BY <2>2 DEF Lookup, Goto
    <3>2. l # "relock"
      BY <3>1 DEF AfterLookup
    <3> QED
      BY <2>2, <3>1, <3>2 DEF Lookup
  <2>3. ASSUME NEW h \in Handlers, GetOrCreate(h)
        PROVE  NoCallConnects'
    BY <2>3 DEF GetOrCreate, Goto
  <2>4. ASSUME NEW h \in Handlers, Remove(h) \/ Reply(h)
        PROVE  NoCallConnects'
    BY <2>4 DEF Remove, Reply, Goto
  <2>5. ASSUME NEW w \in Writers, StartWrite(w) \/ FinishWrite(w)
        PROVE  NoCallConnects'
    BY <2>5 DEF StartWrite, FinishWrite
  <2>6. CASE CloseStep \/ ReadEnds
    BY <2>6 DEF CloseStep, SafeCloseEnter, SafeCloseFinish, ReadEnds
  <2>7. CASE UNCHANGED vars
    BY <2>7 DEF vars
  <2> QED
    BY <2>1, <2>2, <2>3, <2>4, <2>5, <2>6, <2>7 DEF Next, HandlerStep
<1> QED
  BY <1>1, <1>2, SignalingTypes, PTL DEF Spec

\* SafeClose and a handler never wait for each other's mutex.
THEOREM LocksNeverCrossed == Spec => []LocksNotCrossed
<1>1. NoCallConnects => LocksNotCrossed
  BY DEF NoCallConnects, LocksNotCrossed
<1> QED
  BY <1>1, NoCallEverConnects, PTL

\* Whoever holds a mutex of the connection can go on, unless an offer is stuck: the
\* handlers, the writers and SafeClose never wait for each other in a circle.
THEOREM OnlyStuckOffersBlock == Spec => []MutexesComeFree
<1>1. TypeOK /\ NoCallConnects => (webrtcPCsMtx = Free \/ Stuck)
  BY DEF TypeOK, NoCallConnects, Stuck
<1>2. DEFINE MtxOwner == Mtx = Free \/ reader = "closingPCs"
<1>3. Init => MtxOwner
  BY DEF Init
<1>4. ASSUME TypeOK, MtxOwner, [Next]_vars
      PROVE  MtxOwner'
  <2> USE <1>4
  <2>1. ASSUME NEW h \in Handlers, HandlerStep(h) \/ Dispatch(h)
        PROVE  MtxOwner'
    BY <2>1 DEF HandlerStep, Dispatch, Lookup, GetOrCreate, Remove, Reply
  <2>2. ASSUME NEW w \in Writers, StartWrite(w) \/ FinishWrite(w)
        PROVE  MtxOwner'
    BY <2>2 DEF StartWrite, FinishWrite
  <2>3. CASE CloseStep \/ ReadEnds
    BY <2>3 DEF CloseStep, SafeCloseEnter, SafeCloseFinish, ReadEnds
  <2>4. CASE UNCHANGED vars
    BY <2>4 DEF vars
  <2> QED
    BY <2>1, <2>2, <2>3, <2>4 DEF Next
<1>5. Spec => []MtxOwner
  BY <1>3, <1>4, SignalingTypes, PTL DEF Spec
<1>6. MtxOwner => (Mtx = Free \/ reader = "closingPCs")
  OBVIOUS
<1>7. /\ webrtcPCsMtx = Free \/ Stuck
      /\ Mtx = Free \/ reader = "closingPCs"
      => MutexesComeFree
  BY DEF MutexesComeFree
<1> QED
  BY <1>1, <1>5, <1>6, <1>7, SignalingTypes, NoCallEverConnects, PTL

\* A connection with a stuck offer is never closed.
THEOREM StuckIsFinal == Spec => StuckPinsConnection
<1>1. ASSUME TypeOK, NoCallConnects, [Next]_vars, Stuck, reader # "closed"
      PROVE  Stuck' /\ reader' # "closed"
  <2>1. PICK s \in Handlers : at[s] = "relock" /\ webrtcPCsMtx = s
    BY <1>1 DEF Stuck, NoCallConnects
  <2>2. webrtcPCsMtx # Free
    BY <2>1, SignalingAssumption
  <2>3. ASSUME NEW h \in Handlers, HandlerStep(h) \/ Dispatch(h)
        PROVE  at'[s] = "relock" /\ reader' = reader
    BY <1>1, <2>1, <2>2, <2>3
       DEF HandlerStep, Dispatch, Lookup, GetOrCreate, Remove, Reply, Goto, TypeOK
  <2>4. ASSUME NEW w \in Writers, StartWrite(w) \/ FinishWrite(w)
        PROVE  at'[s] = "relock" /\ reader' = reader
    BY <2>1, <2>4 DEF StartWrite, FinishWrite
  <2>5. CASE CloseStep \/ ReadEnds
    BY <2>1, <2>2, <2>5
       DEF CloseStep, SafeCloseEnter, SafeCloseFinish, ReadEnds, Stuck
  <2>6. CASE UNCHANGED vars
    BY <1>1, <2>6 DEF vars, Stuck
  <2> QED
    BY <1>1, <2>3, <2>4, <2>5, <2>6 DEF Next, Stuck
<1>2. ASSUME TypeOK, NoCallConnects, [Next]_vars
      PROVE  [Stuck /\ reader # "closed" => Stuck' /\ reader' # "closed"]_vars
  BY <1>1, <1>2
<1> QED
  BY <1>2, SignalingTypes, NoCallEverConnects, PTL DEF Spec, StuckPinsConnection
=============================================================================
