----------------------------- MODULE Signaling ------------------------------
(***************************************************************************)
(* One connection (a UserCtx of src/src/ws/uc/user-ctx.go) and everything  *)
(* that shares its two mutexes: the goroutines that handle its WebRTC      *)
(* signaling items (handleWebRTCMessage), the goroutines that write chat   *)
(* frames to it (WriteJSONSafely), and the read loop, which ends with      *)
(* SafeClose.                                                              *)
(*                                                                         *)
(* A critical section that cannot block is one step guarded by the mutex   *)
(* being free.  Two are not: SafeClose takes webrtcPCsMtx inside Mtx, and  *)
(* GetOrCreatePeerConnection takes webrtcPCsMtx inside webrtcPCsMtx.  The  *)
(* WebRTC library is external: creating a peer connection may fail, using  *)
(* one may fail, and its callbacks need a stored remote description, which *)
(* no execution gets to.                                                   *)
(***************************************************************************)
EXTENDS Naturals

CONSTANTS Handlers,  \* goroutines of webrtc-signaling items
          Writers,   \* goroutines that write a chat frame to the connection
          Calls,     \* call ids
          Kind,      \* Kind[h]: the type of the item
          Call,      \* Call[h]: its callId
          Reader,    \* the goroutine of the read loop
          Free       \* a mutex is not held

Kinds == {"offer", "answer", "ice", "close", "data", "other"}

ASSUME SignalingAssumption ==
    /\ Kind \in [Handlers -> Kinds]
    /\ Call \in [Handlers -> Calls]
    /\ Handlers \cap Writers = {}
    /\ Free \notin Handlers \cup {Reader}

VARIABLES
    Mtx,           \* who holds uc.Mtx between steps
    webrtcPCsMtx,  \* who holds uc.webrtcPCsMtx between steps
    webrtcPCs,     \* calls that have a peer connection
    reader,        \* where the read loop is
    at,            \* where the goroutine of a signaling item is
    write,         \* where the goroutine of a chat frame is
    sent           \* goroutines whose frame went out

vars == <<Mtx, webrtcPCsMtx, webrtcPCs, reader, at, write, sent>>

TypeOK ==
    /\ Mtx \in {Reader, Free}
    /\ webrtcPCsMtx \in Handlers \cup {Free}
    /\ webrtcPCs \subseteq Calls
    /\ reader \in {"reading", "closing", "closingPCs", "closed"}
    /\ at \in [Handlers -> {"idle", "lookup", "create", "relock", "remove",
                            "reply", "done"}]
    /\ write \in [Writers -> {"idle", "waiting", "done"}]
    /\ sent \subseteq Handlers \cup Writers

Init ==
    /\ Mtx = Free
    /\ webrtcPCsMtx = Free
    /\ webrtcPCs = {}
    /\ reader = "reading"
    /\ at = [h \in Handlers |-> "idle"]
    /\ write = [w \in Writers |-> "idle"]
    /\ sent = {}

-----------------------------------------------------------------------------
(* Signaling items                                                         *)

Goto(h, l) == at' = [at EXCEPT ![h] = l]

\* The read loop starts a goroutine for the item and goes on.
Dispatch(h) ==
    /\ reader = "reading"
    /\ at[h] = "idle"
    /\ Goto(h, "lookup")
    /\ UNCHANGED <<Mtx, webrtcPCsMtx, webrtcPCs, reader, write, sent>>

\* What a handler may do next once it knows whether its call has a peer
\* connection.  An item that names no call, a malformed one and every error
\* is answered with an error frame, a candidate that is taken is not answered.
AfterLookup(h, pcExists) ==
    CASE Kind[h] = "offer"  -> IF pcExists THEN {"reply"} ELSE {"create", "reply"}
      [] Kind[h] = "answer" -> IF pcExists THEN {"reply", "done"} ELSE {"reply"}
      [] Kind[h] = "ice"    -> IF pcExists THEN {"reply", "done"} ELSE {"reply"}
      [] Kind[h] = "close"  -> {"remove", "reply"}
      [] OTHER              -> {"reply"}

\* pc, pcExists := uc.webrtcPCs[callId] under webrtcPCsMtx, used after it.
Lookup(h) ==
    /\ at[h] = "lookup"
    /\ webrtcPCsMtx = Free
    /\ \E l \in AfterLookup(h, Call[h] \in webrtcPCs) : Goto(h, l)
    /\ UNCHANGED <<Mtx, webrtcPCsMtx, webrtcPCs, reader, write, sent>>

\* Fault (a repair, in fact): the peer connection is stored under the lock
\* that is held already.
GetOrCreateStores(h) ==
    /\ at[h] = "create"
    /\ webrtcPCsMtx = Free
    /\ webrtcPCs' = webrtcPCs \cup {Call[h]}
    /\ Goto(h, "reply")
    /\ UNCHANGED <<Mtx, webrtcPCsMtx, reader, write, sent>>

\* Fault: the error is answered before webrtcPCsMtx is released.
GetOrCreateRepliesLocked(h) ==
    /\ at[h] = "create"
    /\ webrtcPCsMtx = Free
    /\ webrtcPCsMtx' = h
    /\ \/ Call[h] \notin webrtcPCs /\ Goto(h, "relock")
       \/ Goto(h, "reply")
    /\ UNCHANGED <<Mtx, webrtcPCs, reader, write, sent>>

\* GetOrCreatePeerConnection locks webrtcPCsMtx until it returns.  It returns
\* with the peer connection another handler stored meanwhile or with an
\* error.  With a new one it calls webrtcPCsMtx.Lock() again to store it: at
\* "relock" the handler waits for itself.
GetOrCreate(h) ==
    /\ at[h] = "create"
    /\ webrtcPCsMtx = Free
    /\ \/ Call[h] \notin webrtcPCs /\ webrtcPCsMtx' = h /\ Goto(h, "relock")
       \/ UNCHANGED webrtcPCsMtx /\ Goto(h, "reply")
    /\ UNCHANGED <<Mtx, webrtcPCs, reader, write, sent>>

\* RemovePeerConnection.
Remove(h) ==
    /\ at[h] = "remove"
    /\ webrtcPCsMtx = Free
    /\ webrtcPCs' = webrtcPCs \ {Call[h]}
    /\ Goto(h, "done")
    /\ UNCHANGED <<Mtx, webrtcPCsMtx, reader, write, sent>>

\* WriteJSONSafely: one frame under Mtx, unless the connection is closed or
\* the write fails.
WriteJSONSafely(x) ==
    /\ Mtx = Free
    /\ \/ reader # "closed" /\ sent' = sent \cup {x}
       \/ UNCHANGED sent

\* Fault: the handler keeps Mtx after its frame.
ReplyKeepsMtx(h) ==
    /\ at[h] = "reply"
    /\ WriteJSONSafely(h)
    /\ Mtx' = h
    /\ Goto(h, "done")
    /\ UNCHANGED <<webrtcPCsMtx, webrtcPCs, reader, write>>

\* The handler ends with an answer, an acknowledgement or an error frame.
Reply(h) ==
    /\ at[h] = "reply"
    /\ WriteJSONSafely(h)
    /\ Goto(h, "done")
    /\ UNCHANGED <<Mtx, webrtcPCsMtx, webrtcPCs, reader, write>>

-----------------------------------------------------------------------------
(* Chat frames and the read loop                                           *)

\* A goroutine of the service starts to write to the connection.
StartWrite(w) ==
    /\ write[w] = "idle"
    /\ write' = [write EXCEPT ![w] = "waiting"]
    /\ UNCHANGED <<Mtx, webrtcPCsMtx, webrtcPCs, reader, at, sent>>

FinishWrite(w) ==
    /\ write[w] = "waiting"
    /\ WriteJSONSafely(w)
    /\ write' = [write EXCEPT ![w] = "done"]
    /\ UNCHANGED <<Mtx, webrtcPCsMtx, webrtcPCs, reader, at>>

\* ReadMessage fails or the peer closes: the deferred cleanup starts.
ReadEnds ==
    /\ reader = "reading"
    /\ reader' = "closing"
    /\ UNCHANGED <<Mtx, webrtcPCsMtx, webrtcPCs, at, write, sent>>

\* SafeClose takes Mtx, and keeps it to its end.
SafeCloseEnter ==
    /\ reader = "closing"
    /\ Mtx = Free
    /\ Mtx' = Reader
    /\ reader' = "closingPCs"
    /\ UNCHANGED <<webrtcPCsMtx, webrtcPCs, at, write, sent>>

\* Fault: the peer connections are closed without webrtcPCsMtx.
SafeCloseIgnoresLock ==
    /\ reader = "closingPCs"
    /\ webrtcPCs' = {}
    /\ Mtx' = Free
    /\ reader' = "closed"
    /\ UNCHANGED <<webrtcPCsMtx, at, write, sent>>

\* Fault: SafeClose returns early and leaves Mtx locked.
SafeCloseKeepsMtx ==
    /\ reader = "closingPCs"
    /\ webrtcPCsMtx = Free
    /\ webrtcPCs' = {}
    /\ reader' = "closed"
    /\ UNCHANGED <<Mtx, webrtcPCsMtx, at, write, sent>>

\* It closes and forgets the peer connections under webrtcPCsMtx, closes the
\* socket and releases Mtx.
SafeCloseFinish ==
    /\ reader = "closingPCs"
    /\ webrtcPCsMtx = Free
    /\ webrtcPCs' = {}
    /\ Mtx' = Free
    /\ reader' = "closed"
    /\ UNCHANGED <<webrtcPCsMtx, at, write, sent>>

-----------------------------------------------------------------------------
HandlerStep(h) == Lookup(h) \/ GetOrCreate(h) \/ Remove(h) \/ Reply(h)
CloseStep == SafeCloseEnter \/ SafeCloseFinish

Next ==
    \/ \E h \in Handlers : HandlerStep(h) \/ Dispatch(h)
    \/ \E w \in Writers : StartWrite(w) \/ FinishWrite(w)
    \/ CloseStep
    \/ ReadEnds

Spec == Init /\ [][Next]_vars

\* Runnable goroutines run, and a mutex that stays free is taken by one that
\* waits for it.  Items, chat frames and the end of the connection may never
\* come.
FairSpec ==
    /\ Spec
    /\ \A h \in Handlers : WF_vars(HandlerStep(h))
    /\ \A w \in Writers : WF_vars(FinishWrite(w))
    /\ WF_vars(CloseStep)

-----------------------------------------------------------------------------
(* Properties                                                              *)

\* A handler waits for the webrtcPCsMtx it holds.
Stuck == \E h \in Handlers : at[h] = "relock"

\* SafeClose holds Mtx and waits for webrtcPCsMtx, so whoever holds
\* webrtcPCsMtx must not wait for Mtx: no handler answers under webrtcPCsMtx.
LocksNotCrossed ==
    \A h \in Handlers :
        ~(Mtx = Reader /\ webrtcPCsMtx = h /\ at[h] = "reply")

\* The first offer of every call stops at the second lock, so no peer
\* connection is ever stored; webrtcPCsMtx is held by a stuck handler only.
NoCallConnects ==
    /\ webrtcPCs = {}
    /\ \A h \in Handlers : webrtcPCsMtx = h <=> at[h] = "relock"

\* The two mutexes deadlock in no other way: without a stuck offer webrtcPCsMtx is
\* free, and Mtx is free or held by a SafeClose that can finish; a stuck offer alone
\* does not take Mtx away from those who write (user-ctx.go:102, :410).
MutexesComeFree ==
    /\ webrtcPCsMtx = Free \/ Stuck
    /\ Mtx = Free \/ reader = "closingPCs"

\* A stuck offer pins its connection: from then on SafeClose cannot finish,
\* and the connection stays open and in the maps of the service.
StuckPinsConnection ==
    [][Stuck /\ reader # "closed" => Stuck' /\ reader' # "closed"]_vars

\* Before the connection ends, a stuck offer does not stop chat: a frame waits at
\* most until SafeClose meets the stuck offer.
WritersFinish ==
    \A w \in Writers :
        write[w] = "waiting"
        ~> (write[w] = "done" \/ (Stuck /\ reader = "closingPCs"))
HandlersFinish ==
    \A h \in Handlers : at[h] = "lookup" ~> (at[h] = "done" \/ Stuck)
CloseFinishes == reader = "closing" ~> (reader = "closed" \/ Stuck)

\* The two mutexes of a connection (user-ctx.go:102 takes them one inside the
\* other) deadlock in no other way than by a stuck offer: every frame is
\* written, every item handled and every connection closed otherwise.
MutexesServe == WritersFinish /\ HandlersFinish /\ CloseFinishes

\* "Store the new PeerConnection in the map" (the comment at the second
\* lock): a handler that creates a peer connection stores it, or answers.
OfferConnects ==
    \A h \in Handlers :
        at[h] = "create" ~> (Call[h] \in webrtcPCs \/ at[h] = "done")
=============================================================================
