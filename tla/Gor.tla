--------------------------------- MODULE Gor --------------------------------
(***************************************************************************)
(* The tracker of goroutines, src/common/gor/gor.go, as service.go uses    *)
(* it: ServeHTTP starts the read loop of a connection with Gor             *)
(* (service.go:1790), and the read loop starts with Gor a second function  *)
(* that sends the ListeningAck (service.go:559).                           *)
(*                                                                         *)
(* One mutex guards the map of tracked goroutines.  The function that Gor  *)
(* defers locks it, and calls CloseOut, which receives from the timer's    *)
(* channel when Stop returns false.  With the timers of Go 1.23 and later  *)
(* (go.mod asks for 1.24) it does so only when the tick was received: Stop *)
(* takes back one that was not, and returns true.  So the receive waits    *)
(* for ever, with the mutex, and nothing else can come of it.  The         *)
(* ListeningAck function receives the tick when the signal of the read     *)
(* loop comes too late.  (The mutex of a GorInfo is used by its own        *)
(* function only and is left out.)                                         *)
(***************************************************************************)
EXTENDS Naturals, FiniteSets

CONSTANTS Conns  \* the connections

Fns == {"read", "ack"}   \* the functions of a connection that are tracked

VARIABLES
  up,            \* the process runs
  mtx,           \* the holder of the mutex of the map between two steps, or <<>>
  tracked,       \* goroutinesMap
  fn,            \* function -> where it is
  timer,         \* function -> its timer
  signal,        \* connection -> readStartSignal: has the read loop sent it?
  monitors       \* functions that have a monitoring goroutine

vars == <<up, mtx, tracked, fn, timer, signal, monitors>>
All == Conns \X Fns

TypeOK ==
  /\ up \in BOOLEAN
  /\ mtx \in All \cup {<<>>}
  /\ tracked \subseteq All
  /\ fn \in [All -> {"new", "calling", "running", "panics", "ended", "drain", "done"}]
  /\ timer \in [All -> {"armed", "fired", "received", "gone"}]
  /\ signal \in [Conns -> BOOLEAN]
  /\ monitors \subseteq All

Init ==
  /\ up = TRUE
  /\ mtx = <<>>
  /\ tracked = {}
  /\ fn = [g \in All |-> "new"]
  /\ timer = [g \in All |-> "gone"]
  /\ signal = [c \in Conns |-> FALSE]
  /\ monitors = {}

FnTo(g, from, to) == up /\ fn[g] = from /\ fn' = [fn EXCEPT ![g] = to]

-----------------------------------------------------------------------------
\* ServeHTTP, and then the read loop, call Gor.
Call(g) ==
  /\ FnTo(g, "new", "calling")
  /\ g[2] = "ack" => fn[<<g[1], "read">>] = "running"
  /\ UNCHANGED <<up, mtx, tracked, timer, signal, monitors>>

\* Gor: the entry in the map, a timer of 30 s, the two goroutines.  The function
\* begins with UpdateLastActive, which sets the timer again.  The monitoring
\* goroutine looks at the entry under the mutex, every 15 s and for ever: its
\* return statements leave the inner function only.
Gor(g) ==
  /\ FnTo(g, "calling", "running")
  /\ mtx = <<>>
  /\ tracked' = tracked \cup {g}
  /\ timer' = [timer EXCEPT ![g] = "armed"]
  /\ monitors' = monitors \cup {g}
  /\ UNCHANGED <<up, mtx, signal>>

Fire(g) ==
  /\ up /\ timer[g] = "armed"
  /\ timer' = [timer EXCEPT ![g] = "fired"]
  /\ UNCHANGED <<up, mtx, tracked, fn, signal, monitors>>

\* A round of the read loop, after its call of Gor has returned:
\* UpdateLastActive resets the timer, which takes back a tick nobody received, and
\* the signal is sent once.
Round(c) ==
  /\ up /\ fn[<<c, "read">>] = "running"
  /\ fn[<<c, "ack">>] \notin {"new", "calling"}
  /\ timer' = [timer EXCEPT ![<<c, "read">>] = "armed"]
  /\ signal' = [signal EXCEPT ![c] = TRUE]
  /\ UNCHANGED <<up, mtx, tracked, fn, monitors>>

\* The function ends; it may panic.
ReadEnds(c) ==
  /\ signal[c]
  /\ \E to \in {"ended", "panics"} : FnTo(<<c, "read">>, "running", to)
  /\ UNCHANGED <<up, mtx, tracked, timer, signal, monitors>>

\* The select of the ListeningAck function: the signal, and a write that may wait for
\* ever; or the tick.
AckSignalled(c) ==
  /\ signal[c]
  /\ FnTo(<<c, "ack">>, "running", "ended")
  /\ UNCHANGED <<up, mtx, tracked, timer, signal, monitors>>
AckTimesOut(c) ==
  /\ timer[<<c, "ack">>] = "fired"
  /\ timer' = [timer EXCEPT ![<<c, "ack">>] = "received"]
  /\ FnTo(<<c, "ack">>, "running", "ended")
  /\ UNCHANGED <<up, mtx, tracked, signal, monitors>>

\* After a panic the deferred function has run, and nothing recovers.
AfterClose(g) ==
  /\ mtx' = <<>>
  /\ tracked' = tracked \ {g}
  /\ fn' = [fn EXCEPT ![g] = "done"]
  /\ UNCHANGED <<signal, monitors>>

\* Fault: CloseOut receives from the channel whatever Stop returns.
CloseOutDrainsAlways(g) ==
  /\ up /\ mtx = <<>> /\ fn[g] \in {"ended", "panics"}
  /\ mtx' = g
  /\ fn' = [fn EXCEPT ![g] = "drain"]
  /\ UNCHANGED <<up, tracked, timer, signal, monitors>>

\* The deferred function: CloseOut stops a timer whose tick nobody has received;
\* else it waits for another tick.
CloseOut(g) ==
  /\ up /\ mtx = <<>> /\ fn[g] \in {"ended", "panics"}
  /\ \/ /\ timer[g] # "received"
        /\ timer' = [timer EXCEPT ![g] = "gone"]
        /\ AfterClose(g)
        /\ up' = (fn[g] # "panics")
     \/ /\ timer[g] = "received"
        /\ mtx' = g
        /\ fn' = [fn EXCEPT ![g] = "drain"]
        /\ UNCHANGED <<up, tracked, timer, signal, monitors>>

-----------------------------------------------------------------------------
Next ==
  \/ \E g \in All : Call(g) \/ Gor(g) \/ Fire(g) \/ CloseOut(g)
  \/ \E c \in Conns : Round(c) \/ ReadEnds(c) \/ AckSignalled(c) \/ AckTimesOut(c)

Spec == Init /\ [][Next]_vars

\* Goroutines run, and get the mutex: between two steps it is held by a CloseOut
\* that waits, or by nobody.  ServeHTTP need not call Gor, a client may stay, and the
\* write of the ListeningAck need not end.
Fairness ==
  /\ \A c \in Conns :
       WF_vars(Call(<<c, "ack">>)) /\ WF_vars(Round(c))
  /\ \A g \in All : WF_vars(Gor(g)) /\ WF_vars(CloseOut(g))
FairSpec == Spec /\ Fairness

-----------------------------------------------------------------------------
\* The map has the functions that run, or that have ended and not been closed out
\* (gor.go:101, :138): no entry outlives its function and none is lost, whatever the
\* timers do meanwhile.
TrackedExactly ==
  tracked = {g \in All : fn[g] \in {"running", "panics", "ended", "drain"}}

\* The one way to wedge the mutex: CloseOut of a ListeningAck function whose select
\* has taken the tick of its timer (service.go:559, gor.go:73).
MutexExplained ==
  mtx # <<>> => \E c \in Conns : /\ mtx = <<c, "ack">>
                                 /\ fn[mtx] = "drain" /\ timer[mtx] = "received"

\* Every caller of Gor gets its goroutine and every goroutine that ends leaves the
\* map, unless a ListeningAck function has received its own tick: then CloseOut
\* keeps the mutex (gor.go:73), and the process must not need the tracker again.
Wedged == \E c \in Conns : fn[<<c, "ack">>] = "drain" /\ timer[<<c, "ack">>] = "received"
TrackerServes ==
  \A g \in All : fn[g] \in {"calling", "ended"} ~> fn[g] \in {"running", "done"} \/ Wedged \/ ~up
=============================================================================
