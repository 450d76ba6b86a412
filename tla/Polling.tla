------------------------------ MODULE Polling -------------------------------
(***************************************************************************)
(* One poll of stored messages over a WebSocket connection, of either      *)
(* kind: "convs" is getAllMessagesForParticularChats, one query over the   *)
(* conversations the client names; "all" is                                *)
(* getMongoMessagesForAllChatsByUser, one query for the rows that link the *)
(* user to a conversation and, for each row, a goroutine that queries the  *)
(* messages of its conversation, with a limiter channel.  Both read their  *)
(* rows through CursorCallbackByRow, which logs every error and returns.   *)
(*                                                                         *)
(* Messages are numbered in the order of CreatedAt.  A frame goes out with *)
(* WriteJSONSafely, which waits for uc.Mtx; the frame is lost when the     *)
(* connection is closed, and may be lost at any time, for a write may      *)
(* fail.  A cursor may end early, at an error or at its limit of 5000      *)
(* rows, and a row that cannot be decoded is passed over.                  *)
(*                                                                         *)
(* uc.Mtx may be held for ever: by SafeClose, when an offer of the         *)
(* connection is stuck with webrtcPCsMtx (module Signaling), or by a write *)
(* to a peer that has stopped reading, for no write has a deadline.        *)
(*                                                                         *)
(* Two rows may link the user to one conversation: removeUserFromChat does *)
(* not mark the row of a removed user but adds another one, and the query  *)
(* for the rows selects by user only.                                      *)
(***************************************************************************)
EXTENDS Naturals, Sequences

CONSTANTS Chats,   \* conversations of the user; the ones a "convs" poll names
          Rows,    \* rows that link the user to a conversation
          RowChat, \* RowChat[r]: the conversation of row r
          Last,    \* number of stored messages
          ChatOf,  \* ChatOf[m]: the conversation of message m
          Cap,     \* capacity of the limiter channel, 5 in the code
          Merged,  \* the query of a "convs" poll
          Done     \* the completion frame

Messages == 1..Last
Queries == Rows \cup {Merged}
Docs(q) == IF q = Merged THEN Messages
           ELSE {m \in Messages : ChatOf[m] = RowChat[q]}
Frames == (Queries \X Messages) \cup {Done}

ASSUME PollingAssumption ==
    /\ Last \in Nat
    /\ ChatOf \in [Messages -> Chats]
    /\ RowChat \in [Rows -> Chats]
    /\ Cap \in Nat \ {0}
    /\ Merged \notin Rows
    /\ Done \notin Queries \X Messages

VARIABLES
    kind,    \* "all" or "convs"
    main,    \* where the goroutine of the poll is
    todo,    \* rows its cursor has not returned
    slots,   \* elements in the limiter channel
    filled,  \* turns of the loop that fills the limiter
    fetch,   \* fetch[q]: where the cursor of a query for messages is
    pos,     \* pos[q]: the last message that cursor returned
    conn,    \* the read loop reads, has left, or SafeClose is over
    pinned,  \* uc.Mtx is held for ever
    frames,  \* what the client has received, each with its query, in order
    failed   \* history: queries cut short, or with a row or a frame lost

pollVars == <<kind, main, todo, slots, filled>>
connVars == <<conn, pinned>>
vars == <<pollVars, fetch, pos, connVars, frames, failed>>

TypeOK ==
    /\ kind \in {"all", "convs"}
    /\ main \in {"find", "rows", "held", "fetching", "fill", "complete",
                "completing", "end"}
    /\ todo \subseteq Rows
    /\ slots \in 0..Cap
    /\ filled \in 0..Cap
    /\ fetch \in [Queries -> {"none", "find", "rows", "write", "over"}]
    /\ pos \in [Queries -> 0..Last]
    /\ conn \in {"open", "left", "closed"}
    /\ pinned \in BOOLEAN
    /\ frames \in Seq(Frames)
    /\ failed \subseteq Queries

Init ==
    /\ kind \in {"all", "convs"}
    /\ main = "find"
    /\ todo = Rows
    /\ slots = 0
    /\ filled = 0
    /\ fetch = [q \in Queries |-> "none"]
    /\ pos = [q \in Queries |-> 0]
    /\ conn = "open"
    /\ pinned = FALSE
    /\ frames = <<>>
    /\ failed = {}

\* The frame reaches the peer: WriteJSONSafely has taken uc.Mtx, finds IsConnClosed
\* clear (the read loop sets it without the mutex as it leaves, SafeClose with it), and
\* the write succeeds.
Write(f) == /\ ~pinned
            /\ conn # "closed"
            /\ frames' = Append(frames, f)

\* WriteJSONSafely has taken uc.Mtx and returns an error: the connection is closed,
\* or the write fails.
WriteFails == ~pinned /\ UNCHANGED frames

-----------------------------------------------------------------------------
(* CursorCallbackByRow over messages                                       *)

\* Find returns a cursor, or an error.
Find(q) ==
    /\ fetch[q] = "find"
    /\ \/ fetch' = [fetch EXCEPT ![q] = "rows"] /\ UNCHANGED failed
       \/ fetch' = [fetch EXCEPT ![q] = "over"] /\ failed' = failed \cup {q}
    /\ UNCHANGED <<pollVars, pos, connVars, frames>>

\* m is the next message of the query in the order of CreatedAt.
IsNext(q, m) ==
    /\ m \in Docs(q)
    /\ m > pos[q]
    /\ \A j \in Docs(q) : j > pos[q] => m <= j

\* The callback is about to send the row, or the row is not sent: it does not decode,
\* or IsConnClosed is set.
Deliver(q) ==
    \/ fetch' = [fetch EXCEPT ![q] = "write"] /\ UNCHANGED failed
    \/ UNCHANGED fetch /\ failed' = failed \cup {q}

\* Fault: the query does not sort, so any message may be next.
RowUnsorted(q) ==
    /\ fetch[q] = "rows"
    /\ \E m \in Docs(q) : m # pos[q] /\ pos' = [pos EXCEPT ![q] = m]
    /\ Deliver(q)
    /\ UNCHANGED <<pollVars, connVars, frames>>

Row(q) ==
    /\ fetch[q] = "rows"
    /\ \E m \in Docs(q) : IsNext(q, m) /\ pos' = [pos EXCEPT ![q] = m]
    /\ Deliver(q)
    /\ UNCHANGED <<pollVars, connVars, frames>>

\* The callback sends the row.  It goes on when the write fails.
Send(q) ==
    /\ fetch[q] = "write"
    /\ \/ Write(<<q, pos[q]>>) /\ UNCHANGED failed
       \/ WriteFails /\ failed' = failed \cup {q}
    /\ fetch' = [fetch EXCEPT ![q] = "rows"]
    /\ UNCHANGED <<pollVars, pos, connVars>>

\* The cursor is exhausted, or it fails or meets its limit before.
CursorEnds(q) ==
    /\ fetch[q] = "rows"
    /\ fetch' = [fetch EXCEPT ![q] = "over"]
    /\ failed' = IF \E m \in Docs(q) : m > pos[q] THEN failed \cup {q}
                                                 ELSE failed
    /\ UNCHANGED <<pollVars, pos, connVars, frames>>

-----------------------------------------------------------------------------
(* The goroutine of a "convs" poll                                         *)

\* Its own query runs in the same goroutine.
FetchConvs ==
    /\ kind = "convs"
    /\ main = "find"
    /\ main' = "fetching"
    /\ fetch' = [fetch EXCEPT ![Merged] = "find"]
    /\ UNCHANGED <<kind, todo, slots, filled, pos, connVars, frames, failed>>

\* Fault: the query runs in a goroutine of its own.
ConvsFetchedEarly ==
    /\ main = "fetching"
    /\ main' = "complete"
    /\ UNCHANGED <<kind, todo, slots, filled, fetch, pos, connVars, frames,
                   failed>>

ConvsFetched ==
    /\ main = "fetching"
    /\ fetch[Merged] = "over"
    /\ main' = "complete"
    /\ UNCHANGED <<kind, todo, slots, filled, fetch, pos, connVars, frames,
                   failed>>

-----------------------------------------------------------------------------
(* The goroutine of an "all" poll                                          *)

\* The query for the rows of the user returns a cursor or an error.
FindChats ==
    /\ kind = "all"
    /\ main = "find"
    /\ main' \in {"rows", "fill"}
    /\ UNCHANGED <<kind, todo, slots, filled, fetch, pos, connVars, frames,
                   failed>>

\* The callback of a row takes a slot, and blocks when the limiter is full.
AcquireSlot(r) ==
    /\ main = "rows"
    /\ r \in todo
    /\ slots < Cap
    /\ todo' = todo \ {r}
    /\ slots' = slots + 1
    /\ main' = "held"
    /\ \/ fetch' = [fetch EXCEPT ![r] = "find"]  \* go func
       \/ UNCHANGED fetch           \* seen to be closed, or no valid ChatId
    /\ UNCHANGED <<kind, filled, pos, connVars, frames, failed>>

\* Fault (the intention, in fact): a fetch that was started keeps the slot.
ReleaseSlotUnlessFetching ==
    /\ main = "held"
    /\ slots' = IF \E r \in Rows : fetch[r] = "find" THEN slots ELSE slots - 1
    /\ main' = "rows"
    /\ UNCHANGED <<kind, todo, filled, fetch, pos, connVars, frames,
                   failed>>

\* Fault: the slot is released by the callback and by its deferred function.
ReleaseSlotTwice ==
    /\ main = "held"
    /\ slots' = slots - 2
    /\ main' = "rows"
    /\ UNCHANGED <<kind, todo, filled, fetch, pos, connVars, frames,
                   failed>>

\* The deferred function of the callback frees the slot when the callback
\* returns, whether or not it has started a fetch.
ReleaseSlot ==
    /\ main = "held"
    /\ slots' = slots - 1
    /\ main' = "rows"
    /\ UNCHANGED <<kind, todo, filled, fetch, pos, connVars, frames,
                   failed>>

\* The cursor over the rows is exhausted, or fails.
ChatsEnd ==
    /\ main = "rows"
    /\ main' = "fill"
    /\ UNCHANGED <<kind, todo, slots, filled, fetch, pos, connVars, frames,
                   failed>>

\* for i := 0; i < cap(limiter); i++ { limiter <- struct{}{} }
FillSlot ==
    /\ main = "fill"
    /\ filled < Cap
    /\ slots < Cap
    /\ slots' = slots + 1
    /\ filled' = filled + 1
    /\ UNCHANGED <<kind, main, todo, fetch, pos, connVars, frames,
                   failed>>

\* Fault: the loop runs once more, i <= cap(limiter).
LimiterFullOneMore ==
    /\ main = "fill"
    /\ filled = Cap + 1
    /\ main' = "complete"
    /\ UNCHANGED <<kind, todo, slots, filled, fetch, pos, connVars, frames,
                   failed>>

LimiterFull ==
    /\ main = "fill"
    /\ filled = Cap
    /\ main' = "complete"
    /\ UNCHANGED <<kind, todo, slots, filled, fetch, pos, connVars, frames,
                   failed>>

-----------------------------------------------------------------------------
\* The completion frame, "done" or "done_all", is sent unless IsConnClosed is set.  It
\* is read without the mutex under which it may be written, so once the read loop has
\* left either value may be read.
Complete ==
    /\ main = "complete"
    /\ \/ main' = "completing"
       \/ conn # "open" /\ main' = "end"
    /\ UNCHANGED <<kind, todo, slots, filled, fetch, pos, connVars, frames,
                   failed>>

SendDone ==
    /\ main = "completing"
    /\ Write(Done) \/ WriteFails
    /\ main' = "end"
    /\ UNCHANGED <<kind, todo, slots, filled, fetch, pos, connVars, failed>>

-----------------------------------------------------------------------------
(* The connection, meanwhile                                               *)

\* The read loop leaves: ReadMessage fails.
ReadEnds ==
    /\ conn = "open"
    /\ conn' = "left"
    /\ UNCHANGED <<pollVars, fetch, pos, pinned, frames, failed>>

\* The goroutine of the read loop closes the connection when the loop is over.
SafeClose ==
    /\ conn = "left"
    /\ ~pinned
    /\ conn' = "closed"
    /\ UNCHANGED <<pollVars, fetch, pos, pinned, frames, failed>>

\* uc.Mtx is not given back: SafeClose waits for a stuck offer, or a write for a
\* peer that does not read.
Pin ==
    /\ conn # "closed"
    /\ ~pinned
    /\ pinned' = TRUE
    /\ UNCHANGED <<pollVars, fetch, pos, conn, frames, failed>>

MainStep ==
    \/ FetchConvs
    \/ ConvsFetched
    \/ FindChats
    \/ \E r \in Rows : AcquireSlot(r)
    \/ ReleaseSlot
    \/ ChatsEnd
    \/ FillSlot
    \/ LimiterFull
    \/ Complete
    \/ SendDone

FetchStep(q) == Find(q) \/ Row(q) \/ Send(q) \/ CursorEnds(q)

ConnStep == ReadEnds \/ SafeClose \/ Pin

Next == MainStep \/ (\E q \in Queries : FetchStep(q)) \/ ConnStep

Spec == Init /\ [][Next]_vars

\* Runnable goroutines run, and a mutex that is given back is got.
FairSpec ==
    /\ Spec
    /\ WF_vars(MainStep)
    /\ \A q \in Queries : WF_vars(FetchStep(q))

-----------------------------------------------------------------------------
(* Properties                                                              *)

\* What one query sends arrives in the order of CreatedAt and none of it twice,
\* however the fetching goroutines interleave.  A "convs" poll, which is one query,
\* keeps that order across conversations; an "all" poll repeats a message once for
\* each further row of its conversation, and no more often.
OrderedOnce ==
    \A i, j \in 1..Len(frames) :
        (/\ i < j
         /\ frames[i] # Done
         /\ frames[j] # Done
         /\ frames[i][1] = frames[j][1]) => frames[i][2] < frames[j][2]

\* Nothing follows the completion frame.
DoneLast ==
    \A i \in 1..Len(frames) : frames[i] = Done => i = Len(frames)

Received(q) ==
    {m \in Docs(q) : \E i \in 1..Len(frames) : frames[i] = <<q, m>>}

\* When a "convs" poll says "done", it is: nothing follows.  And rows are lost by the
\* errors that CursorCallbackByRow and its callbacks log, never by the order of
\* things: a query that met none has delivered every message when it is over, which
\* for a "convs" poll is before "done".
NothingMissing ==
    /\ kind = "convs" => DoneLast
    /\ \A q \in Queries \ failed : fetch[q] = "over" => Received(q) = Docs(q)
    /\ kind = "convs" /\ main \in {"completing", "end"} => fetch[Merged] = "over"

\* The limiter never makes the goroutine of the poll wait, for which nobody else could
\* free a slot: every slot is returned before the next row is read, so it bounds
\* nothing ("Allow up to 5 concurrent chat message fetches"), and the loop that
\* fills it finds room for each of its turns.
LimiterNeverBlocks ==
    /\ main = "rows" => slots = 0
    /\ main = "fill" => filled = Cap \/ slots < Cap

\* A write of the goroutine of the poll waits for ever.
PollWaits ==
    /\ pinned
    /\ main = "completing" \/ (main = "fetching" /\ fetch[Merged] = "write")

\* A poll ends, whatever its queries do and however its connection goes, and so does
\* each of its fetches, but for one whose write waits for a mutex that is never given
\* back: nothing else stops them, filling the limiter least of all, and the goroutine
\* of an "all" poll is stopped by its own last frame only, not by its fetches.
PollEnds ==
    /\ main = "find" ~> main = "end" \/ PollWaits
    /\ \A q \in Queries :
          fetch[q] = "find" ~> fetch[q] = "over" \/ (pinned /\ fetch[q] = "write")

\* "At this point, all message fetching goroutines started by the chat
\* discovery have completed or exited early" (the comment before the
\* completion frame of an "all" poll).
FetchesOverAtCompletion ==
    main = "complete" => \A q \in Queries : fetch[q] \in {"none", "over"}
=============================================================================
