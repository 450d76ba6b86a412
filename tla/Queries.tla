------------------------------- MODULE Queries ------------------------------
(***************************************************************************)
(* The helpers of src/common/mongo that update and read: what a call does  *)
(* to its context, to its cursor and to the goroutine behind a channel of  *)
(* rows.  The driver is external: Find fails or gives a cursor of a few    *)
(* rows, each of which decodes or does not, and an update fails, matches   *)
(* nothing or changes its document.  (CursorCallbackByRow is in Polling,   *)
(* IncrementSequence, DoInsertOne and DoTrx are in Backend.)  The calls    *)
(* share nothing, so the model follows one.                                *)
(***************************************************************************)
EXTENDS Naturals

CONSTANT MaxRows     \* bound: rows of one cursor

Writers == {"DoUpdateMaybe", "FindOneAndUpdate", "DoUpdateOne", "DoUpsert", "DoUpsertById"}
Readers == {"MustFindOne", "FindManyCursor", "FindMany", "queryMongoCollection",
            "CursorIterator", "GetCursor"}
Helpers == Writers \cup Readers \cup {"FindOne"}

\* They work with the background context, which has no cancel function.
NoCtx == {"DoUpdateMaybe", "FindOneAndUpdate", "GetCursor"}

VARIABLES
  up,        \* the process runs
  call,      \* the helper that was called
  allow,     \* AllowNoMatches of its context
  at,        \* where it is
  ctx,       \* its context: "none", "live", "cancelled"
  cursor,    \* its cursor: "none", "open", "closed"
  rows,      \* rows still in the cursor
  got,       \* rows it has kept (CursorIterator: has sent)
  result,    \* what it returned
  chan,      \* CursorIterator: rows in the channel, of capacity 1
  closed,    \* CursorIterator: is the channel closed?
  consumer   \* "none", or where the caller's range over the channel is

vars == <<up, call, allow, at, ctx, cursor, rows, got, result, chan, closed, consumer>>

TypeOK ==
  /\ up \in BOOLEAN
  /\ call \in Helpers \cup {"none"}
  /\ allow \in BOOLEAN
  /\ at \in {"idle", "send", "find", "rows", "use", "close", "cancel", "done"}
  /\ ctx \in {"none", "live", "cancelled"}
  /\ cursor \in {"none", "open", "closed"}
  /\ rows \in 0..MaxRows
  /\ got \in 0..MaxRows
  /\ result \in {"none", "ok", "nothing", "error"}
  /\ chan \in 0..1
  /\ closed \in BOOLEAN
  /\ consumer \in {"none", "range", "done"}

Init ==
  /\ up = TRUE
  /\ call = "none"
  /\ allow = FALSE
  /\ at = "idle"
  /\ ctx = "none"
  /\ cursor = "none"
  /\ rows = 0
  /\ got = 0
  /\ result = "none"
  /\ chan = 0
  /\ closed = FALSE
  /\ consumer = "none"

channel == <<chan, closed, consumer>>

-----------------------------------------------------------------------------
\* A context made by NewStdMgoCtx or NewMgoCtxWTo has a cancel function.  (One of
\* a session has none; DoCancel leaves it alone.)
NewStdMgoCtx(h) == IF h \in NoCtx THEN "none" ELSE "live"

\* A call.  CursorIterator returns its channel at once, over which its caller
\* ranges, and reads in a goroutine.
Call ==
  /\ up /\ at = "idle"
  /\ \E h \in Helpers :
       /\ call' = h
       /\ ctx' = NewStdMgoCtx(h)
       /\ at' = IF h \in Readers THEN "find" ELSE "send"
       /\ consumer' = IF h = "CursorIterator" THEN "range" ELSE "none"
  /\ allow' \in BOOLEAN
  /\ UNCHANGED <<up, cursor, rows, got, result, chan, closed>>

\* The deferred DoCancel runs when the helper returns.
Return(r) == result' = r /\ at' = "cancel"

\* The helper that is called has returned; what it returned stands.
DoCancel ==
  /\ up /\ at = "cancel"
  /\ at' = "done"
  /\ ctx' = IF call \in {"DoUpsert", "DoUpsertById"} THEN ctx
            ELSE IF ctx = "live" THEN "cancelled" ELSE ctx
  /\ UNCHANGED <<up, call, allow, cursor, rows, got, result, channel>>

-----------------------------------------------------------------------------
\* The helpers that send one command.
Send(h, results) ==
  /\ up /\ at = "send" /\ call = h
  /\ \E r \in results : Return(r)
  /\ UNCHANGED <<up, call, allow, ctx, cursor, rows, got, channel>>

DoUpdateMaybe == Send("DoUpdateMaybe", {"ok", "error"})
FindOneAndUpdate == Send("FindOneAndUpdate", {"ok", "error"})

\* An update that changes nothing is an error, a match with equal fields as well.
DoUpdateOne == Send("DoUpdateOne", {"ok", "error"} \cup IF allow THEN {"nothing"} ELSE {})
DoUpsert == Send("DoUpsert", {"ok", "error"})
DoUpsertById == Send("DoUpsertById", {"ok", "error"})

\* A document that is not there is the error of the driver, whatever AllowNoMatches
\* says: the driver's result is never nil.
FindOne == Send("FindOne", {"ok", "error"})

-----------------------------------------------------------------------------
\* Find fails or gives a cursor; MustFindOne limits it to 3 rows.
Find ==
  /\ up /\ at = "find"
  /\ \E n \in 0..MaxRows : rows' = n
  /\ cursor' = "open"
  /\ at' = IF call = "FindManyCursor" THEN "use" ELSE "rows"
  /\ UNCHANGED <<up, call, allow, ctx, got, result, channel>>

\* CursorIterator returns before it has deferred the closing of its channel,
\* queryMongoCollection goes on and closes a cursor that is nil, GetCursor gives up
\* the process.
FindFails ==
  /\ up /\ at = "find"
  /\ \/ call \in {"queryMongoCollection", "GetCursor"} /\ up' = FALSE /\ UNCHANGED <<at, result>>
     \/ call \notin {"queryMongoCollection", "GetCursor"} /\ Return("error") /\ UNCHANGED up
  /\ UNCHANGED <<call, allow, ctx, cursor, rows, got, channel>>

\* FindManyCursor returns the cursor with its context cancelled; the caller reads
\* and closes it (conversations, chats-map).
FindManyCursor ==
  /\ up /\ at = "use" /\ call = "FindManyCursor"
  /\ Return("ok")
  /\ UNCHANGED <<up, call, allow, ctx, cursor, rows, got, channel>>

CloseGiven ==
  /\ up /\ at = "done" /\ call = "FindManyCursor" /\ cursor = "open"
  /\ cursor' = "closed" /\ rows' = 0
  /\ UNCHANGED <<up, call, allow, at, ctx, got, result, channel>>

\* A row of the cursor: one that does not decode is skipped by FindMany and ends the
\* process in GetCursor; MustFindOne and queryMongoCollection keep it as it is.
Row ==
  /\ up /\ at = "rows" /\ rows > 0 /\ call # "CursorIterator"
  /\ rows' = rows - 1
  /\ \/ got' = got + 1 /\ UNCHANGED up
     \/ call = "FindMany" /\ UNCHANGED <<up, got>>
     \/ call = "GetCursor" /\ up' = FALSE /\ UNCHANGED got
  /\ UNCHANGED <<call, allow, at, ctx, cursor, result, channel>>

\* The end of the rows, or an error of the cursor, which ends the loop as well and
\* is only logged (GetCursor: ends the process).  MustFindOne and FindMany do not
\* close their cursor.
RowsOver ==
  /\ up /\ at = "rows" /\ call # "CursorIterator"
  /\ \/ call = "MustFindOne" /\ got = 1 /\ Return("ok") /\ UNCHANGED <<up, cursor>>
     \/ call = "MustFindOne" /\ got > 1 /\ Return("error") /\ UNCHANGED <<up, cursor>>
     \/ call \in {"MustFindOne", "FindMany"} /\ got = 0
        /\ Return(IF allow THEN "nothing" ELSE "error") /\ UNCHANGED <<up, cursor>>
     \/ call = "FindMany" /\ got > 0 /\ Return("ok") /\ UNCHANGED <<up, cursor>>
     \/ call \in {"queryMongoCollection", "GetCursor"} /\ Return("ok")
        /\ cursor' = "closed" /\ UNCHANGED up
     \/ call = "GetCursor" /\ rows > 0 /\ up' = FALSE /\ UNCHANGED <<at, result, cursor>>
  /\ UNCHANGED <<call, allow, ctx, rows, got, channel>>

-----------------------------------------------------------------------------
\* CursorIterator sends a row when the channel has room, and skips one that does
\* not decode.
IteratorRow ==
  /\ up /\ at = "rows" /\ call = "CursorIterator" /\ rows > 0
  /\ rows' = rows - 1
  /\ \/ chan = 0 /\ chan' = 1 /\ got' = got + 1
     \/ UNCHANGED <<chan, got>>
  /\ UNCHANGED <<up, call, allow, at, ctx, cursor, result, closed, consumer>>

\* Fault: the cursor is closed, the channel is not.
IteratorEndsSilently ==
  /\ up /\ at = "rows" /\ call = "CursorIterator"
  /\ cursor' = "closed"
  /\ Return("ok")
  /\ UNCHANGED <<up, call, allow, ctx, rows, got, closed, chan, consumer>>

\* At the end of the rows, or at an error of the cursor, it closes both.
IteratorEnds ==
  /\ up /\ at = "rows" /\ call = "CursorIterator"
  /\ cursor' = "closed"
  /\ closed' = TRUE
  /\ Return("ok")
  /\ UNCHANGED <<up, call, allow, ctx, rows, got, chan, consumer>>

\* for row := range the channel.
Consume ==
  /\ up /\ consumer = "range"
  /\ \/ chan = 1 /\ chan' = 0 /\ UNCHANGED consumer
     \/ chan = 0 /\ closed /\ consumer' = "done" /\ UNCHANGED chan
  /\ UNCHANGED <<up, call, allow, at, ctx, cursor, rows, got, result, closed>>

-----------------------------------------------------------------------------
Helper ==
  \/ DoUpdateMaybe \/ FindOneAndUpdate \/ DoUpdateOne \/ DoUpsert \/ DoUpsertById
  \/ FindOne \/ Find \/ FindFails \/ FindManyCursor \/ Row \/ RowsOver
  \/ IteratorRow \/ IteratorEnds \/ DoCancel
Next == Call \/ Helper \/ CloseGiven \/ Consume

Spec == Init /\ [][Next]_vars

\* What a helper leaves behind when it has returned: the exceptions are those of
\* HelperEnds, and the caller of CursorIterator finds its channel closed unless Find
\* has failed (mongo.go:478-481).
NothingLeft ==
  at = "done" =>
    /\ ctx = "live" => call \in {"DoUpsert", "DoUpsertById"}
    /\ cursor = "open" => call \in {"MustFindOne", "FindMany", "FindManyCursor"}
    /\ consumer = "range" => closed \/ result = "error"

\* A helper that was called comes to an end and leaves nothing behind: its context
\* is cancelled, its cursor closed or with the caller, and the caller's loop over
\* its rows ends.  The exceptions are those of the code: the upserts keep their
\* context until its timeout (mongo.go:204-243), MustFindOne and FindMany their
\* cursor, a Find that fails leaves the caller of CursorIterator waiting
\* (mongo.go:478-481), and two helpers end the process.
HelperEnds ==
  \/ ~up
  \/ /\ at = "done"
     /\ ctx = "live" => call \in {"DoUpsert", "DoUpsertById"}
     /\ cursor = "open" => call \in {"MustFindOne", "FindMany", "FindManyCursor"}
     /\ consumer = "range" => result = "error"
QueriesEnd == (call # "none") ~> HelperEnds
=============================================================================
