--------------------------- MODULE Polling_proofs ---------------------------
(***************************************************************************)
(* Theorems about Polling, for any number of conversations, rows and       *)
(* messages and any capacity of the limiter.                               *)
(***************************************************************************)
EXTENDS Polling, Integers, TLAPS

\* How many slots are taken where: the callback holds one between its two
\* steps, the loop that fills the limiter owns those it has filled.
SlotsInv ==
    /\ main \in {"find", "rows"} => slots = 0 /\ filled = 0
    /\ main = "held" => slots = 1 /\ filled = 0
    /\ main = "fill" => slots = filled

\* What a query is about to send is one of its messages.
SendInv == \A q \in Queries : fetch[q] = "write" => pos[q] \in Docs(q)

\* What the connection does is of no interest to the poll until it writes.
LEMMA ConnTypes ==
  ASSUME TypeOK, ConnStep
  PROVE  TypeOK'
BY DEF ConnStep, ReadEnds, SafeClose, Pin, pollVars, TypeOK

\* What a frame that goes out, or is lost, does to those received.
LEMMA WriteTypes ==
  ASSUME frames \in Seq(Frames), NEW f \in Frames,
         Write(f) \/ WriteFails
  PROVE  frames' \in Seq(Frames)
BY DEF Write, WriteFails

\* Types and slots.  The types alone are not inductive: a release needs a
\* slot to be taken, and a frame a message.
LEMMA TypesAndSlots == Spec => [](TypeOK /\ SlotsInv /\ SendInv)
<1> USE PollingAssumption
<1>1. Init => TypeOK /\ SlotsInv /\ SendInv
  <2> SUFFICES ASSUME Init PROVE TypeOK /\ SlotsInv /\ SendInv
    OBVIOUS
  <2>1. pos \in [Queries -> 0..Last] /\ 0 \in 0..Cap
    BY DEF Init
  <2>2. fetch \in [Queries -> {"none", "find", "rows", "write", "over"}]
    BY DEF Init
  <2>3. frames \in Seq(Frames)
    BY DEF Init
  <2>4. SendInv
    BY DEF Init, SendInv
  <2> QED
    BY <2>1, <2>2, <2>3, <2>4 DEF Init, TypeOK, SlotsInv
<1>2. ASSUME TypeOK, SlotsInv, SendInv, [Next]_vars
      PROVE  TypeOK' /\ SlotsInv' /\ SendInv'
  <2> USE <1>2
  <2>1. ASSUME NEW q \in Queries, Find(q) \/ CursorEnds(q)
        PROVE  TypeOK' /\ SlotsInv' /\ SendInv'
    <3>1. /\ \E r \in {"rows", "over"} : fetch' = [fetch EXCEPT ![q] = r]
          /\ UNCHANGED <<pollVars, pos, connVars, frames>>
          /\ failed' \subseteq Queries
      BY <2>1 DEF Find, CursorEnds, TypeOK
    <3>2. SendInv'
      BY <3>1 DEF TypeOK, SendInv
    <3> QED
      BY <3>1, <3>2 DEF TypeOK, SlotsInv, pollVars, connVars
  <2>2. ASSUME NEW q \in Queries, Row(q)
        PROVE  TypeOK' /\ SlotsInv' /\ SendInv'
    <3>1. PICK m \in Docs(q) : pos' = [pos EXCEPT ![q] = m]
      BY <2>2 DEF Row
    <3>2. m \in 0..Last
      BY DEF Docs, Messages
    <3>3. /\ fetch' = fetch \/ fetch' = [fetch EXCEPT ![q] = "write"]
          /\ UNCHANGED <<pollVars, connVars, frames>>
          /\ failed' \subseteq Queries
      BY <2>2 DEF Row, Deliver, TypeOK
    <3>4. SendInv'
      BY <3>1, <3>3 DEF TypeOK, SendInv
    <3> QED
      BY <3>1, <3>2, <3>3, <3>4 DEF TypeOK, SlotsInv, pollVars, connVars
  <2>3. ASSUME NEW q \in Queries, Send(q)
        PROVE  TypeOK' /\ SlotsInv' /\ SendInv'
    <3>1. <<q, pos[q]>> \in Frames
      BY <2>3 DEF Send, SendInv, Docs, Frames
    <3>2. Write(<<q, pos[q]>>) \/ WriteFails
      BY <2>3 DEF Send
    <3>3. frames' \in Seq(Frames)
      BY <3>1, <3>2, WriteTypes DEF TypeOK
    <3>4. /\ fetch' = [fetch EXCEPT ![q] = "rows"]
          /\ UNCHANGED <<pollVars, pos, connVars>>
          /\ failed' \subseteq Queries
      BY <2>3 DEF Send, TypeOK
    <3>5. SendInv'
      BY <3>4 DEF TypeOK, SendInv
    <3> QED
      BY <3>3, <3>4, <3>5 DEF TypeOK, SlotsInv, pollVars, connVars
  <2>4. CASE FetchConvs \/ ConvsFetched
    <3>1. Merged \in Queries
      BY DEF Queries
    <3>2. TypeOK' /\ SlotsInv'
      BY <2>4, <3>1 DEF FetchConvs, ConvsFetched, TypeOK, SlotsInv, connVars
    <3> QED
      BY <2>4, <3>1, <3>2 DEF FetchConvs, ConvsFetched, TypeOK, SendInv
  <2>5. CASE FindChats \/ ReleaseSlot \/ ChatsEnd \/ FillSlot \/ LimiterFull
             \/ Complete
    <3>1. UNCHANGED <<kind, todo, fetch, pos, connVars, frames, failed>>
      BY <2>5 DEF FindChats, ReleaseSlot, ChatsEnd, FillSlot, LimiterFull,
                  Complete
    <3>2. SendInv'
      BY <3>1 DEF SendInv
    <3>3. SlotsInv' /\ slots' \in 0..Cap /\ filled' \in 0..Cap
          /\ main' \in {"rows", "fill", "complete", "completing", "end"}
      BY <2>5 DEF FindChats, ReleaseSlot, ChatsEnd, FillSlot, LimiterFull,
                  Complete, TypeOK, SlotsInv
    <3> QED
      BY <3>1, <3>2, <3>3 DEF TypeOK, connVars
  <2>6. ASSUME NEW r \in Rows, AcquireSlot(r)
        PROVE  TypeOK' /\ SlotsInv' /\ SendInv'
    <3>1. r \in Queries
      BY DEF Queries
    <3>2. fetch' = fetch \/ fetch' = [fetch EXCEPT ![r] = "find"]
      BY <2>6 DEF AcquireSlot
    <3>3. fetch' \in [Queries -> {"none", "find", "rows", "write", "over"}]
      BY <3>1, <3>2 DEF TypeOK
    <3>4. slots = 0 /\ slots' = 1 /\ slots' \in 0..Cap
      BY <2>6 DEF AcquireSlot, SlotsInv
    <3>5. /\ main' = "held"
          /\ todo' \subseteq Rows
          /\ UNCHANGED <<kind, filled, pos, connVars, frames, failed>>
      BY <2>6 DEF AcquireSlot, TypeOK
    <3>6. filled = 0
      BY <2>6 DEF AcquireSlot, SlotsInv
    <3>7. SendInv'
      BY <3>1, <3>2, <3>5 DEF TypeOK, SendInv
    <3> QED
      BY <3>3, <3>4, <3>5, <3>6, <3>7 DEF TypeOK, SlotsInv, connVars
  <2>7. CASE SendDone
    <3>1. frames' \in Seq(Frames)
      <4>1. Done \in Frames
        BY DEF Frames
      <4> QED
        BY <2>7, <4>1, WriteTypes DEF SendDone, TypeOK
    <3> QED
      BY <2>7, <3>1 DEF SendDone, TypeOK, SlotsInv, SendInv, connVars
  <2>8. CASE ConnStep \/ UNCHANGED vars
    <3>1. TypeOK'
      BY <2>8, ConnTypes DEF vars, pollVars, connVars, TypeOK
    <3> QED
      BY <2>8, <3>1 DEF ConnStep, ReadEnds, SafeClose, Pin, vars, pollVars,
                        SlotsInv, SendInv
  <2> QED
    BY <2>1, <2>2, <2>3, <2>4, <2>5, <2>6, <2>7, <2>8
       DEF Next, MainStep, FetchStep
<1> QED
  BY <1>1, <1>2, PTL DEF Spec

\* A poll has the right types in every reachable state.
THEOREM PollingTypes == Spec => []TypeOK
BY TypesAndSlots, PTL

\* The limiter is empty whenever the next conversation is read, and has room whenever
\* it is filled at the end.
THEOREM LimiterIsIdle == Spec => []LimiterNeverBlocks
<1>1. TypeOK /\ SlotsInv => LimiterNeverBlocks
  BY PollingAssumption DEF TypeOK, SlotsInv, LimiterNeverBlocks
<1> QED
  BY <1>1, TypesAndSlots, PTL

-----------------------------------------------------------------------------
(* Frames                                                                  *)

\* Each kind of poll has its own queries and its own places.
KindInv ==
    /\ main \in {"rows", "held", "fill"} => kind = "all"
    /\ main = "fetching" => kind = "convs"
    /\ kind = "convs" => \A r \in Rows : fetch[r] = "none"
    /\ kind = "all" => fetch[Merged] = "none"
    /\ main = "find" => fetch[Merged] = "none"
    /\ \A r \in todo : fetch[r] = "none"
    /\ kind = "convs" /\ main \in {"complete", "completing", "end"} =>
          fetch[Merged] = "over"

\* The last message of each query that is behind it: returned by its cursor, and
\* not about to be sent.
sentTo == [q \in Queries |-> IF fetch[q] = "write" THEN pos[q] - 1 ELSE pos[q]]

\* No cursor is behind what it has sent, and the completion frame is sent
\* with the last step of the poll.
FramesInv ==
    \A i \in 1..Len(frames) :
        /\ frames[i] # Done => frames[i][2] <= sentTo[frames[i][1]]
        /\ frames[i] = Done => main = "end"

Got(f) == \E i \in 1..Len(frames) : frames[i] = f

\* A query that has met no error has sent what is behind its cursor, which is
\* everything once it is over.
GotInv ==
    \A q \in Queries \ failed : \A m \in Docs(q) :
        /\ m <= sentTo[q] => Got(<<q, m>>)
        /\ fetch[q] = "over" => m <= sentTo[q]

\* Nothing follows the completion frame of a poll of named conversations.
ConvsDoneIsLast == kind = "convs" => DoneLast

FramesOK == FramesInv /\ GotInv /\ OrderedOnce /\ ConvsDoneIsLast

PollInv == TypeOK /\ SendInv /\ KindInv /\ FramesOK

\* What a frame that goes out does to those received.
LEMMA WriteAppends ==
  ASSUME frames \in Seq(Frames), NEW f \in Frames,
         Write(f)
  PROVE  /\ Len(frames') = Len(frames) + 1
         /\ Len(frames) \in Nat
         /\ frames'[Len(frames) + 1] = f
         /\ \A i \in 1..Len(frames) : frames'[i] = frames[i]
         /\ \A i \in 1..Len(frames') : i \in 1..Len(frames) \/ i = Len(frames) + 1
BY DEF Write

LEMMA KindPreserved ==
  ASSUME TypeOK, KindInv, [Next]_vars
  PROVE  KindInv'
<1> USE PollingAssumption
<1>1. CASE FetchConvs \/ ConvsFetched
  BY <1>1 DEF FetchConvs, ConvsFetched, KindInv, TypeOK, Queries
<1>2. CASE \/ FindChats \/ ReleaseSlot \/ ChatsEnd \/ FillSlot \/ LimiterFull
           \/ Complete \/ SendDone
  BY <1>2 DEF FindChats, ReleaseSlot, ChatsEnd, FillSlot, LimiterFull, Complete,
              SendDone, KindInv, TypeOK
<1>3. ASSUME NEW r \in Rows, AcquireSlot(r)
      PROVE  KindInv'
  BY <1>3 DEF AcquireSlot, KindInv, TypeOK, Queries
<1>4. CASE ConnStep \/ UNCHANGED vars
  BY <1>4 DEF ConnStep, ReadEnds, SafeClose, Pin, vars, pollVars, KindInv
<1>5. ASSUME NEW q \in Queries, FetchStep(q)
      PROVE  KindInv'
  <2>1. /\ UNCHANGED <<kind, main, todo>>
        /\ fetch[q] \in {"find", "rows", "write"}
        /\ fetch' = fetch \/ \E r \in {"rows", "write", "over"} :
                                 fetch' = [fetch EXCEPT ![q] = r]
    BY <1>5 DEF FetchStep, Find, Row, Deliver, Send, CursorEnds, pollVars
  <2> QED
    BY <2>1 DEF KindInv, TypeOK, Queries
<1> QED
  BY <1>1, <1>2, <1>3, <1>4, <1>5 DEF Next, MainStep

\* A step that sends nothing and starts no write.
LEMMA SilentStep ==
  ASSUME PollInv, UNCHANGED <<kind, pos, frames>>, main = "end" => main' = "end",
         failed \subseteq failed',
         \A q \in Queries : fetch'[q] = "write" <=> fetch[q] = "write",
         \A q \in Queries \ failed' :
             fetch'[q] = "over" => \A m \in Docs(q) : m <= sentTo[q]
  PROVE  FramesOK'
<1>1. sentTo' = sentTo
  BY DEF sentTo
<1>2. FramesInv'
  BY <1>1 DEF PollInv, FramesOK, FramesInv
<1>3. GotInv'
  BY <1>1 DEF PollInv, FramesOK, GotInv, Got, Docs
<1> QED
  BY <1>2, <1>3
     DEF PollInv, FramesOK, OrderedOnce, ConvsDoneIsLast, DoneLast

\* The next row is later than everything its query has sent, and none of the
\* messages of the query is between.
LEMMA RowPreserves ==
  ASSUME PollInv, NEW q \in Queries, Row(q)
  PROVE  FramesOK'
<1> USE PollingAssumption
<1>1. PICK m \in Docs(q) : IsNext(q, m) /\ pos' = [pos EXCEPT ![q] = m]
  BY DEF Row
<1>2. /\ UNCHANGED <<kind, main, frames>>
      /\ fetch[q] = "rows"
      /\ \/ fetch' = [fetch EXCEPT ![q] = "write"] /\ failed' = failed
         \/ fetch' = fetch /\ failed' = failed \cup {q}
  BY DEF Row, Deliver, pollVars
<1>3. /\ pos \in [Queries -> 0..Last]
      /\ fetch \in [Queries -> {"none", "find", "rows", "write", "over"}]
  BY DEF PollInv, TypeOK
<1>4. /\ pos'[q] = m /\ m \in Nat /\ pos[q] \in Nat /\ m > pos[q]
      /\ \A x \in Queries \ {q} : pos'[x] = pos[x] /\ fetch'[x] = fetch[x]
  BY <1>1, <1>2, <1>3 DEF IsNext, Docs, Messages
<1>5. \A x \in Queries \ {q} : sentTo'[x] = sentTo[x]
  BY <1>4 DEF sentTo
<1>6. /\ sentTo[q] = pos[q]
      /\ sentTo[q] <= sentTo'[q]
      /\ sentTo'[q] \in {m, m - 1}
      /\ \A x \in Queries : sentTo[x] \in Int
  <2>1. sentTo[q] = pos[q] /\ sentTo'[q] \in {m, m - 1}
    BY <1>2, <1>4 DEF sentTo
  <2>2. \A x \in Queries : sentTo[x] \in Int
    BY <1>3 DEF sentTo
  <2> QED
    BY <1>4, <2>1, <2>2
<1>7. FramesInv'
  <2>1. \A i \in 1..Len(frames) : frames[i] # Done =>
            frames[i][1] \in Queries /\ frames[i][2] \in Nat
    BY DEF PollInv, TypeOK, Frames, Messages
  <2>2. \A i \in 1..Len(frames) : frames[i] # Done =>
            frames[i][2] <= sentTo'[frames[i][1]]
    BY <1>4, <1>5, <1>6, <2>1 DEF PollInv, FramesOK, FramesInv
  <2> QED
    BY <1>2, <2>2 DEF PollInv, FramesOK, FramesInv
<1>8. GotInv'
  <2> SUFFICES ASSUME NEW x \in Queries \ failed', NEW n \in Docs(x)
               PROVE  /\ n <= sentTo'[x] => Got(<<x, n>>)
                      /\ fetch'[x] = "over" => n <= sentTo'[x]
    BY <1>2 DEF GotInv, Got, Docs
  <2>1. CASE x # q
    BY <1>2, <1>4, <1>5, <2>1 DEF PollInv, FramesOK, GotInv
  <2>2. CASE x = q
    <3>1. fetch'[q] = "write" /\ failed' = failed
      BY <1>2, <1>3, <2>2
    <3>2. sentTo'[q] = m - 1 /\ n \in Nat
      BY <1>4, <3>1 DEF sentTo, Docs, Messages
    <3>3. n <= m - 1 => n <= pos[q]
      BY <1>1, <1>4, <2>2, <3>2 DEF IsNext
    <3>4. n <= pos[q] => Got(<<q, n>>)
      BY <1>6, <2>2, <3>1 DEF PollInv, FramesOK, GotInv
    <3> QED
      BY <2>2, <3>1, <3>2, <3>3, <3>4
  <2> QED
    BY <2>1, <2>2
<1> QED
  BY <1>2, <1>7, <1>8 DEF PollInv, FramesOK, OrderedOnce, ConvsDoneIsLast,
                           DoneLast

\* The row that is sent is later than everything its query has sent.
LEMMA SendPreserves ==
  ASSUME PollInv, NEW q \in Queries, Send(q)
  PROVE  FramesOK'
<1> USE PollingAssumption
<1> DEFINE f == <<q, pos[q]>>
<1>1. /\ UNCHANGED <<kind, main, pos>>
      /\ fetch[q] = "write"
      /\ fetch' = [fetch EXCEPT ![q] = "rows"]
  BY DEF Send, pollVars
<1>2. /\ pos \in [Queries -> 0..Last]
      /\ fetch \in [Queries -> {"none", "find", "rows", "write", "over"}]
      /\ frames \in Seq(Frames)
  BY DEF PollInv, TypeOK
<1>3. /\ f \in Frames /\ f # Done /\ f[1] = q /\ f[2] = pos[q]
      /\ pos[q] \in Docs(q) /\ pos[q] \in Nat
  <2>1. pos[q] \in Docs(q)
    BY <1>1 DEF PollInv, SendInv
  <2> QED
    BY <2>1 DEF Docs, Messages, Frames
<1>4. /\ fetch'[q] = "rows"
      /\ \A x \in Queries \ {q} : fetch'[x] = fetch[x]
  BY <1>1, <1>2
<1>5. /\ sentTo[q] = pos[q] - 1
      /\ sentTo'[q] = pos[q]
      /\ \A x \in Queries \ {q} : sentTo'[x] = sentTo[x]
  BY <1>1, <1>4 DEF sentTo
<1>6. \A i \in 1..Len(frames) : frames[i] # Done =>
          /\ frames[i][2] <= sentTo'[frames[i][1]]
          /\ frames[i][1] = q => frames[i][2] < pos[q]
  <2> SUFFICES ASSUME NEW i \in 1..Len(frames), frames[i] # Done
               PROVE  /\ frames[i][2] <= sentTo'[frames[i][1]]
                      /\ frames[i][1] = q => frames[i][2] < pos[q]
    OBVIOUS
  <2>1. frames[i][1] \in Queries /\ frames[i][2] \in Nat
    BY <1>2 DEF Frames, Messages
  <2>2. frames[i][2] <= sentTo[frames[i][1]]
    BY DEF PollInv, FramesOK, FramesInv
  <2> QED
    BY <1>3, <1>5, <2>1, <2>2
<1>7. kind = "convs" => main # "end"
  BY <1>1 DEF PollInv, KindInv, Queries
<1>8. CASE frames' = frames /\ failed' = failed \cup {q}
  <2>1. FramesInv'
    BY <1>1, <1>6, <1>8 DEF PollInv, FramesOK, FramesInv
  <2>2. GotInv'
    <3>1. \A x \in Queries \ failed' :
              sentTo'[x] = sentTo[x] /\ fetch'[x] = fetch[x] /\ x \notin failed
      BY <1>4, <1>5, <1>8
    <3>2. \A x \in Queries \ failed' : \A m \in Docs(x) :
              /\ m <= sentTo'[x] => \E i \in 1..Len(frames') : frames'[i] = <<x, m>>
              /\ fetch'[x] = "over" => m <= sentTo'[x]
      BY <1>8, <3>1 DEF PollInv, FramesOK, GotInv, Got
    <3> QED
      BY <3>2 DEF GotInv, Got, Docs
  <2> QED
    BY <1>1, <1>8, <2>1, <2>2 DEF PollInv, FramesOK, OrderedOnce,
                                   ConvsDoneIsLast, DoneLast
<1>9. CASE Write(f) /\ failed' = failed
  <2>1. /\ Len(frames') = Len(frames) + 1
        /\ Len(frames) \in Nat
        /\ frames'[Len(frames) + 1] = f
        /\ \A i \in 1..Len(frames) : frames'[i] = frames[i]
        /\ \A i \in 1..Len(frames') :
               i \in 1..Len(frames) \/ i = Len(frames) + 1
    BY <1>2, <1>3, <1>9, WriteAppends
  <2>2. FramesInv'
    <3> SUFFICES ASSUME NEW i \in 1..Len(frames')
                 PROVE  /\ frames'[i] # Done =>
                               frames'[i][2] <= sentTo'[frames'[i][1]]
                        /\ frames'[i] = Done => main' = "end"
      BY DEF FramesInv
    <3>1. CASE i \in 1..Len(frames)
      BY <1>1, <1>6, <2>1, <3>1 DEF PollInv, FramesOK, FramesInv
    <3>2. CASE i = Len(frames) + 1
      BY <1>3, <1>5, <2>1, <3>2
    <3> QED
      BY <2>1, <3>1, <3>2
  <2>3. OrderedOnce'
    <3> SUFFICES ASSUME NEW i \in 1..Len(frames'), NEW j \in 1..Len(frames'),
                        i < j, frames'[i] # Done, frames'[j] # Done,
                        frames'[i][1] = frames'[j][1]
                 PROVE  frames'[i][2] < frames'[j][2]
      BY DEF OrderedOnce
    <3>1. i \in 1..Len(frames) /\ frames'[i] = frames[i]
      BY <2>1
    <3>2. CASE j \in 1..Len(frames)
      BY <2>1, <3>1, <3>2 DEF PollInv, FramesOK, OrderedOnce
    <3>3. CASE j = Len(frames) + 1
      BY <1>3, <1>6, <2>1, <3>1, <3>3
    <3> QED
      BY <2>1, <3>2, <3>3
  <2>4. ConvsDoneIsLast'
    <3>1. kind = "convs" => \A i \in 1..Len(frames') : frames'[i] # Done
      BY <1>3, <1>7, <2>1 DEF PollInv, FramesOK, FramesInv
    <3> QED
      BY <1>1, <3>1 DEF ConvsDoneIsLast, DoneLast
  <2>5. GotInv'
    <3> SUFFICES ASSUME NEW x \in Queries \ failed, NEW n \in Docs(x)
                 PROVE  /\ n <= sentTo'[x] =>
                               \E i \in 1..Len(frames') : frames'[i] = <<x, n>>
                        /\ fetch'[x] = "over" => n <= sentTo'[x]
      BY <1>9 DEF GotInv, Got, Docs
    <3>1. Got(<<x, n>>) => \E i \in 1..Len(frames') : frames'[i] = <<x, n>>
      BY <2>1 DEF Got
    <3>2. /\ n <= sentTo[x] => Got(<<x, n>>)
          /\ fetch[x] = "over" => n <= sentTo[x]
      BY DEF PollInv, FramesOK, GotInv
    <3>3. CASE x # q
      BY <1>4, <1>5, <3>1, <3>2, <3>3
    <3>4. CASE x = q /\ n # pos[q]
      <4>1. n \in Nat
        BY DEF Docs, Messages
      <4>2. n <= pos[q] => n <= sentTo[q]
        BY <1>3, <1>5, <3>4, <4>1
      <4> QED
        BY <1>4, <1>5, <3>1, <3>2, <3>4, <4>2
    <3>5. CASE x = q /\ n = pos[q]
      <4>1. Len(frames) + 1 \in 1..Len(frames')
        BY <2>1
      <4> QED
        BY <1>4, <2>1, <3>5, <4>1
    <3> QED
      BY <3>3, <3>4, <3>5
  <2> QED
    BY <2>2, <2>3, <2>4, <2>5 DEF FramesOK
<1> QED
  BY <1>8, <1>9 DEF Send, WriteFails

\* The completion frame is the first one.
LEMMA SendDonePreserves ==
  ASSUME PollInv, SendDone
  PROVE  FramesOK'
<1>1. /\ Write(Done) \/ WriteFails
      /\ main = "completing"
      /\ main' = "end"
      /\ UNCHANGED <<kind, pos, fetch, failed>>
  BY DEF SendDone
<1>2. \A i \in 1..Len(frames) : frames[i] # Done
  BY <1>1 DEF PollInv, FramesOK, FramesInv
<1>3. sentTo' = sentTo
  BY <1>1 DEF sentTo
<1>4. CASE WriteFails
  <2>1. UNCHANGED <<kind, pos, frames, fetch, failed>>
    BY <1>1, <1>4 DEF WriteFails
  <2>2. \A q \in Queries \ failed :
            fetch[q] = "over" => \A m \in Docs(q) : m <= sentTo[q]
    BY DEF PollInv, FramesOK, GotInv
  <2> QED
    BY <1>1, <2>1, <2>2, SilentStep
<1>5. CASE Write(Done)
  <2>1. /\ Len(frames') = Len(frames) + 1
        /\ Len(frames) \in Nat
        /\ frames'[Len(frames) + 1] = Done
        /\ \A i \in 1..Len(frames) : frames'[i] = frames[i]
        /\ \A i \in 1..Len(frames') :
               i \in 1..Len(frames) \/ i = Len(frames) + 1
    <3>1. frames \in Seq(Frames) /\ Done \in Frames
      BY DEF PollInv, TypeOK, Frames
    <3> QED
      BY <1>5, <3>1, WriteAppends
  <2>2. FramesInv'
    BY <1>1, <1>3, <2>1 DEF PollInv, FramesOK, FramesInv
  <2>3. OrderedOnce'
    BY <1>1, <2>1 DEF PollInv, FramesOK, OrderedOnce
  <2>4. ConvsDoneIsLast'
    BY <1>2, <2>1 DEF ConvsDoneIsLast, DoneLast
  <2>5. GotInv'
    <3>1. \A q, m : Got(<<q, m>>) =>
              \E i \in 1..Len(frames') : frames'[i] = <<q, m>>
      BY <2>1 DEF Got
    <3>2. \A q \in Queries \ failed : \A m \in Docs(q) :
              /\ m <= sentTo[q] =>
                     \E i \in 1..Len(frames') : frames'[i] = <<q, m>>
              /\ fetch[q] = "over" => m <= sentTo[q]
      BY <3>1 DEF PollInv, FramesOK, GotInv
    <3> QED
      BY <1>1, <1>3, <3>2 DEF GotInv, Got, Docs
  <2> QED
    BY <2>2, <2>3, <2>4, <2>5 DEF FramesOK
<1> QED
  BY <1>1, <1>4, <1>5

LEMMA FramesPreserved ==
  ASSUME PollInv, [Next]_vars
  PROVE  FramesOK'
<1> USE PollingAssumption
<1>0. /\ \A q \in Queries \ failed :
            fetch[q] = "over" => \A m \in Docs(q) : m <= sentTo[q]
      /\ pos \in [Queries -> 0..Last]
      /\ fetch \in [Queries -> {"none", "find", "rows", "write", "over"}]
  BY DEF PollInv, FramesOK, GotInv, TypeOK
<1>1. CASE \/ ConvsFetched
           \/ FindChats
           \/ ReleaseSlot
           \/ ChatsEnd
           \/ FillSlot
           \/ LimiterFull
           \/ Complete
           \/ ConnStep
           \/ UNCHANGED vars
  <2>1. UNCHANGED <<kind, pos, frames, fetch, failed>>
    BY <1>1 DEF ConvsFetched, FindChats, ReleaseSlot, ChatsEnd, FillSlot,
                LimiterFull, Complete, ConnStep, ReadEnds, SafeClose, Pin, vars,
                pollVars
  <2>2. main = "end" => main' = "end"
    BY <1>1 DEF ConvsFetched, FindChats, ReleaseSlot, ChatsEnd, FillSlot,
                LimiterFull, Complete, ConnStep, ReadEnds, SafeClose, Pin, vars,
                pollVars
  <2> QED
    BY <1>0, <2>1, <2>2, SilentStep
<1>2. ASSUME NEW q \in Queries, fetch[q] # "write",
             fetch' = [fetch EXCEPT ![q] = "find"],
             UNCHANGED <<kind, pos, frames, failed>>, main # "end"
      PROVE  FramesOK'
  <2>1. \A x \in Queries : /\ fetch'[x] = "write" <=> fetch[x] = "write"
                           /\ fetch'[x] = "over" => fetch[x] = "over"
    BY <1>0, <1>2
  <2> QED
    BY <1>0, <1>2, <2>1, SilentStep
<1>3. CASE FetchConvs
  <2>1. Merged \in Queries
    BY DEF Queries
  <2>2. fetch[Merged] # "write"
    BY <1>3 DEF FetchConvs, PollInv, KindInv, Queries
  <2> QED
    BY <1>2, <1>3, <2>1, <2>2 DEF FetchConvs
<1>4. ASSUME NEW r \in Rows, AcquireSlot(r)
      PROVE  FramesOK'
  <2>1. r \in Queries /\ fetch[r] = "none"
    BY <1>4 DEF AcquireSlot, PollInv, KindInv, Queries
  <2>2. /\ UNCHANGED <<kind, pos, frames, failed>>
        /\ main # "end"
        /\ fetch' = [fetch EXCEPT ![r] = "find"] \/ fetch' = fetch
    BY <1>4 DEF AcquireSlot
  <2>3. CASE fetch' = fetch
    BY <1>0, <2>2, <2>3, SilentStep
  <2> QED
    BY <1>2, <2>1, <2>2, <2>3
<1>5. ASSUME NEW q \in Queries, Find(q) \/ CursorEnds(q)
      PROVE  FramesOK'
  <2>1. /\ UNCHANGED <<kind, main, pos, frames>>
        /\ fetch[q] # "write"
        /\ failed \subseteq failed'
        /\ \E r \in {"rows", "over"} : fetch' = [fetch EXCEPT ![q] = r]
        /\ fetch'[q] = "over" =>
               q \in failed' \/ \A m \in Docs(q) : ~(m > pos[q])
    BY <1>0, <1>5 DEF Find, CursorEnds, pollVars
  <2>2. \A x \in Queries : /\ fetch'[x] = "write" <=> fetch[x] = "write"
                           /\ x # q => fetch'[x] = fetch[x]
    BY <1>0, <2>1
  <2>3. q \notin failed' /\ fetch'[q] = "over" =>
            \A m \in Docs(q) : m <= sentTo[q]
    <3>1. \A m \in Docs(q) : m \in Nat /\ pos[q] \in Nat
      BY <1>0 DEF Docs, Messages
    <3> QED
      BY <2>1, <3>1 DEF sentTo
  <2> QED
    BY <1>0, <2>1, <2>2, <2>3, SilentStep
<1>6. CASE SendDone
  BY <1>6, SendDonePreserves
<1>7. ASSUME NEW q \in Queries, Row(q) \/ Send(q)
      PROVE  FramesOK'
  BY <1>7, RowPreserves, SendPreserves
<1> QED
  BY <1>1, <1>3, <1>4, <1>5, <1>6, <1>7 DEF Next, MainStep, FetchStep

LEMMA PollInvariance == Spec => []PollInv
<1> USE PollingAssumption
<1>1. Init /\ TypeOK => PollInv
  <2> SUFFICES ASSUME Init, TypeOK PROVE PollInv
    OBVIOUS
  <2>1. /\ frames = <<>>
        /\ \A q \in Queries : fetch[q] = "none" /\ pos[q] = 0
        /\ main = "find"
        /\ Merged \in Queries /\ Rows \subseteq Queries
    BY DEF Init, Queries
  <2>2. GotInv
    BY <2>1 DEF GotInv, sentTo, Docs, Messages
  <2>3. FramesInv /\ OrderedOnce /\ ConvsDoneIsLast
    BY <2>1 DEF FramesInv, OrderedOnce, ConvsDoneIsLast, DoneLast
  <2>4. KindInv /\ SendInv
    BY <2>1 DEF Init, KindInv, SendInv, TypeOK
  <2> QED
    BY <2>2, <2>3, <2>4 DEF PollInv, FramesOK
<1>2. ASSUME PollInv, TypeOK', SendInv', [Next]_vars PROVE PollInv'
  BY <1>2, KindPreserved, FramesPreserved DEF PollInv
<1> QED
  BY <1>1, <1>2, TypesAndSlots, PTL DEF Spec

\* What one query sends arrives in order and each message at most once, however
\* many fetches run at the same time, two of one conversation among them.
THEOREM OrderedOnceAlways == Spec => []OrderedOnce
<1>1. PollInv => OrderedOnce
  BY DEF PollInv, FramesOK
<1> QED
  BY <1>1, PollInvariance, PTL

\* Nothing follows the completion frame of a poll of named conversations, which is
\* sent when its query is over, and a query that met no error and lost no frame has
\* then delivered every one of its messages, on either kind of poll.
THEOREM NothingIsMissing == Spec => []NothingMissing
<1>1. PollInv => NothingMissing
  <2> SUFFICES ASSUME PollInv PROVE NothingMissing
    OBVIOUS
  <2>1. \A q \in Queries \ failed : fetch[q] = "over" => Received(q) = Docs(q)
    BY DEF PollInv, FramesOK, GotInv, Got, Received
  <2> QED
    BY <2>1 DEF PollInv, KindInv, FramesOK, ConvsDoneIsLast, NothingMissing
<1> QED
  BY <1>1, PollInvariance, PTL
=============================================================================
