------------------------------- MODULE Payload ------------------------------
(***************************************************************************)
(* What the REST handlers make of the JSON object that a request carries:  *)
(* the getters of src/common/zmap and the handlers that read a body or a   *)
(* filter through them, one request at a time (requests share nothing      *)
(* here).  A handler reads its keys in order; a getter that refuses ends   *)
(* it with 500.  Then it works with what it has got, a pointer that no     *)
(* getter has set being nil; a panic in a handler ends the process         *)
(* (Chain).  What create, remove and user do after that is in Backend, and *)
(* with broker pools in Bindings.                                          *)
(*                                                                         *)
(* A value is represented by what the getters tell apart.  Every number of *)
(* a decoded JSON object is a float64, and no value is a uuid, an ObjectID *)
(* or a time.Time.                                                         *)
(***************************************************************************)
EXTENDS Naturals, Sequences

Values == {"absent",   \* the key is not there
           "hex", "zero", "date", "text", "empty",  \* strings: an id, the zero id, ...
           "num", "bool", "null",
           "ids", "none", "zeros", "texts", "mixed"}  \* arrays: of ids, empty, ...

Texts == {"hex", "zero", "date", "text", "empty"}
Arrays == {"ids", "none", "zeros", "texts", "mixed"}
TextArrays == Arrays \ {"mixed"}

VARIABLES
  up,        \* the process runs
  route,     \* the handler
  at,        \* where it is
  todo,      \* the keys it has still to read
  read,      \* key -> the value it has read, "unread" before
  created,   \* filter["CreatedAt"] of the reading handlers
  rows,      \* addUserToChat: its rows are stored
  nil,       \* the key whose nil pointer was dereferenced
  answer     \* the status, 0 while there is none

vars == <<up, route, at, todo, read, created, rows, nil, answer>>

-----------------------------------------------------------------------------
(* The getters.  A getter sets what the handler asks for, skips it without *)
(* an error, or fails.                                                     *)
Required(v, good) == IF v \in good THEN "set" ELSE "fail"
Optional(v, good) == IF v = "absent" THEN "skip" ELSE Required(v, good)

\* A value of another type is not an error.
Lenient(v, good) == IF v \in good THEN "set" ELSE "skip"

MustGetUUID(v) == Required(v, {})
GetUUID(v) == Lenient(v, {})
MustGetInt(v) == Required(v, {})
GetInt(v) == Lenient(v, {})
MustGetInt64(v) == Required(v, {})
GetInt64(v) == Lenient(v, {})
MustGetBool(v) == Required(v, {"bool"})
GetBool(v) == Optional(v, {"bool"})
GetString(v) == Optional(v, Texts)
MustGetString(v) == Required(v, Texts \ {"empty"})
MustGetMongoObjectId(v) == Required(v, {"hex"})

\* Fault: an absent key is no error, as for the other getters named Get.
ObjectIdMayBeAbsent(v) == Optional(v, {"hex"})

GetMongoObjectIdFromString(v) == Required(v, {"hex"})
GetMongoObjectId(v) == Optional(v, {})
GetTime(v) == Optional(v, {"date"})
MustGetTime(v) == Required(v, {"date"})
GetSlice(v) == Optional(v, Arrays \ {"none"})
GetStringSlice(v) == Optional(v, TextArrays)

\* The three getters of slices hand their callback to GetStringSlice, which does
\* not call it for an absent key and returns no error.
MustGetStringSlice(v) == GetStringSlice(v)
MustGetBothStringAndObjectIdSlice(v) ==
  IF v \in {"zeros", "texts"} THEN "fail" ELSE MustGetStringSlice(v)
MustGetObjectIdSlice(v) ==
  IF v \in {"zeros", "texts"} THEN "fail" ELSE MustGetStringSlice(v)
MustGetSliceOf(v) == Required(v, Arrays)
MustGetSlice(v) == Required(v, Arrays)
MustGetJSON(v) == Required(v, Values \ {"absent"})

\* What the getters whose names begin with Must make of a value.
Must(v) ==
  [uuid |-> MustGetUUID(v), int |-> MustGetInt(v), int64 |-> MustGetInt64(v),
   bool |-> MustGetBool(v), string |-> MustGetString(v), time |-> MustGetTime(v),
   id |-> MustGetMongoObjectId(v), sliceOf |-> MustGetSliceOf(v),
   slice |-> MustGetSlice(v), json |-> MustGetJSON(v),
   strings |-> MustGetStringSlice(v), ids |-> MustGetObjectIdSlice(v),
   both |-> MustGetBothStringAndObjectIdSlice(v)]

\* And the others, but for GetMongoObjectIdFromString, which is strict.
May(v) ==
  [uuid |-> GetUUID(v), int |-> GetInt(v), int64 |-> GetInt64(v), bool |-> GetBool(v),
   string |-> GetString(v), time |-> GetTime(v), id |-> GetMongoObjectId(v),
   slice |-> GetSlice(v), strings |-> GetStringSlice(v)]

-----------------------------------------------------------------------------
\* The keys that a handler reads, in order.
ReadKeys == <<"StartTime", "EndTime", "ChatId", "UserIds", "ChatTitle">>
CreateKeys == <<"ChatId", "UserIds", "ChatTitle">>
AddKeys == <<"ChatId", "UserId", "InviterId", "IsAdmin">>
RemoveKeys == <<"UserId", "ChatId", "DeviceId">>
UserKeys == <<"UserId", "DeviceId">>

KeysOf == [filter |-> ReadKeys, body |-> ReadKeys, create |-> CreateKeys,
           add |-> AddKeys, remove |-> RemoveKeys, user |-> UserKeys]
Routes == DOMAIN KeysOf
Keys == {"StartTime", "EndTime", "ChatId", "UserIds", "ChatTitle", "UserId",
         "InviterId", "IsAdmin", "DeviceId"}

\* The getter a handler uses for a key.
Getter(key, v) ==
  CASE key \in {"StartTime", "EndTime"} -> GetTime(v)
    [] key = "UserIds" -> MustGetBothStringAndObjectIdSlice(v)
    [] key = "ChatTitle" -> GetString(v)
    [] key = "IsAdmin" -> MustGetBool(v)
    [] route = "user" -> MustGetMongoObjectId(v)
    [] OTHER -> GetMongoObjectIdFromString(v)

TypeOK ==
  /\ up \in BOOLEAN
  /\ route \in Routes \cup {"unrouted"}
  /\ at \in {"idle", "reading", "query", "work", "kafka", "rabbit", "done"}
  /\ todo \in Seq(Keys)
  /\ read \in [Keys -> Values \cup {"unread"}]
  /\ created \in {"any", "gte", "lte"}
  /\ rows \in BOOLEAN
  /\ nil \in Keys \cup {"nothing"}
  /\ answer \in {0, 200, 500}

Init ==
  /\ up = TRUE
  /\ route = "unrouted"
  /\ at = "idle"
  /\ todo = <<>>
  /\ read = [k \in Keys |-> "unread"]
  /\ created = "any"
  /\ rows = FALSE
  /\ nil = "nothing"
  /\ answer = 0

-----------------------------------------------------------------------------
\* GenericMarshal and WriteJSONErrorResponse: an answer that cannot be marshalled
\* is a 500, and so is one with an error.
Answer(code) ==
  /\ at' = "done"
  /\ answer' = code
  /\ UNCHANGED <<up, route, todo, read, created, rows, nil>>

Die == up' = FALSE /\ at' = "done" /\ UNCHANGED <<route, todo, read, created, rows, answer>>

\* MustGetLoggedInUser panics for a header that is no id (createUserHandler does
\* not ask for it), MustGetRequestBodyMap and MustGetFilterQueryParamMap where the
\* chain of the route has not stored a map.
Enter ==
  /\ up /\ at = "idle"
  /\ \/ /\ \E r \in Routes : route' = r /\ todo' = KeysOf[r]
        /\ at' = "reading"
        /\ UNCHANGED <<up, read, created, rows, nil, answer>>
     \/ Die /\ UNCHANGED nil

\* The filter of the reading handlers has one entry for both times (and none for
\* a time before 2010).
CreatedAt(key) ==
  CASE key = "StartTime" -> {created, "gte"}
    [] key = "EndTime" -> {created, "lte"}
    [] OTHER -> {created}

\* A handler reads its next key.
Read ==
  /\ up /\ at = "reading" /\ todo # <<>>
  /\ \E v \in Values :
       /\ read' = [read EXCEPT ![Head(todo)] = v]
       /\ \/ /\ Getter(Head(todo), v) = "fail"
             /\ at' = "done" /\ answer' = 500
             /\ UNCHANGED <<todo, created>>
          \/ /\ Getter(Head(todo), v) = "skip"
             /\ todo' = Tail(todo)
             /\ UNCHANGED <<at, answer, created>>
          \/ /\ Getter(Head(todo), v) = "set"
             /\ todo' = Tail(todo)
             /\ created' \in CreatedAt(Head(todo))
             /\ UNCHANGED <<at, answer>>
  /\ UNCHANGED <<up, route, rows, nil>>

HasRead ==
  /\ up /\ at = "reading" /\ todo = <<>>
  /\ at' = IF route \in {"filter", "body"} THEN "query" ELSE "work"
  /\ UNCHANGED <<up, route, todo, read, created, rows, nil, answer>>

\* The reading handlers query, decode every row and keep none: Results is empty.
Query == up /\ at = "query" /\ (Answer(200) \/ Answer(500))

-----------------------------------------------------------------------------
\* createNewChatConversation ranges over *UserIds in its transaction; no error
\* before that, or one, is what the client may get instead.
Create ==
  /\ up /\ at = "work" /\ route = "create"
  /\ \/ Answer(500)
     \/ read["UserIds"] # "absent" /\ Answer(200)
     \/ read["UserIds"] = "absent" /\ nil' = "UserIds" /\ Die

\* removeUserFromChat and createUserHandler have read all they use.
Remove == up /\ at = "work" /\ route = "remove" /\ (Answer(200) \/ Answer(500))
CreateUser == up /\ at = "work" /\ route = "user" /\ (Answer(200) \/ Answer(500))

\* addUserToChat stores its rows, creates a topic, and then uses *DeviceId, which
\* it never reads.  (No client gets that far: the path of its route has no slash.)
AddStore ==
  /\ up /\ at = "work" /\ route = "add"
  /\ \/ Answer(500)
     \/ /\ rows' = TRUE /\ at' = "kafka"
        /\ UNCHANGED <<up, route, todo, read, created, nil, answer>>

AddTopic ==
  /\ up /\ at = "kafka"
  /\ \/ Answer(500)
     \/ at' = "rabbit" /\ UNCHANGED <<up, route, todo, read, created, rows, nil, answer>>

\* A pool that is nil or gives no connection panics as well.
AddQueue ==
  /\ up /\ at = "rabbit"
  /\ \/ Answer(500)
     \/ nil' \in {"DeviceId", "nothing"} /\ Die

Next ==
  \/ Enter \/ Read \/ HasRead \/ Query \/ Create \/ Remove \/ CreateUser
  \/ AddStore \/ AddTopic \/ AddQueue

Spec == Init /\ [][Next]_vars

-----------------------------------------------------------------------------
\* The keys without which a handler cannot do its work.
Needs == [filter |-> {"ChatId"}, body |-> {"ChatId"}, create |-> {"ChatId"},
          add |-> {"ChatId", "UserId", "InviterId"},
          remove |-> {"UserId", "ChatId", "DeviceId"}, user |-> {"UserId", "DeviceId"}]

\* What the names of the getters promise their callers, and what comes of it.  A
\* getter named Must passes over a value only where three of them share a hole
\* (zmap.go:377-385): an absent array.  So a handler works only with good ids, it
\* meets a nil pointer only through that hole or at the key addUserToChat never
\* reads, and an addition to a conversation is never answered 200, stored or not.
PayloadChecked ==
  /\ \A v \in Values : \A g \in DOMAIN Must(v) :
       Must(v)[g] = "skip" => v = "absent" /\ g \in {"strings", "ids", "both"}
  /\ \A v \in Values : \A g \in DOMAIN May(v) : v = "absent" => May(v)[g] = "skip"
  /\ at \in {"work", "kafka", "rabbit"} \/ answer = 200 =>
       \A k \in Needs[route] : read[k] = "hex"
  /\ nil # "nothing" =>
       \/ route = "create" /\ nil = "UserIds" /\ read[nil] = "absent"
       \/ route = "add" /\ nil = "DeviceId" /\ rows
  /\ rows => answer # 200
=============================================================================
