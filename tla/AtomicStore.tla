---------------------------- MODULE AtomicStore -----------------------------
(***************************************************************************)
(* What the writing routes promise, without transactions: a request takes  *)
(* effect at once and as a whole, or never; no two effects have one key;   *)
(* conversations are numbered in the order in which they take effect; an   *)
(* answer 200 is given for what is in effect (for kinds whose errors are   *)
(* looked at), and nothing takes effect once it is answered or the process *)
(* has ended.  An answer 500 says nothing: the effect may be there.        *)
(* Backend implements this module.                                         *)
(***************************************************************************)
EXTENDS Naturals

CONSTANTS Requests, \* requests
          Kinds,    \* what a request can ask for
          Counted,  \* kinds whose effects are numbered
          Blind,    \* kinds that are answered 200 whatever has happened
          EffectOf, \* EffectOf[k][r]: the documents of r, as a request of kind k
          KeyOf     \* KeyOf[k][r]: its key

VARIABLES asked,     \* asked[r]: its kind, "none" before it begins
          open,      \* requests under way
          committed, \* requests that have taken effect
          stored,    \* documents
          number,    \* number[r]: its number, 0 if it has none
          last,      \* the last number given
          answer     \* answer[r]: its status code

storeVars == <<asked, open, committed, stored, number, last, answer>>

StoreInit ==
    /\ asked = [r \in Requests |-> "none"]
    /\ open = {}
    /\ committed = {}
    /\ stored = {}
    /\ number = [r \in Requests |-> 0]
    /\ last = 1
    /\ answer = [r \in Requests |-> 0]

Ask(r, k) ==
    /\ asked[r] = "none"
    /\ answer[r] = 0
    /\ asked' = [asked EXCEPT ![r] = k]
    /\ open' = open \cup {r}
    /\ UNCHANGED <<committed, stored, number, last, answer>>

Refuse(r) ==
    /\ asked[r] = "none"
    /\ answer[r] = 0
    /\ answer' = [answer EXCEPT ![r] = 500]
    /\ UNCHANGED <<asked, open, committed, stored, number, last>>

\* The whole effect at once.
TakeEffect(r) ==
    /\ r \in open \ committed
    /\ \A q \in committed : KeyOf[asked[q]][q] # KeyOf[asked[r]][r]
    /\ committed' = committed \cup {r}
    /\ stored' = stored \cup EffectOf[asked[r]][r]
    /\ last' = IF asked[r] \in Counted THEN last + 1 ELSE last
    /\ number' = [number EXCEPT ![r] = IF asked[r] \in Counted THEN last + 1 ELSE 0]
    /\ UNCHANGED asked

Succeed(r) == TakeEffect(r) /\ UNCHANGED <<open, answer>>

\* The report of the effect is lost.
SucceedUnheard(r) ==
    /\ TakeEffect(r)
    /\ open' = open \ {r}
    /\ answer' = [answer EXCEPT ![r] = 500]

Answer(r, code) ==
    /\ r \in open
    /\ code = 200 => r \in committed \/ asked[r] \in Blind
    /\ open' = open \ {r}
    /\ answer' = [answer EXCEPT ![r] = code]
    /\ UNCHANGED <<asked, committed, stored, number, last>>

\* The process ends: what is under way is lost.
Crash ==
    /\ open' = {}
    /\ UNCHANGED <<asked, committed, stored, number, last, answer>>

StoreNext ==
    \/ Crash
    \/ \E r \in Requests :
          \/ \E k \in Kinds : Ask(r, k)
          \/ Refuse(r)
          \/ Succeed(r)
          \/ SucceedUnheard(r)
          \/ \E code \in {200, 500} : Answer(r, code)

StoreSpec == StoreInit /\ [][StoreNext]_storeVars
=============================================================================
