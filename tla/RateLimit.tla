------------------------------ MODULE RateLimit ------------------------------
(***************************************************************************)
(* The rate limiter of the gateway: a fixed window per tenant and path,    *)
(* counted in Redis under a key that holds the start of the window.  Keys  *)
(* of different tenants or paths never meet, so one tenant and one path    *)
(* stand for all, and a key is the number of its window.                   *)
(*                                                                         *)
(* Requests are handled concurrently.  Choosing the key, INCR and EXPIRE   *)
(* are three steps of a request; between them time may pass, the client    *)
(* may hang up, the gateway may stop, and a call to Redis may fail or      *)
(* succeed without its answer coming back.  Redis itself keeps its data,   *)
(* and its clock runs like the gateway's.                                  *)
(***************************************************************************)
EXTENDS Integers

CONSTANTS
  Requests,    \* bound: the requests that may arrive
  Limit,       \* Config.Limit; zero or less turns the limiter off
  Window,      \* Config.Window, in units of time
  LastWindow,  \* bound: requests arrive in the windows 0 .. LastWindow
  MaxSends     \* how often the Redis client sends a command at most

ASSUME RateLimitAssumption ==
  /\ Limit \in Nat /\ Limit > 0
  /\ Window \in Nat /\ Window > 0
  /\ LastWindow \in Nat
  /\ MaxSends \in Nat /\ MaxSends > 0

Windows == 0 .. LastWindow
NoExpiry == -1

VARIABLES
  current,  \* the window it is now
  left,     \* how much of it is left
  counter,  \* Redis: the counter of a window, 0 when there is no such key
  ttl,      \* Redis: the time the key has left, or NoExpiry
  req,      \* the requests and how far they got
  passed,   \* not in the code: requests forwarded while their window lasted
  spoilt    \* not in the code: a unit of the window went to nobody

vars == <<current, left, counter, ttl, req, passed, spoilt>>

\* "sending": the key is chosen, INCR is to be sent.  "first": INCR returned 1,
\* EXPIRE is to be sent.  "refused" is 429, "error" is 503 or a client gone.
\* sends is how often the command was sent and not answered.
Answers == {"passed", "refused", "error"}
Phases == {"coming", "sending", "first"} \cup Answers
Request == [phase : Phases, key : Windows, sends : 0 .. MaxSends]

Init ==
  /\ current = 0 /\ left = Window
  /\ counter = [w \in Windows |-> 0]
  /\ ttl = [w \in Windows |-> NoExpiry]
  /\ req = [r \in Requests |-> [phase |-> "coming", key |-> 0, sends |-> 0]]
  /\ passed = [w \in Windows |-> 0]
  /\ spoilt = [w \in Windows |-> FALSE]

-----------------------------------------------------------------------------
(* The middleware *)

\* windowKey: the window of the moment.
Arrive(r) ==
  /\ req[r].phase = "coming"
  /\ current \in Windows
  /\ req' = [req EXCEPT ![r] = [phase |-> "sending", key |-> current, sends |-> 0]]
  /\ UNCHANGED <<current, left, counter, ttl, passed, spoilt>>

Moved(r, phase) == req' = [req EXCEPT ![r].phase = phase]
Raised(w) == counter' = [counter EXCEPT ![w] = @ + 1]
Spoil(w) == spoilt' = [spoilt EXCEPT ![w] = TRUE]

\* The request goes on to the engine.
Forward(r) ==
  /\ Moved(r, "passed")
  /\ passed' = [passed EXCEPT ![req[r].key] = IF req[r].key = current THEN @ + 1 ELSE @]

\* Definitions named Faulty... are variants with a bug the code could have had.
\* No specification uses one: each stands in for the definition after it when
\* the properties themselves are tested.

\* the last one is refused
FaultyWithinStrictly(count) == count < Limit
Within(count) == count <= Limit

\* the client sends once more than it should
FaultyLastSend(r) == req[r].sends = MaxSends
LastSend(r) == req[r].sends + 1 = MaxSends

\* The answer to a command is lost: the Redis client sends it again, until it
\* gives up.
Unheard(r) ==
  req' = [req EXCEPT ![r] =
    [phase |-> IF LastSend(r) THEN "error" ELSE req[r].phase,
     key |-> req[r].key, sends |-> req[r].sends + 1]]

\* INCR is answered; EXPIRE is a command of its own.
Count(r) ==
  LET w == req[r].key
      count == counter[w] + 1
  IN  /\ req[r].phase = "sending"
      /\ Raised(w)
      /\ \/ /\ count = 1 /\ UNCHANGED passed
            /\ req' = [req EXCEPT ![r] = [phase |-> "first", key |-> w, sends |-> 0]]
         \/ count > 1 /\ Within(count) /\ Forward(r)
         \/ count > 1 /\ ~Within(count) /\ Moved(r, "refused") /\ UNCHANGED passed
      /\ UNCHANGED <<current, left, ttl, spoilt>>

\* INCR is carried out but its answer is lost: what it counted goes to nobody.
CountUnheard(r) ==
  /\ req[r].phase = "sending"
  /\ Raised(req[r].key) /\ Spoil(req[r].key)
  /\ Unheard(r)
  /\ UNCHANGED <<current, left, ttl, passed>>

\* INCR is never carried out, or the client hangs up before.
CountFails(r) ==
  /\ req[r].phase = "sending"
  /\ Moved(r, "error")
  /\ UNCHANGED <<current, left, counter, ttl, passed, spoilt>>

\* the key lives for half a window
FaultyExpiry == Window \div 2
Expiry == Window

\* EXPIRE does nothing to a key that is gone.
Expiring(w) == ttl' = [ttl EXCEPT ![w] = IF counter[w] > 0 THEN Expiry ELSE @]

\* EXPIRE is forgotten
FaultySetExpiry(r) ==
  /\ req[r].phase = "first"
  /\ Forward(r)
  /\ UNCHANGED <<current, left, counter, ttl, spoilt>>

\* a key whose window is over is left alone
FaultySetExpiryInTime(r) ==
  /\ req[r].phase = "first"
  /\ IF req[r].key = current THEN Expiring(req[r].key) ELSE UNCHANGED ttl
  /\ Forward(r)
  /\ UNCHANGED <<current, left, counter, spoilt>>

SetExpiry(r) ==
  /\ req[r].phase = "first"
  /\ Expiring(req[r].key)
  /\ Forward(r)
  /\ UNCHANGED <<current, left, counter, spoilt>>

\* EXPIRE is carried out but its answer is lost; sent again it may find the key
\* gone, or one made since.  A request given up leaves its unit to nobody.
SetExpiryUnheard(r) ==
  /\ req[r].phase = "first"
  /\ Expiring(req[r].key)
  /\ Unheard(r)
  /\ IF LastSend(r) THEN Spoil(req[r].key) ELSE UNCHANGED spoilt
  /\ UNCHANGED <<current, left, counter, passed>>

\* EXPIRE is never carried out, the client hangs up or the gateway stops.
SetExpiryFails(r) ==
  /\ req[r].phase = "first"
  /\ Moved(r, "error") /\ Spoil(req[r].key)
  /\ UNCHANGED <<current, left, counter, ttl, passed>>

\* A unit of time passes; Redis drops the keys whose time is up.  After the
\* last window only those keep changing.
Tick ==
  /\ current \in Windows \/ \E w \in Windows : ttl[w] > 0
  /\ IF current \in Windows
     THEN IF left > 1 THEN left' = left - 1 /\ UNCHANGED current
                      ELSE left' = Window /\ current' = current + 1
     ELSE UNCHANGED <<current, left>>
  /\ counter' = [w \in Windows |-> IF ttl[w] = 1 THEN 0 ELSE counter[w]]
  /\ ttl' = [w \in Windows |-> IF ttl[w] > 1 THEN ttl[w] - 1 ELSE NoExpiry]
  /\ UNCHANGED <<req, passed, spoilt>>

\* the first request of a window is never continued
FaultyHandle(r) == Count(r) \/ CountUnheard(r) \/ CountFails(r)

Handle(r) ==
  \/ Count(r) \/ CountUnheard(r) \/ CountFails(r)
  \/ SetExpiry(r) \/ SetExpiryUnheard(r) \/ SetExpiryFails(r)

Next == (\E r \in Requests : Arrive(r) \/ Handle(r)) \/ Tick

\* Time passes, and a goroutine goes on with its request until it is answered.
Spec ==
  /\ Init /\ [][Next]_vars
  /\ WF_vars(Tick) /\ \A r \in Requests : WF_vars(Handle(r))

-----------------------------------------------------------------------------
(* Properties *)

TypeOK ==
  /\ current \in 0 .. LastWindow + 1 /\ left \in 1 .. Window
  /\ counter \in [Windows -> Nat]
  /\ ttl \in [Windows -> {NoExpiry} \cup 1 .. Window]
  /\ req \in [Requests -> Request]
  /\ passed \in [Windows -> Nat]
  /\ spoilt \in [Windows -> BOOLEAN]

\* However requests interleave, at most Limit of them are forwarded while the
\* window they belong to lasts (middleware.go): the counter must not go before
\* the window does.
BudgetPerWindow == \A w \in Windows : passed[w] <= Limit

First(r, w) == req[r].phase = "first" /\ req[r].key = w
Taken(w) == passed[w] + (IF \E r \in Requests : First(r, w) THEN 1 ELSE 0)

\* A request is refused for want of room only: when its window lasts and no
\* unit of it was lost to a failed call, all Limit units are taken.  A call
\* delayed from an earlier window takes nothing from this one.
Refused(r) ==
  /\ req[r].phase = "sending" /\ req'[r].phase = "refused"
  /\ req[r].key = current /\ ~spoilt[current]
RefusedOnlyWhenFull ==
  [][\A r \in Requests : Refused(r) => Taken(current) = Limit]_vars

\* INCR and EXPIRE are apart (redis_store.go): a counter without an expiry has
\* a request about to set it, or else a call for that window went wrong.
TimelessOnlyByFault ==
  \A w \in Windows :
    counter[w] > 0 /\ ttl[w] = NoExpiry
      => spoilt[w] \/ \E r \in Requests : First(r, w)

\* Every request is answered in the end.
RequestsAnswered ==
  \A r \in Requests : req[r].phase = "sending" ~> req[r].phase \in Answers

\* Redis forgets every counter, also one made by a delayed call after its
\* window, unless a call for that window went wrong.
CountersExpire ==
  \A w \in Windows : counter[w] > 0 ~> counter[w] = 0 \/ spoilt[w]
=============================================================================
