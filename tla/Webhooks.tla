------------------------------ MODULE Webhooks ------------------------------
(***************************************************************************)
(* The webhooks of one tenant: registrations, the fan-out of every event   *)
(* of the bus to them, and the capped log of simulated deliveries, which   *)
(* is also the retry queue.  Nothing retries by itself: an administrator   *)
(* calls POST .../deliveries/failed/retry.                                 *)
(*                                                                         *)
(* handleEvent visits the registrations one after the other, newest first, *)
(* while the publisher waits: a visit is a step and no request runs in     *)
(* between.  Both lists are kept newest first, as in the code.  Time is    *)
(* counted in units of BASE_RETRY_DELAY_MS, and the time of the next retry *)
(* is how much of it is left.                                              *)
(***************************************************************************)
EXTENDS Integers, Sequences, FiniteSets, SequencesExt

CONSTANTS
  EventTypes,   \* types of the events plugins publish
  MaxAttempts,  \* MAX_DELIVERY_ATTEMPTS
  LogLimit,     \* deliveries kept per tenant; 100 in the code
  MaxHooks      \* bound: registrations ever made

ASSUME WebhookAssumption ==
  /\ MaxAttempts \in Nat /\ MaxAttempts > 1
  /\ LogLimit \in Nat /\ LogLimit > 0
  /\ MaxHooks \in Nat

\* Arithmetic that is checked for the constants at hand, as the provers know
\* nothing of powers.
ASSUME PowersAssumption ==
  /\ 2 ^ (1 - 1) = 1
  /\ \A n \in 1 .. MaxAttempts : 2 ^ (n - 1) \in 1 .. 2 ^ (MaxAttempts - 1)
  /\ \A n \in 1 .. MaxAttempts - 1 : 2 ^ (n + 1 - 1) = 2 * 2 ^ (n - 1)

VARIABLES
  hooks,   \* webhooksByTenant
  made,    \* registrations ever made: their ids are 1 .. made
  log,     \* deliveriesByTenant
  fanOut   \* the event being handled and how many registrations saw it

vars == <<hooks, made, log, fanOut>>

\* eventTypes is normalised on registration: none, or '*', means all of them;
\* {} is left for those who ask for types that nothing publishes.
\* failing is failureMode 'always'.  No request changes a registration, and
\* enabled stays true.
Hook == [id : 1 .. MaxHooks, types : SUBSET EventTypes, failing : BOOLEAN]

NoRetry == -1
\* Definitions named Faulty... are variants with a bug the code could have had.
\* No specification uses one: each stands in for the definition after it when
\* the properties themselves are tested.

\* the delay does not double
FaultyBackoff(attempts) == 1

Backoff(attempts) == 2 ^ (attempts - 1)
LongEnough == 2 ^ (MaxAttempts - 1)

\* wait is what is left until nextRetryAt, NoRetry for null.  age is not in the
\* code: the time the delivery has spent failing, up to LongEnough.
Delivery ==
  [hook : 1 .. MaxHooks, status : {"delivered", "failed", "dead"},
   attempts : 1 .. MaxAttempts, wait : NoRetry .. LongEnough, age : 0 .. LongEnough]

NoEvent == "none"
Idle == [event |-> NoEvent, seen |-> 0]

Init ==
  /\ hooks = << >>
  /\ made = 0
  /\ log = << >>
  /\ fanOut = Idle

-----------------------------------------------------------------------------
(* Deliveries *)

Registered(id) == \E k \in 1 .. Len(hooks) : hooks[k].id = id
Failing(id) == \E k \in 1 .. Len(hooks) : hooks[k].id = id /\ hooks[k].failing

Succeeded(d) == [d EXCEPT !.status = "delivered", !.wait = NoRetry]
Failed(d) == [d EXCEPT !.status = "failed", !.wait = Backoff(d.attempts)]
Dead(d) == [d EXCEPT !.status = "dead", !.wait = NoRetry]

\* createDelivery; a test delivery is forced through a failing hook.
NewDelivery(hook, forced) ==
  LET first == [hook |-> hook.id, status |-> "failed", attempts |-> 1,
                wait |-> NoRetry, age |-> 0]
  IN  IF hook.failing /\ ~forced THEN Failed(first) ELSE Succeeded(first)

\* the log is not cut
FaultyStore(deliveries, d) == <<d>> \o deliveries

\* storeDelivery: in front, and beyond the limit the oldest one is dropped,
\* whether or not it still waits for a retry.
Store(deliveries, d) ==
  LET longer == <<d>> \o deliveries
  IN  IF Len(longer) <= LogLimit THEN longer ELSE SubSeq(longer, 1, LogLimit)

-----------------------------------------------------------------------------
(* Requests and events *)

\* POST /webhooks
RegisterWebhook(types, failing) ==
  /\ fanOut = Idle
  /\ made < MaxHooks
  /\ made' = made + 1
  /\ hooks' = <<[id |-> made', types |-> types, failing |-> failing]>> \o hooks
  /\ UNCHANGED <<log, fanOut>>

\* DELETE /webhooks/:webhookId: its deliveries stay in the log.
RemoveWebhook(k) ==
  /\ fanOut = Idle
  /\ hooks' = RemoveAt(hooks, k)
  /\ UNCHANGED <<made, log, fanOut>>

\* POST /webhooks/:webhookId/test
SendTestDelivery(k) ==
  /\ fanOut = Idle
  /\ log' = Store(log, NewDelivery(hooks[k], TRUE))
  /\ UNCHANGED <<hooks, made, fanOut>>

\* An event reaches the '*' handler of the bus.
Publish(event) ==
  /\ fanOut = Idle
  /\ fanOut' = [event |-> event, seen |-> 0]
  /\ UNCHANGED <<hooks, made, log>>

NextHook == hooks[fanOut.seen + 1]

\* the fan-out stops at the first registration
FaultyVisit ==
  /\ fanOut # Idle /\ fanOut.seen < Len(hooks)
  /\ fanOut' = [fanOut EXCEPT !.seen = Len(hooks)]
  /\ log' = IF fanOut.event \in NextHook.types
            THEN Store(log, NewDelivery(NextHook, FALSE))
            ELSE log
  /\ UNCHANGED <<hooks, made>>

Visit ==
  /\ fanOut # Idle /\ fanOut.seen < Len(hooks)
  /\ fanOut' = [fanOut EXCEPT !.seen = @ + 1]
  /\ log' = IF fanOut.event \in NextHook.types
            THEN Store(log, NewDelivery(NextHook, FALSE))
            ELSE log
  /\ UNCHANGED <<hooks, made>>

FinishEvent ==
  /\ fanOut # Idle /\ fanOut.seen = Len(hooks)
  /\ fanOut' = Idle
  /\ UNCHANGED <<hooks, made, log>>

\* a delivery with no retry time counts as due
FaultyDue(d) == d.wait <= 0

Due(d) == d.status = "failed" /\ d.wait = 0

\* the limit is compared before the attempt is counted
FaultyAttempted(d) ==
  LET again == [d EXCEPT !.attempts = @ + 1]
  IN  CASE ~Failing(d.hook) -> Succeeded(again)
        [] Failing(d.hook) /\ d.attempts >= MaxAttempts -> Dead(again)
        [] Failing(d.hook) /\ d.attempts < MaxAttempts -> Failed(again)

Attempted(d) ==
  LET again == [d EXCEPT !.attempts = @ + 1]
  IN  CASE ~Failing(d.hook) -> Succeeded(again)
        [] Failing(d.hook) /\ again.attempts >= MaxAttempts -> Dead(again)
        [] Failing(d.hook) /\ again.attempts < MaxAttempts -> Failed(again)

\* the registration is not looked up again
FaultyRetried(d) == IF Due(d) THEN Attempted(d) ELSE d

Retried(d) ==
  CASE ~Due(d) -> d
    [] Due(d) /\ Registered(d.hook) -> Attempted(d)
    [] Due(d) /\ ~Registered(d.hook) -> Dead(d)

\* POST /webhooks/deliveries/failed/retry
RetryDueDeliveries ==
  /\ fanOut = Idle
  /\ log' = [i \in DOMAIN log |-> Retried(log[i])]
  /\ UNCHANGED <<hooks, made, fanOut>>

\* One unit of time passes.  Only what waits for it is of interest.
Older(d) ==
  IF d.status # "failed" THEN d
  ELSE [d EXCEPT !.wait = IF @ > 0 THEN @ - 1 ELSE @,
                 !.age = IF @ < LongEnough THEN @ + 1 ELSE @]
Tick ==
  /\ fanOut = Idle
  /\ \E i \in DOMAIN log : log[i].wait > 0
  /\ log' = [i \in DOMAIN log |-> Older(log[i])]
  /\ UNCHANGED <<hooks, made, fanOut>>

Next ==
  \/ \E types \in SUBSET EventTypes, failing \in BOOLEAN :
       RegisterWebhook(types, failing)
  \/ \E k \in 1 .. Len(hooks) : RemoveWebhook(k) \/ SendTestDelivery(k)
  \/ \E event \in EventTypes : Publish(event)
  \/ Visit \/ FinishEvent \/ RetryDueDeliveries \/ Tick

Spec == Init /\ [][Next]_vars

-----------------------------------------------------------------------------
(* Properties *)

TypeOK ==
  /\ hooks \in Seq(Hook) /\ Len(hooks) <= made
  /\ made \in 0 .. MaxHooks
  /\ log \in Seq(Delivery) /\ Len(log) <= LogLimit
  /\ fanOut \in [event : EventTypes, seen : 0 .. Len(hooks)] \cup {Idle}

\* The schedule and the status of a delivery agree: exactly the failed ones
\* have a retry, with attempts left; a first failure is never made good, as no
\* request mends a failing hook; and the dead have used all their attempts or
\* lost their hook.
StatusCoherent ==
  \A i \in 1 .. Len(log) :
    LET d == log[i] IN
    /\ d.status = "failed" <=> d.wait # NoRetry
    /\ d.status = "failed" => d.attempts < MaxAttempts
    /\ d.status = "failed" /\ Registered(d.hook) => Failing(d.hook)
    /\ d.status = "delivered" => d.attempts = 1
    /\ d.status = "dead" => d.attempts = MaxAttempts \/ ~Registered(d.hook)

\* However often an administrator asks for retries, the attempts of a delivery
\* are spread out: it is given up as exhausted no sooner than the sum of the
\* doubling delays after it was made (nextRetryAt).
ExhaustedSlowly ==
  \A i \in 1 .. Len(log) :
    log[i].status = "dead" /\ log[i].attempts = MaxAttempts
      => log[i].age >= LongEnough - 1

\* Every event is delivered once to each registration that asked for it, and
\* to no other: the deliveries in front of the log are, hook by hook, those of
\* the registrations visited so far.
Asked(n) == {hooks[k].id : k \in {j \in 1 .. n : fanOut.event \in hooks[j].types}}
FanOutExact ==
  LET wanted == Asked(fanOut.seen)
      n == Cardinality(wanted)
  IN  n <= LogLimit =>
        /\ n <= Len(log)
        /\ {log[i].hook : i \in 1 .. n} = wanted
        /\ \A i \in 1 .. n : log[i].status = "failed" <=> Failing(log[i].hook)

\* A step adds at most one delivery, in front, and loses at most the oldest
\* one, once the log is full.  Settled deliveries never change, and a failed
\* one keeps its hook and never takes an attempt back.
Follows(new, old) ==
  IF old.status = "failed"
  THEN new.hook = old.hook /\ new.attempts \in old.attempts .. old.attempts + 1
  ELSE new = old
Pushed ==
  /\ Len(log') = IF Len(log) < LogLimit THEN Len(log) + 1 ELSE LogLimit
  /\ \A i \in 2 .. Len(log') : log'[i] = log[i - 1]
KeptInPlace ==
  /\ Len(log') = Len(log)
  /\ \A i \in 1 .. Len(log) : Follows(log'[i], log[i])
HistoryKept == [][Pushed \/ KeptInPlace]_vars

\* Once its registration is removed, nothing is delivered to a hook again: no
\* delivery is added, and a waiting one can only be given up.
To(id, statuses, deliveries) ==
  Cardinality({i \in 1 .. Len(deliveries) :
                 deliveries[i].hook = id /\ deliveries[i].status \in statuses})
Silent(id) ==
  /\ To(id, {"delivered"}, log') <= To(id, {"delivered"}, log)
  /\ To(id, {"delivered", "failed", "dead"}, log')
       <= To(id, {"delivered", "failed", "dead"}, log)
RemovedIsSilent == [][\A id \in 1 .. made : ~Registered(id) => Silent(id)]_vars
=============================================================================
