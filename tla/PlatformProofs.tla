--------------------------- MODULE PlatformProofs ---------------------------
(***************************************************************************)
(* Proofs about Webhooks and about Platform, which extends it, for every   *)
(* set of event types, every limit and every number of registrations.      *)
(***************************************************************************)
EXTENDS Platform, SequenceTheorems, FiniteSetTheorems, TLAPS

-----------------------------------------------------------------------------
(* Webhooks: the inductive invariant *)

\* Ids are never used twice.
DistinctHooks ==
  /\ \A k \in 1 .. Len(hooks) : hooks[k].id <= made
  /\ \A j, k \in 1 .. Len(hooks) : hooks[j].id = hooks[k].id => j = k

\* What StatusCoherent says of one delivery.
Coherent(d) ==
  /\ d.status = "failed" <=> d.wait # NoRetry
  /\ d.status = "failed" => d.attempts < MaxAttempts
  /\ d.status = "failed" /\ Registered(d.hook) => Failing(d.hook)
  /\ d.status = "delivered" => d.attempts = 1
  /\ d.status = "dead" => d.attempts = MaxAttempts \/ ~Registered(d.hook)

\* The time spent failing and the time to the next retry cover all delays so
\* far: 1 + 2 + ... + Backoff(attempts).
Spaced(d) ==
  /\ d.status = "failed" => d.age + d.wait >= 2 * Backoff(d.attempts) - 1
  /\ d.status = "dead" /\ d.attempts = MaxAttempts => d.age >= LongEnough - 1

Sound(d) == d \in Delivery /\ d.hook <= made /\ Coherent(d) /\ Spaced(d)

IInv ==
  /\ TypeOK /\ DistinctHooks
  /\ \A i \in 1 .. Len(log) : Sound(log[i])

-----------------------------------------------------------------------------
(* Webhooks: the delays *)

LEMMA BackoffFacts ==
  /\ MaxAttempts \in Nat /\ MaxAttempts > 1 /\ LongEnough \in Nat
  /\ Backoff(1) = 1 /\ Backoff(MaxAttempts) = LongEnough
  /\ \A n \in 1 .. MaxAttempts : Backoff(n) \in Nat /\ Backoff(n) >= 1 /\ Backoff(n) <= LongEnough
  /\ \A n \in 1 .. MaxAttempts - 1 : Backoff(n + 1) = 2 * Backoff(n)
BY WebhookAssumption, PowersAssumption DEF Backoff, LongEnough
-----------------------------------------------------------------------------
(* Webhooks: deliveries, whose record forms are unfolded only here *)

Statuses == {"delivered", "failed", "dead"}

LEMMA DeliveryFacts ==
  ASSUME NEW d \in Delivery
  PROVE  /\ d.hook \in 1 .. MaxHooks /\ d.status \in Statuses /\ d.attempts \in 1 .. MaxAttempts
         /\ d.wait \in NoRetry .. LongEnough /\ d.age \in 0 .. LongEnough
BY DEF Delivery, Statuses

LEMMA NoRetryFacts == NoRetry \in NoRetry .. LongEnough /\ NoRetry = -1
BY BackoffFacts DEF NoRetry

LEMMA SucceededFacts ==
  ASSUME NEW d \in Delivery
  PROVE  LET e == Succeeded(d) IN
         /\ e \in Delivery /\ e.hook = d.hook /\ e.attempts = d.attempts /\ e.age = d.age
         /\ e.status = "delivered" /\ e.wait = NoRetry
BY NoRetryFacts DEF Succeeded, Delivery

LEMMA DeadFacts ==
  ASSUME NEW d \in Delivery
  PROVE  LET e == Dead(d) IN
         /\ e \in Delivery /\ e.hook = d.hook /\ e.attempts = d.attempts /\ e.age = d.age
         /\ e.status = "dead" /\ e.wait = NoRetry
BY NoRetryFacts DEF Dead, Delivery

LEMMA FailedFacts ==
  ASSUME NEW d \in Delivery
  PROVE  LET e == Failed(d) IN
         /\ e \in Delivery /\ e.hook = d.hook /\ e.attempts = d.attempts /\ e.age = d.age
         /\ e.status = "failed" /\ e.wait = Backoff(d.attempts)
<1>1. PICK w \in NoRetry .. LongEnough : w = Backoff(d.attempts)
  BY DeliveryFacts, BackoffFacts, NoRetryFacts
<1>2. Failed(d) = [d EXCEPT !.status = "failed", !.wait = w]
  BY <1>1 DEF Failed
<1>. DEFINE e == [d EXCEPT !.status = "failed", !.wait = w]
<1>3. /\ e \in Delivery /\ e.hook = d.hook /\ e.attempts = d.attempts /\ e.age = d.age
      /\ e.status = "failed" /\ e.wait = w
  BY DEF Delivery
<1>. HIDE DEF e
<1>4. QED
  BY <1>1, <1>2, <1>3 DEF e

LEMMA AgainFacts ==
  ASSUME NEW d \in Delivery, d.attempts < MaxAttempts
  PROVE  LET e == [d EXCEPT !.attempts = @ + 1] IN
         /\ e \in Delivery /\ e.hook = d.hook /\ e.attempts = d.attempts + 1
         /\ e.age = d.age /\ e.status = d.status /\ e.wait = d.wait
<1>1. d.attempts + 1 \in 1 .. MaxAttempts
  BY DeliveryFacts, WebhookAssumption
<1>2. QED
  BY <1>1 DEF Delivery

LEMMA OlderFacts ==
  ASSUME NEW d \in Delivery
  PROVE  LET e == Older(d) IN
         /\ e \in Delivery /\ e.hook = d.hook /\ e.attempts = d.attempts /\ e.status = d.status
         /\ d.status # "failed" => e = d
         /\ d.status = "failed" =>
              /\ e.wait = IF d.wait > 0 THEN d.wait - 1 ELSE d.wait
              /\ e.age = IF d.age < LongEnough THEN d.age + 1 ELSE d.age
<1>1. CASE d.status # "failed"
  BY <1>1 DEF Older
<1>2. CASE d.status = "failed"
  <2>1. PICK w \in NoRetry .. LongEnough : w = IF d.wait > 0 THEN d.wait - 1 ELSE d.wait
    BY DeliveryFacts, BackoffFacts, NoRetryFacts
  <2>2. PICK a \in 0 .. LongEnough : a = IF d.age < LongEnough THEN d.age + 1 ELSE d.age
    BY DeliveryFacts, BackoffFacts
  <2>. DEFINE e == [d EXCEPT !.wait = w, !.age = a]
  <2>3. Older(d) = e
    BY <1>2, <2>1, <2>2 DEF Older
  <2>4. /\ e \in Delivery /\ e.hook = d.hook /\ e.attempts = d.attempts /\ e.status = d.status
        /\ e.wait = w /\ e.age = a
    BY DEF Delivery
  <2>. HIDE DEF e
  <2>5. QED
    BY <1>2, <2>1, <2>2, <2>3, <2>4
<1>3. QED
  BY <1>1, <1>2

-----------------------------------------------------------------------------
(* Webhooks: what becomes of a delivery *)

\* Only what is said of the hook may change with the registrations.
LEMMA NewDeliverySound ==
  ASSUME NEW hook \in Hook, hook.id <= made, NEW forced \in BOOLEAN,
         hook.failing => Failing(hook.id)
  PROVE  Sound(NewDelivery(hook, forced))
<1>. DEFINE first == [hook |-> hook.id, status |-> "failed", attempts |-> 1,
                      wait |-> NoRetry, age |-> 0]
<1>1. /\ first \in Delivery /\ first.hook = hook.id /\ first.attempts = 1 /\ first.age = 0
  <2>1. hook.id \in 1 .. MaxHooks /\ 1 \in 1 .. MaxAttempts /\ 0 \in 0 .. LongEnough
    BY BackoffFacts DEF Hook
  <2>2. QED
    BY <2>1, NoRetryFacts DEF Delivery
<1>2. NewDelivery(hook, forced) = IF hook.failing /\ ~forced THEN Failed(first) ELSE Succeeded(first)
  BY DEF NewDelivery
<1>. HIDE DEF first
<1>3. Sound(Failed(first)) \/ ~hook.failing
  BY <1>1, FailedFacts, BackoffFacts, NoRetryFacts DEF Sound, Coherent, Spaced
<1>4. Sound(Succeeded(first))
  BY <1>1, SucceededFacts DEF Sound, Coherent, Spaced
<1>5. QED
  BY <1>2, <1>3, <1>4

LEMMA RetriedSound ==
  ASSUME NEW d, Sound(d)
  PROVE  Sound(Retried(d)) /\ Follows(Retried(d), d)
<1>1. d \in Delivery /\ d.hook <= made /\ Coherent(d) /\ Spaced(d)
  BY DEF Sound
<1>2. d.attempts \in 1 .. MaxAttempts /\ d.age \in 0 .. LongEnough
  BY <1>1, DeliveryFacts
<1>3. CASE ~Due(d)
  BY <1>2, <1>3 DEF Retried, Sound, Follows
<1>4. CASE Due(d)
  <2>1. d.status = "failed" /\ d.wait = 0 /\ d.attempts < MaxAttempts
    BY <1>1, <1>4 DEF Due, Coherent
  <2>2. CASE ~Registered(d.hook)
    <3>1. Retried(d) = Dead(d)
      BY <1>4, <2>2 DEF Retried
    <3>2. QED
      BY <1>1, <1>2, <2>1, <2>2, <3>1, DeadFacts, BackoffFacts
      DEF Sound, Coherent, Spaced, Follows
  <2>3. CASE Registered(d.hook)
    <3>. DEFINE again == [d EXCEPT !.attempts = @ + 1]
    <3>1. /\ again \in Delivery /\ again.hook = d.hook /\ again.attempts = d.attempts + 1
          /\ again.age = d.age
      BY <1>1, <2>1, AgainFacts
    <3>2. Failing(d.hook)
      BY <1>1, <2>1, <2>3 DEF Coherent
    <3>3. Retried(d) = IF again.attempts >= MaxAttempts THEN Dead(again) ELSE Failed(again)
      <4>1. Retried(d) = Attempted(d)
        BY <1>4, <2>3 DEF Retried
      <4>2. again.attempts >= MaxAttempts \/ again.attempts < MaxAttempts
        BY <1>2, <3>1, BackoffFacts
      <4>3. again.attempts >= MaxAttempts => ~(again.attempts < MaxAttempts)
        BY <1>2, <3>1, BackoffFacts
      <4>4. QED
        BY <3>2, <4>1, <4>2, <4>3 DEF Attempted
    <3>. HIDE DEF again
    <3>4. d.age >= 2 * Backoff(d.attempts) - 1
      BY <1>1, <1>2, <2>1, BackoffFacts DEF Spaced
    <3>5. 2 * Backoff(d.attempts) = Backoff(d.attempts + 1)
      BY <1>2, <2>1, BackoffFacts
    <3>6. CASE again.attempts >= MaxAttempts
      <4>1. again.attempts = MaxAttempts
        BY <1>2, <2>1, <3>1, <3>6, BackoffFacts
      <4>2. again.age >= LongEnough - 1
        BY <3>1, <3>4, <3>5, <4>1, BackoffFacts
      <4>3. Retried(d) = Dead(again)
        BY <3>3, <3>6
      <4>4. QED
        BY <1>1, <1>2, <2>1, <3>1, <4>1, <4>2, <4>3, DeadFacts
        DEF Sound, Coherent, Spaced, Follows
    <3>7. CASE ~(again.attempts >= MaxAttempts)
      <4>1. Retried(d) = Failed(again)
        BY <3>3, <3>7
      <4>2. again.attempts \in 1 .. MaxAttempts - 1
        BY <1>2, <3>1, <3>7, BackoffFacts
      <4>3. Backoff(again.attempts) \in Nat
        BY <4>2, BackoffFacts
      <4>4. again.age + Backoff(again.attempts) >= 2 * Backoff(again.attempts) - 1
        BY <1>2, <3>1, <3>4, <3>5, <4>3
      <4>5. PICK e \in Delivery :
              /\ e = Retried(d) /\ e.hook = d.hook /\ e.attempts = d.attempts + 1
              /\ e.attempts = again.attempts /\ e.age = again.age /\ e.status = "failed"
              /\ e.wait = Backoff(again.attempts)
        BY <3>1, <4>1, FailedFacts
      <4>6. Coherent(e) /\ Spaced(e)
        BY <1>2, <3>2, <4>2, <4>3, <4>4, <4>5, BackoffFacts, NoRetryFacts
        DEF Coherent, Spaced
      <4>7. QED
        BY <1>1, <1>2, <2>1, <4>5, <4>6 DEF Sound, Follows
    <3>8. QED
      BY <3>6, <3>7
  <2>4. QED
    BY <2>2, <2>3
<1>5. QED
  BY <1>3, <1>4

LEMMA OlderSound ==
  ASSUME NEW d, Sound(d)
  PROVE  Sound(Older(d)) /\ Follows(Older(d), d)
<1>1. d \in Delivery /\ d.hook <= made /\ Coherent(d) /\ Spaced(d)
  BY DEF Sound
<1>2. /\ d.attempts \in 1 .. MaxAttempts /\ d.age \in 0 .. LongEnough
      /\ d.wait \in NoRetry .. LongEnough
  BY <1>1, DeliveryFacts
<1>3. CASE d.status # "failed"
  BY <1>1, <1>2, <1>3, OlderFacts DEF Sound, Follows
<1>4. CASE d.status = "failed"
  <2>1. d.wait >= 0 /\ d.attempts < MaxAttempts
    BY <1>1, <1>2, <1>4, NoRetryFacts DEF Coherent
  <2>2. d.age + d.wait >= 2 * Backoff(d.attempts) - 1
    BY <1>1, <1>4 DEF Spaced
  <2>3. 2 * Backoff(d.attempts) <= LongEnough /\ Backoff(d.attempts) \in Nat
    <3>1. d.attempts + 1 \in 1 .. MaxAttempts /\ d.attempts \in 1 .. MaxAttempts - 1
      BY <1>2, <2>1, BackoffFacts
    <3>2. QED
      BY <3>1, BackoffFacts
  <2>4. PICK e \in Delivery : e = Older(d)
    BY <1>1, OlderFacts
  <2>5. /\ e.hook = d.hook /\ e.attempts = d.attempts /\ e.status = "failed"
        /\ e.wait = IF d.wait > 0 THEN d.wait - 1 ELSE d.wait
        /\ e.age = IF d.age < LongEnough THEN d.age + 1 ELSE d.age
    BY <1>1, <1>4, <2>4, OlderFacts
  <2>6. e.wait >= 0 /\ e.age + e.wait >= 2 * Backoff(d.attempts) - 1
    BY <1>2, <2>1, <2>2, <2>3, <2>5, BackoffFacts, NoRetryFacts
  <2>7. Coherent(e) /\ Spaced(e)
    BY <1>1, <1>2, <1>4, <2>1, <2>5, <2>6, NoRetryFacts DEF Coherent, Spaced
  <2>8. QED
    BY <1>1, <1>2, <1>4, <2>4, <2>5, <2>7 DEF Sound, Follows
<1>5. QED
  BY <1>3, <1>4
-----------------------------------------------------------------------------
(* Webhooks: the lists *)

LEMMA InFront ==
  ASSUME NEW S, NEW s \in Seq(S), NEW e \in S
  PROVE  LET r == <<e>> \o s IN
         /\ r \in Seq(S) /\ Len(r) = Len(s) + 1 /\ r[1] = e
         /\ \A i \in 2 .. Len(r) : i - 1 \in 1 .. Len(s) /\ r[i] = s[i - 1]
<1>. DEFINE one == <<e>>
            r == one \o s
<1>1. one \in Seq(S) /\ Len(one) = 1 /\ one[1] = e /\ Len(s) \in Nat
  BY LenProperties
<1>. HIDE DEF one
<1>2. /\ r \in Seq(S) /\ Len(r) = Len(one) + Len(s)
      /\ \A i \in 1 .. Len(one) + Len(s) :
           r[i] = IF i <= Len(one) THEN one[i] ELSE s[i - Len(one)]
  BY <1>1, ConcatProperties
<1>. HIDE DEF r
<1>3. /\ r \in Seq(S) /\ Len(r) = Len(s) + 1 /\ r[1] = e
      /\ \A i \in 2 .. Len(r) : i - 1 \in 1 .. Len(s) /\ r[i] = s[i - 1]
  BY <1>1, <1>2
<1>4. QED
  BY <1>3 DEF r, one

LEMMA StoreFacts ==
  ASSUME NEW s \in Seq(Delivery), Len(s) <= LogLimit, NEW d \in Delivery
  PROVE  LET r == Store(s, d) IN
         /\ r \in Seq(Delivery)
         /\ Len(r) = IF Len(s) < LogLimit THEN Len(s) + 1 ELSE LogLimit
         /\ r[1] = d /\ \A i \in 2 .. Len(r) : r[i] = s[i - 1]
<1>. DEFINE longer == <<d>> \o s
<1>1. Len(s) \in Nat /\ LogLimit \in Nat /\ LogLimit > 0
  BY LenProperties, WebhookAssumption
<1>2. /\ longer \in Seq(Delivery) /\ Len(longer) = 1 + Len(s) /\ longer[1] = d
      /\ \A i \in 2 .. Len(longer) : longer[i] = s[i - 1]
  BY <1>1, InFront
<1>. HIDE DEF longer
<1>3. CASE Len(longer) <= LogLimit
  <2>1. Store(s, d) = longer
    BY <1>3 DEF Store, longer
  <2>2. QED
    BY <1>1, <1>2, <1>3, <2>1
<1>4. CASE ~(Len(longer) <= LogLimit)
  <2>. DEFINE r == SubSeq(longer, 1, LogLimit)
  <2>1. Store(s, d) = r
    BY <1>4 DEF Store, longer
  <2>2. \A i \in 1 .. LogLimit : longer[i] \in Delivery
    BY <1>1, <1>2, <1>4, ElementOfSeq
  <2>3. /\ r \in Seq(Delivery)
        /\ Len(r) = IF 1 <= LogLimit THEN LogLimit - 1 + 1 ELSE 0
        /\ \A i \in 1 .. LogLimit - 1 + 1 : r[i] = longer[1 + i - 1]
    BY <1>1, <2>2, SubSeqProperties
  <2>. HIDE DEF r
  <2>4. Len(r) = LogLimit /\ \A i \in 1 .. LogLimit : r[i] = longer[i]
    BY <1>1, <2>3
  <2>5. Len(s) = LogLimit
    BY <1>1, <1>2, <1>4
  <2>6. QED
    BY <1>1, <1>2, <2>1, <2>3, <2>4, <2>5
<1>5. QED
  BY <1>3, <1>4

LEMMA RemovalFacts ==
  ASSUME NEW s \in Seq(Hook), NEW k \in 1 .. Len(s)
  PROVE  LET r == RemoveAt(s, k) IN
         /\ r \in Seq(Hook) /\ Len(r) = Len(s) - 1
         /\ \A j \in 1 .. Len(s) - 1 :
              r[j] = IF j < k THEN s[j] ELSE s[j + 1]
<1>. DEFINE n == Len(s)
            before == SubSeq(s, 1, k - 1)
            after == SubSeq(s, k + 1, n)
            r == before \o after
<1>1. n \in Nat /\ k \in Nat /\ k >= 1 /\ k <= n /\ \A j \in 1 .. n : s[j] \in Hook
  BY ElementOfSeq, LenProperties
<1>2. before \in Seq(Hook) /\ Len(before) = k - 1 /\ \A j \in 1 .. k - 1 : before[j] = s[j]
  <2>1. \A j \in 1 .. k - 1 : s[j] \in Hook
    BY <1>1
  <2>2. /\ before \in Seq(Hook)
        /\ Len(before) = IF 1 <= k - 1 THEN (k - 1) - 1 + 1 ELSE 0
        /\ \A j \in 1 .. (k - 1) - 1 + 1 : before[j] = s[1 + j - 1]
    BY <1>1, <2>1, SubSeqProperties
  <2>. HIDE DEF before
  <2>3. QED
    BY <1>1, <2>2
<1>3. after \in Seq(Hook) /\ Len(after) = n - k /\ \A j \in 1 .. n - k : after[j] = s[j + k]
  <2>1. \A j \in k + 1 .. n : s[j] \in Hook
    BY <1>1
  <2>2. /\ after \in Seq(Hook)
        /\ Len(after) = IF k + 1 <= n THEN n - (k + 1) + 1 ELSE 0
        /\ \A j \in 1 .. n - (k + 1) + 1 : after[j] = s[(k + 1) + j - 1]
    BY <1>1, <2>1, SubSeqProperties
  <2>. HIDE DEF after
  <2>3. QED
    BY <1>1, <2>2
<1>. HIDE DEF before, after
<1>4. /\ r \in Seq(Hook) /\ Len(r) = Len(before) + Len(after)
      /\ \A j \in 1 .. Len(before) + Len(after) :
           r[j] = IF j <= Len(before) THEN before[j] ELSE after[j - Len(before)]
  BY <1>2, <1>3, ConcatProperties
<1>5. RemoveAt(s, k) = r
  BY DEF RemoveAt, before, after
<1>. HIDE DEF r
<1>6. Len(r) = n - 1
  BY <1>1, <1>2, <1>3, <1>4
<1>7. \A j \in 1 .. n - 1 : r[j] = IF j < k THEN s[j] ELSE s[j + 1]
  <2>. HIDE DEF n
  <2>1. SUFFICES ASSUME NEW j \in 1 .. n - 1 PROVE r[j] = IF j < k THEN s[j] ELSE s[j + 1]
    OBVIOUS
  <2>2. r[j] = IF j <= k - 1 THEN before[j] ELSE after[j - (k - 1)]
    BY <1>1, <1>2, <1>3, <1>4
  <2>3. CASE j < k
    BY <1>1, <1>2, <2>2, <2>3
  <2>4. CASE ~(j < k)
    <3>1. j - (k - 1) \in 1 .. n - k /\ (j - (k - 1)) + k = j + 1
      BY <1>1, <2>4
    <3>2. QED
      BY <1>1, <1>3, <2>2, <2>4, <3>1
  <2>5. QED
    BY <2>3, <2>4
<1>8. QED
  BY <1>4, <1>5, <1>6, <1>7

-----------------------------------------------------------------------------
(* Webhooks: the steps *)

LEMMA SoundKept ==
  ASSUME UNCHANGED <<hooks, made>>, NEW d, Sound(d)
  PROVE  Sound(d)'
BY DEF Sound, Coherent, Spaced, Registered, Failing

LEMMA InitIInv == Init => IInv
<1>. SUFFICES ASSUME Init PROVE IInv
  OBVIOUS
<1>1. hooks = << >> /\ log = << >> /\ Len(hooks) = 0 /\ Len(log) = 0
  BY DEF Init
<1>2. hooks \in Seq(Hook) /\ log \in Seq(Delivery)
  BY <1>1
<1>3. TypeOK
  BY <1>1, <1>2, WebhookAssumption DEF Init, TypeOK
<1>4. QED
  BY <1>1, <1>3 DEF IInv, DistinctHooks

\* A step that leaves the registrations alone.
LEMMA SameHooksInv ==
  ASSUME IInv, UNCHANGED <<hooks, made>>, log' \in Seq(Delivery), Len(log') <= LogLimit,
         fanOut' \in [event : EventTypes, seen : 0 .. Len(hooks)] \cup {Idle},
         \A i \in 1 .. Len(log') : Sound(log'[i])
  PROVE  IInv'
<1>1. TypeOK' /\ DistinctHooks'
  BY DEF IInv, TypeOK, DistinctHooks
<1>2. \A i \in 1 .. Len(log') : Sound(log[i])'
  BY SoundKept
<1>3. QED
  BY <1>1, <1>2 DEF IInv

\* A delivery is stored.
LEMMA StoredInv ==
  ASSUME IInv, NEW d, Sound(d), UNCHANGED <<hooks, made>>, log' = Store(log, d),
         fanOut' \in [event : EventTypes, seen : 0 .. Len(hooks)] \cup {Idle}
  PROVE  IInv' /\ Pushed
<1>1. log \in Seq(Delivery) /\ Len(log) <= LogLimit /\ d \in Delivery /\ Len(log) \in Nat
  BY LenProperties DEF IInv, TypeOK, Sound
<1>2. /\ log' \in Seq(Delivery)
      /\ Len(log') = IF Len(log) < LogLimit THEN Len(log) + 1 ELSE LogLimit
      /\ log'[1] = d /\ \A i \in 2 .. Len(log') : log'[i] = log[i - 1]
  BY <1>1, StoreFacts
<1>3. Len(log') \in Nat /\ Len(log') <= LogLimit /\ Len(log') <= Len(log) + 1
  BY <1>1, <1>2, WebhookAssumption
<1>4. \A i \in 1 .. Len(log') : Sound(log'[i])
  <2>1. SUFFICES ASSUME NEW i \in 1 .. Len(log') PROVE Sound(log'[i])
    OBVIOUS
  <2>2. CASE i = 1
    BY <1>2, <2>2
  <2>3. CASE i # 1
    <3>1. i \in 2 .. Len(log') /\ i - 1 \in 1 .. Len(log)
      BY <1>1, <1>3, <2>3
    <3>2. QED
      BY <1>2, <3>1 DEF IInv
  <2>4. QED
    BY <2>2, <2>3
<1>5. QED
  BY <1>2, <1>3, <1>4, SameHooksInv DEF Pushed

\* All deliveries are looked at, each in its place.
LEMMA InPlaceInv ==
  ASSUME IInv, UNCHANGED <<hooks, made, fanOut>>, log' = [i \in DOMAIN log |-> log'[i]],
         \A i \in 1 .. Len(log) : Sound(log'[i]) /\ Follows(log'[i], log[i])
  PROVE  IInv' /\ KeptInPlace
<1>. DEFINE n == Len(log)
<1>1. log \in Seq(Delivery) /\ n <= LogLimit /\ n \in Nat /\ DOMAIN log = 1 .. n
  BY LenProperties DEF IInv, TypeOK
<1>2. log' \in [1 .. n -> Delivery]
  BY <1>1 DEF Sound
<1>3. log' \in Seq(Delivery) /\ Len(log') = n
  BY <1>1, <1>2, SeqDef, LenProperties
<1>4. fanOut' \in [event : EventTypes, seen : 0 .. Len(hooks)] \cup {Idle}
  BY DEF IInv, TypeOK
<1>. HIDE DEF n
<1>5. IInv'
  BY <1>1, <1>2, <1>3, <1>4, SameHooksInv DEF n
<1>6. KeptInPlace
  BY <1>2, <1>3 DEF KeptInPlace, n
<1>7. QED
  BY <1>5, <1>6

\* The registrations change and the log does not: it is enough that no id is
\* registered that was not, and that the failing ones that stay go on failing.
LEMMA OtherHooksInv ==
  ASSUME IInv, fanOut = Idle, UNCHANGED <<log, fanOut>>,
         hooks' \in Seq(Hook), Len(hooks') <= made', made' \in made .. MaxHooks,
         DistinctHooks',
         \A id \in 1 .. made :
           /\ Registered(id)' => Registered(id)
           /\ Registered(id)' /\ Failing(id) => Failing(id)'
  PROVE  IInv' /\ KeptInPlace
<1>1. log \in Seq(Delivery) /\ Len(log) <= LogLimit /\ made \in 0 .. MaxHooks
  BY DEF IInv, TypeOK
<1>2. TypeOK'
  BY <1>1, WebhookAssumption DEF TypeOK
<1>3. ASSUME NEW i \in 1 .. Len(log) PROVE Sound(log[i])' /\ Follows(log[i], log[i])
  <2>1. PICK d \in Delivery : d = log[i] /\ Sound(d)
    BY DEF IInv, Sound
  <2>2. d.hook \in 1 .. made /\ d.attempts \in 1 .. MaxAttempts
    BY <1>1, <2>1, DeliveryFacts, WebhookAssumption DEF Sound
  <2>3. /\ Registered(d.hook)' => Registered(d.hook)
        /\ Registered(d.hook)' /\ Failing(d.hook) => Failing(d.hook)'
    BY <2>2
  <2>4. d.hook <= made'
    BY <1>1, <2>2
  <2>5. Sound(d)'
    BY <2>1, <2>3, <2>4 DEF Sound, Coherent, Spaced
  <2>6. Follows(d, d)
    BY <2>2, BackoffFacts DEF Follows
  <2>7. QED
    BY <2>1, <2>5, <2>6
<1>4. IInv'
  BY <1>2, <1>3 DEF IInv
<1>5. KeptInPlace
  BY <1>3 DEF KeptInPlace
<1>6. QED
  BY <1>4, <1>5

LEMMA RegisterFacts ==
  ASSUME IInv, NEW types \in SUBSET EventTypes, NEW failing \in BOOLEAN,
         RegisterWebhook(types, failing)
  PROVE  /\ Len(hooks) \in Nat /\ Len(hooks) <= made /\ made \in 0 .. MaxHooks
         /\ made' = made + 1 /\ made' \in 1 .. MaxHooks
         /\ hooks' \in Seq(Hook) /\ Len(hooks') = Len(hooks) + 1
         /\ hooks'[1].id = made'
         /\ \A k \in 2 .. Len(hooks') : k - 1 \in 1 .. Len(hooks) /\ hooks'[k] = hooks[k - 1]
         /\ \A k \in 1 .. Len(hooks) : k + 1 \in 1 .. Len(hooks') /\ hooks'[k + 1] = hooks[k]
<1>. DEFINE h == [id |-> made', types |-> types, failing |-> failing]
<1>1. /\ hooks \in Seq(Hook) /\ Len(hooks) \in Nat /\ Len(hooks) <= made
      /\ made \in 0 .. MaxHooks /\ made' = made + 1 /\ made' \in 1 .. MaxHooks
  BY LenProperties, WebhookAssumption DEF IInv, TypeOK, RegisterWebhook
<1>2. h \in Hook /\ h.id = made'
  BY <1>1 DEF Hook
<1>3. hooks' = <<h>> \o hooks
  BY DEF RegisterWebhook
<1>. HIDE DEF h
<1>4. /\ hooks' \in Seq(Hook) /\ Len(hooks') = Len(hooks) + 1 /\ hooks'[1] = h
      /\ \A k \in 2 .. Len(hooks') : k - 1 \in 1 .. Len(hooks) /\ hooks'[k] = hooks[k - 1]
  BY <1>1, <1>2, <1>3, InFront
<1>5. \A k \in 1 .. Len(hooks) : k + 1 \in 1 .. Len(hooks') /\ hooks'[k + 1] = hooks[k]
  <2>1. \A k \in 1 .. Len(hooks) :
          k + 1 \in 2 .. Len(hooks') /\ k + 1 \in 1 .. Len(hooks') /\ (k + 1) - 1 = k
    BY <1>1, <1>4
  <2>2. \A k \in 2 .. Len(hooks') : hooks'[k] = hooks[k - 1]
    BY <1>4
  <2>3. QED
    BY <2>1, <2>2
<1>6. QED
  BY <1>1, <1>2, <1>4, <1>5

\* A new id is registered, the others as before.
LEMMA RegisteredFacts ==
  ASSUME IInv, NEW types \in SUBSET EventTypes, NEW failing \in BOOLEAN,
         RegisterWebhook(types, failing)
  PROVE  /\ \A id \in 1 .. made' : id = made' => Registered(id)'
         /\ \A id \in 1 .. made : Registered(id)' <=> Registered(id)
<1>1. ASSUME NEW id \in 1 .. made', id = made' PROVE Registered(id)'
  <2>1. Len(hooks) \in Nat /\ Len(hooks') = Len(hooks) + 1 /\ hooks'[1].id = made'
    BY RegisterFacts
  <2>2. 1 \in 1 .. Len(hooks') /\ hooks'[1].id = id
    BY <1>1, <2>1
  <2>3. QED
    BY <2>2 DEF Registered
<1>2. ASSUME NEW id \in 1 .. made, Registered(id)' PROVE Registered(id)
  <2>1. PICK k \in 1 .. Len(hooks') : hooks'[k].id = id
    BY <1>2 DEF Registered
  <2>2. k # 1
    BY <2>1, RegisterFacts
  <2>3. k - 1 \in 1 .. Len(hooks) /\ hooks[k - 1].id = id
    BY <2>1, <2>2, RegisterFacts
  <2>4. QED
    BY <2>3 DEF Registered
<1>3. ASSUME NEW id \in 1 .. made, Registered(id) PROVE Registered(id)'
  <2>1. PICK k \in 1 .. Len(hooks) : hooks[k].id = id
    BY <1>3 DEF Registered
  <2>2. k + 1 \in 1 .. Len(hooks') /\ hooks'[k + 1].id = id
    BY <2>1, RegisterFacts
  <2>3. QED
    BY <2>2 DEF Registered
<1>4. QED
  BY <1>1, <1>2, <1>3

LEMMA RegisterInv ==
  ASSUME IInv, NEW types \in SUBSET EventTypes, NEW failing \in BOOLEAN,
         RegisterWebhook(types, failing)
  PROVE  IInv' /\ KeptInPlace
<1>1. /\ Len(hooks) \in Nat /\ Len(hooks) <= made /\ made \in 0 .. MaxHooks
      /\ made' = made + 1 /\ made' \in 1 .. MaxHooks
      /\ hooks \in Seq(Hook) /\ hooks' \in Seq(Hook)
  BY RegisterFacts DEF IInv, TypeOK
<1>2. /\ Len(hooks') = Len(hooks) + 1 /\ hooks'[1].id = made'
      /\ \A k \in 2 .. Len(hooks') : k - 1 \in 1 .. Len(hooks) /\ hooks'[k] = hooks[k - 1]
      /\ \A k \in 1 .. Len(hooks) : k + 1 \in 1 .. Len(hooks') /\ hooks'[k + 1] = hooks[k]
  BY RegisterFacts
<1>3. /\ \A k \in 1 .. Len(hooks) : hooks[k].id \in 1 .. made
      /\ \A j, k \in 1 .. Len(hooks) : hooks[j].id = hooks[k].id => j = k
  <2>1. ASSUME NEW k \in 1 .. Len(hooks) PROVE hooks[k].id \in 1 .. made
    <3>1. hooks[k] \in Hook /\ hooks[k].id <= made
      BY <1>1, ElementOfSeq DEF IInv, DistinctHooks
    <3>2. QED
      BY <1>1, <3>1 DEF Hook
  <2>2. QED
    BY <2>1 DEF IInv, DistinctHooks
<1>4. DistinctHooks'
  <2>1. ASSUME NEW k \in 1 .. Len(hooks')
        PROVE  hooks'[k].id = IF k = 1 THEN made' ELSE hooks[k - 1].id
    BY <1>1, <1>2
  <2>2. ASSUME NEW k \in 1 .. Len(hooks'), k # 1
        PROVE  k - 1 \in 1 .. Len(hooks) /\ hooks[k - 1].id \in 1 .. made
    <3>1. Len(hooks') \in Nat
      BY <1>1, <1>2
    <3>2. k \in 2 .. Len(hooks')
      BY <2>2, <3>1
    <3>3. k - 1 \in 1 .. Len(hooks)
      BY <1>2, <3>2
    <3>4. QED
      BY <1>3, <3>3
  <2>3. \A k \in 1 .. Len(hooks') : hooks'[k].id <= made'
    BY <1>1, <2>1, <2>2
  <2>4. ASSUME NEW j \in 1 .. Len(hooks'), NEW k \in 1 .. Len(hooks'),
               hooks'[j].id = hooks'[k].id
        PROVE  j = k
    <3>1. ASSUME NEW a \in 1 .. Len(hooks'), NEW b \in 1 .. Len(hooks'),
                 hooks'[a].id = hooks'[b].id, a = 1
          PROVE  b = 1
      <4>1. hooks'[b].id = made + 1
        BY <1>1, <2>1, <3>1
      <4>2. SUFFICES ASSUME b # 1 PROVE FALSE
        OBVIOUS
      <4>3. hooks'[b].id \in 1 .. made
        BY <2>1, <2>2, <4>2
      <4>4. QED
        BY <1>1, <4>1, <4>3
    <3>2. CASE j = 1 \/ k = 1
      BY <2>4, <3>1, <3>2
    <3>3. CASE j # 1 /\ k # 1
      <4>1. /\ j - 1 \in 1 .. Len(hooks) /\ k - 1 \in 1 .. Len(hooks)
            /\ hooks[j - 1].id = hooks[k - 1].id
        BY <2>1, <2>2, <2>4, <3>3
      <4>2. j - 1 = k - 1
        BY <1>3, <4>1
      <4>3. j \in Int /\ k \in Int
        OBVIOUS
      <4>4. QED
        BY <4>2, <4>3
    <3>4. QED
      BY <3>2, <3>3
  <2>5. QED
    BY <2>3, <2>4 DEF DistinctHooks
<1>5. ASSUME NEW id \in 1 .. made
      PROVE  /\ Registered(id)' => Registered(id)
             /\ Failing(id) => Failing(id)'
  <2>1. Registered(id)' => Registered(id)
    BY RegisteredFacts
  <2>2. ASSUME Failing(id) PROVE Failing(id)'
    <3>1. PICK k \in 1 .. Len(hooks) : hooks[k].id = id /\ hooks[k].failing
      BY <2>2 DEF Failing
    <3>2. k + 1 \in 1 .. Len(hooks') /\ hooks'[k + 1].id = id /\ hooks'[k + 1].failing
      BY <1>2, <3>1
    <3>3. QED
      BY <3>2 DEF Failing
  <2>3. QED
    BY <2>1, <2>2
<1>6. Len(hooks') <= made' /\ made' \in made .. MaxHooks
  BY <1>1, <1>2
<1>7. fanOut = Idle /\ UNCHANGED <<log, fanOut>>
  BY DEF RegisterWebhook
<1>8. QED
  BY <1>1, <1>4, <1>5, <1>6, <1>7, OtherHooksInv

LEMMA RemoveInv ==
  ASSUME IInv, NEW k \in 1 .. Len(hooks), RemoveWebhook(k)
  PROVE  IInv' /\ KeptInPlace
<1>1. /\ hooks \in Seq(Hook) /\ Len(hooks) \in Nat /\ Len(hooks) <= made
      /\ made \in 0 .. MaxHooks /\ made' = made /\ hooks' = RemoveAt(hooks, k)
      /\ fanOut = Idle /\ UNCHANGED <<log, fanOut>>
  BY LenProperties, WebhookAssumption DEF IInv, TypeOK, RemoveWebhook
<1>2. /\ hooks' \in Seq(Hook) /\ Len(hooks') = Len(hooks) - 1
      /\ \A j \in 1 .. Len(hooks) - 1 :
           hooks'[j] = IF j < k THEN hooks[j] ELSE hooks[j + 1]
  BY <1>1, RemovalFacts
<1>3. ASSUME NEW j \in 1 .. Len(hooks')
      PROVE  \E i \in 1 .. Len(hooks) :
               hooks'[j] = hooks[i] /\ i = IF j < k THEN j ELSE j + 1
  BY <1>1, <1>2
<1>4. DistinctHooks'
  <2>1. \A j \in 1 .. Len(hooks') : hooks'[j].id <= made'
    BY <1>1, <1>3 DEF IInv, DistinctHooks
  <2>2. ASSUME NEW i \in 1 .. Len(hooks'), NEW j \in 1 .. Len(hooks'),
               hooks'[i].id = hooks'[j].id
        PROVE  i = j
    <3>1. PICK a \in 1 .. Len(hooks) :
            hooks'[i] = hooks[a] /\ a = IF i < k THEN i ELSE i + 1
      BY <1>3
    <3>2. PICK b \in 1 .. Len(hooks) :
            hooks'[j] = hooks[b] /\ b = IF j < k THEN j ELSE j + 1
      BY <1>3
    <3>3. a = b
      BY <2>2, <3>1, <3>2 DEF IInv, DistinctHooks
    <3>4. i \in Int /\ j \in Int /\ k \in Int
      BY <1>1, <1>2
    <3>5. QED
      BY <3>1, <3>2, <3>3, <3>4
  <2>3. QED
    BY <2>1, <2>2 DEF DistinctHooks
<1>5. ASSUME NEW id \in 1 .. made
      PROVE  /\ Registered(id)' => Registered(id)
             /\ Registered(id)' /\ Failing(id) => Failing(id)'
  <2>1. SUFFICES ASSUME Registered(id)'
                 PROVE  Registered(id) /\ (Failing(id) => Failing(id)')
    OBVIOUS
  <2>2. PICK j \in 1 .. Len(hooks') : hooks'[j].id = id
    BY <2>1 DEF Registered
  <2>3. PICK a \in 1 .. Len(hooks) : hooks'[j] = hooks[a]
    BY <1>3
  <2>4. Registered(id)
    BY <2>2, <2>3 DEF Registered
  <2>5. ASSUME Failing(id) PROVE Failing(id)'
    <3>1. PICK b \in 1 .. Len(hooks) : hooks[b].id = id /\ hooks[b].failing
      BY <2>5 DEF Failing
    <3>2. a = b
      BY <2>2, <2>3, <3>1 DEF IInv, DistinctHooks
    <3>3. hooks'[j].id = id /\ hooks'[j].failing
      BY <2>2, <2>3, <3>1, <3>2
    <3>4. QED
      BY <3>3 DEF Failing
  <2>6. QED
    BY <2>4, <2>5
<1>6. Len(hooks') <= made' /\ made' \in made .. MaxHooks
  BY <1>1, <1>2
<1>7. QED
  BY <1>1, <1>2, <1>4, <1>5, <1>6, OtherHooksInv

\* What a hook in the list says of itself is what is known of its id.
LEMMA HookFacts ==
  ASSUME IInv, NEW k \in 1 .. Len(hooks)
  PROVE  /\ hooks[k] \in Hook /\ hooks[k].id <= made
         /\ hooks[k].failing => Failing(hooks[k].id)
<1>1. hooks[k] \in Hook
  BY ElementOfSeq DEF IInv, TypeOK
<1>2. QED
  BY <1>1 DEF IInv, DistinctHooks, Failing

LEMMA SendTestInv ==
  ASSUME IInv, NEW k \in 1 .. Len(hooks), SendTestDelivery(k)
  PROVE  IInv' /\ Pushed
<1>1. Sound(NewDelivery(hooks[k], TRUE))
  BY HookFacts, NewDeliverySound
<1>2. /\ UNCHANGED <<hooks, made>> /\ log' = Store(log, NewDelivery(hooks[k], TRUE))
      /\ fanOut' \in [event : EventTypes, seen : 0 .. Len(hooks)] \cup {Idle}
  BY DEF SendTestDelivery, IInv, TypeOK
<1>3. QED
  BY <1>1, <1>2, StoredInv

\* A step that leaves both lists alone.
LEMMA SameListsInv ==
  ASSUME IInv, UNCHANGED <<hooks, made, log>>,
         fanOut' \in [event : EventTypes, seen : 0 .. Len(hooks)] \cup {Idle}
  PROVE  IInv' /\ KeptInPlace
<1>1. log' \in Seq(Delivery) /\ Len(log') <= LogLimit
  BY DEF IInv, TypeOK
<1>2. \A i \in 1 .. Len(log) : Sound(log[i])
  BY DEF IInv
<1>3. IInv'
  BY <1>1, <1>2, SameHooksInv
<1>4. ASSUME NEW i \in 1 .. Len(log) PROVE Follows(log'[i], log[i])
  <2>1. log[i].attempts \in 1 .. MaxAttempts
    BY <1>2, DeliveryFacts DEF Sound
  <2>2. QED
    BY <2>1, BackoffFacts DEF Follows
<1>5. QED
  BY <1>3, <1>4 DEF KeptInPlace

LEMMA VisitInv ==
  ASSUME IInv, Visit
  PROVE  IInv' /\ (Pushed \/ KeptInPlace)
<1>1. PICK e \in EventTypes, n \in 0 .. Len(hooks) : fanOut = [event |-> e, seen |-> n]
  BY DEF IInv, TypeOK, Visit
<1>2. /\ n + 1 \in 1 .. Len(hooks) /\ NextHook = hooks[n + 1]
      /\ fanOut' = [event |-> e, seen |-> n + 1]
  BY <1>1 DEF Visit, NextHook
<1>3. fanOut' \in [event : EventTypes, seen : 0 .. Len(hooks)] \cup {Idle}
  BY <1>2
<1>4. Sound(NewDelivery(NextHook, FALSE))
  BY <1>2, HookFacts, NewDeliverySound
<1>5. UNCHANGED <<hooks, made>> /\ (log' = log \/ log' = Store(log, NewDelivery(NextHook, FALSE)))
  BY DEF Visit
<1>6. CASE log' = log
  BY <1>3, <1>5, <1>6, SameListsInv
<1>7. CASE log' = Store(log, NewDelivery(NextHook, FALSE))
  BY <1>3, <1>4, <1>5, <1>7, StoredInv
<1>8. QED
  BY <1>5, <1>6, <1>7

LEMMA RetryInv ==
  ASSUME IInv, RetryDueDeliveries
  PROVE  IInv' /\ KeptInPlace
<1>1. DOMAIN log = 1 .. Len(log)
  BY LenProperties DEF IInv, TypeOK
<1>2. \A i \in 1 .. Len(log) : Sound(Retried(log[i])) /\ Follows(Retried(log[i]), log[i])
  BY RetriedSound DEF IInv
<1>3. /\ UNCHANGED <<hooks, made, fanOut>> /\ log' = [i \in DOMAIN log |-> log'[i]]
      /\ \A i \in DOMAIN log : log'[i] = Retried(log[i])
  BY DEF RetryDueDeliveries
<1>4. QED
  BY <1>1, <1>2, <1>3, InPlaceInv

LEMMA TickInv ==
  ASSUME IInv, Tick
  PROVE  IInv' /\ KeptInPlace
<1>1. DOMAIN log = 1 .. Len(log)
  BY LenProperties DEF IInv, TypeOK
<1>2. \A i \in 1 .. Len(log) : Sound(Older(log[i])) /\ Follows(Older(log[i]), log[i])
  BY OlderSound DEF IInv
<1>3. /\ UNCHANGED <<hooks, made, fanOut>> /\ log' = [i \in DOMAIN log |-> log'[i]]
      /\ \A i \in DOMAIN log : log'[i] = Older(log[i])
  BY DEF Tick
<1>4. QED
  BY <1>1, <1>2, <1>3, InPlaceInv

LEMMA NextIInv ==
  ASSUME IInv, [Next]_vars
  PROVE  IInv' /\ (Pushed \/ KeptInPlace)
<1>1. ASSUME NEW types \in SUBSET EventTypes, NEW failing \in BOOLEAN,
             RegisterWebhook(types, failing)
      PROVE  IInv' /\ KeptInPlace
  BY <1>1, RegisterInv
<1>2. ASSUME NEW k \in 1 .. Len(hooks), RemoveWebhook(k) PROVE IInv' /\ KeptInPlace
  BY <1>2, RemoveInv
<1>3. ASSUME NEW k \in 1 .. Len(hooks), SendTestDelivery(k) PROVE IInv' /\ Pushed
  BY <1>3, SendTestInv
<1>4. Len(hooks) \in Nat /\ 0 \in 0 .. Len(hooks)
  BY LenProperties DEF IInv, TypeOK
<1>5. ASSUME NEW event \in EventTypes, Publish(event) PROVE IInv' /\ KeptInPlace
  <2>1. fanOut' \in [event : EventTypes, seen : 0 .. Len(hooks)] \cup {Idle}
    BY <1>4, <1>5 DEF Publish
  <2>2. QED
    BY <1>5, <2>1, SameListsInv DEF Publish
<1>6. CASE Visit
  BY <1>6, VisitInv
<1>7. CASE FinishEvent
  BY <1>7, SameListsInv DEF FinishEvent
<1>8. CASE RetryDueDeliveries
  BY <1>8, RetryInv
<1>9. CASE Tick
  BY <1>9, TickInv
<1>10. CASE UNCHANGED vars
  BY <1>10, SameListsInv DEF vars, IInv, TypeOK
<1>11. QED
  BY <1>1, <1>2, <1>3, <1>5, <1>6, <1>7, <1>8, <1>9, <1>10 DEF Next

-----------------------------------------------------------------------------
(* Webhooks: removed registrations *)

Places(id, statuses, s) == {i \in 1 .. Len(s) : s[i].hook = id /\ s[i].status \in statuses}

LEMMA PlacesFinite ==
  ASSUME NEW s, Len(s) \in Nat, NEW id, NEW statuses
  PROVE  /\ IsFiniteSet(Places(id, statuses, s))
         /\ To(id, statuses, s) = Cardinality(Places(id, statuses, s))
<1>1. IsFiniteSet(1 .. Len(s)) /\ Places(id, statuses, s) \in SUBSET (1 .. Len(s))
  BY FS_Interval DEF Places
<1>2. QED
  BY <1>1, FS_Subset DEF Places, To

\* Deliveries that stay in their places and enter no status counted.
LEMMA FewerInPlace ==
  ASSUME NEW s, NEW r, Len(s) \in Nat, Len(r) = Len(s), NEW id, NEW statuses,
         \A i \in 1 .. Len(s) : r[i].hook = id /\ r[i].status \in statuses
                                  => s[i].hook = id /\ s[i].status \in statuses
  PROVE  To(id, statuses, r) <= To(id, statuses, s)
<1>1. Places(id, statuses, r) \in SUBSET Places(id, statuses, s)
  BY DEF Places
<1>2. QED
  BY <1>1, PlacesFinite, FS_Subset

\* A delivery of another hook goes in front.
LEMMA FewerBehind ==
  ASSUME NEW s, NEW r, Len(s) \in Nat, Len(r) \in Nat, Len(r) <= Len(s) + 1,
         NEW id, NEW statuses, r[1].hook # id, \A i \in 2 .. Len(r) : r[i] = s[i - 1]
  PROVE  To(id, statuses, r) <= To(id, statuses, s)
<1>. DEFINE old == Places(id, statuses, s)
            new == Places(id, statuses, r)
            from == [i \in new |-> i - 1]
<1>1. ASSUME NEW i \in new PROVE i \in Int /\ i - 1 \in old
  <2>1. i \in 1 .. Len(r) /\ r[i].hook = id /\ r[i].status \in statuses
    BY DEF Places
  <2>2. i \in 2 .. Len(r)
    BY <2>1
  <2>3. i - 1 \in 1 .. Len(s) /\ r[i] = s[i - 1]
    BY <2>2
  <2>4. QED
    BY <2>1, <2>3 DEF Places
<1>2. from \in Injection(new, old)
  <2>1. from \in [new -> old]
    BY <1>1
  <2>2. \A i, j \in new : from[i] = from[j] => i = j
    BY <1>1
  <2>3. QED
    BY <2>1, <2>2 DEF Injection, IsInjective
<1>3. Cardinality(new) <= Cardinality(old)
  BY <1>2, PlacesFinite, FS_Injection
<1>4. QED
  BY <1>3, PlacesFinite

LEMMA StoredSilent ==
  ASSUME IInv, NEW k \in 1 .. Len(hooks), NEW forced \in BOOLEAN,
         log' = Store(log, NewDelivery(hooks[k], forced)), NEW id, ~Registered(id)
  PROVE  Silent(id)
<1>. DEFINE d == NewDelivery(hooks[k], forced)
<1>1. d \in Delivery
  BY HookFacts, NewDeliverySound DEF Sound
<1>2. d.hook # id
  <2>1. hooks[k].id # id
    BY DEF Registered
  <2>2. d.hook = hooks[k].id
    BY DEF NewDelivery, Succeeded, Failed
  <2>3. QED
    BY <2>1, <2>2
<1>. HIDE DEF d
<1>3. log \in Seq(Delivery) /\ Len(log) <= LogLimit /\ Len(log) \in Nat
  BY LenProperties DEF IInv, TypeOK
<1>4. /\ Len(log') = IF Len(log) < LogLimit THEN Len(log) + 1 ELSE LogLimit
      /\ log'[1] = d /\ \A i \in 2 .. Len(log') : log'[i] = log[i - 1]
  BY <1>1, <1>3, StoreFacts DEF d
<1>5. Len(log') \in Nat /\ Len(log') <= Len(log) + 1
  BY <1>3, <1>4, WebhookAssumption
<1>6. log'[1].hook # id
  BY <1>2, <1>4
<1>7. QED
  BY <1>3, <1>4, <1>5, <1>6, FewerBehind DEF Silent

\* A waiting delivery of a removed registration stays as it is or is given up.
LEMMA InPlaceSilent ==
  ASSUME IInv, Len(log') = Len(log), NEW id,
         \A i \in 1 .. Len(log) :
           /\ log'[i].hook = log[i].hook
           /\ log[i].hook = id /\ log'[i].status = "delivered" => log[i].status = "delivered"
  PROVE  Silent(id)
<1>1. Len(log) \in Nat
  BY LenProperties DEF IInv, TypeOK
<1>2. \A i \in 1 .. Len(log) : log[i].status \in {"delivered", "failed", "dead"}
  BY DeliveryFacts DEF IInv, Sound, Statuses
<1>3. To(id, {"delivered"}, log') <= To(id, {"delivered"}, log)
  BY <1>1, FewerInPlace
<1>4. To(id, {"delivered", "failed", "dead"}, log')
        <= To(id, {"delivered", "failed", "dead"}, log)
  BY <1>1, <1>2, FewerInPlace
<1>5. QED
  BY <1>3, <1>4 DEF Silent

LEMMA NextSilent ==
  ASSUME IInv, [Next]_vars, NEW id \in 1 .. made, ~Registered(id)
  PROVE  Silent(id)
<1>1. CASE log' = log
  BY <1>1, InPlaceSilent
<1>2. ASSUME NEW k \in 1 .. Len(hooks), SendTestDelivery(k) PROVE Silent(id)
  BY <1>2, StoredSilent DEF SendTestDelivery
<1>3. CASE Visit
  <2>1. PICK e \in EventTypes, n \in 0 .. Len(hooks) : fanOut = [event |-> e, seen |-> n]
    BY <1>3 DEF IInv, TypeOK, Visit
  <2>2. Len(hooks) \in Nat
    BY LenProperties DEF IInv, TypeOK
  <2>3. n + 1 \in 1 .. Len(hooks) /\ NextHook = hooks[n + 1]
    BY <1>3, <2>1, <2>2 DEF Visit, NextHook
  <2>4. log' = log \/ log' = Store(log, NewDelivery(hooks[n + 1], FALSE))
    BY <1>3, <2>3 DEF Visit
  <2>5. QED
    BY <1>1, <2>3, <2>4, StoredSilent
<1>4. DOMAIN log = 1 .. Len(log) /\ Len(log) \in Nat
  BY LenProperties DEF IInv, TypeOK
<1>5. CASE RetryDueDeliveries
  <2>1. Len(log') = Len(log)
    BY <1>5, RetryInv DEF KeptInPlace
  <2>2. ASSUME NEW i \in 1 .. Len(log)
        PROVE  /\ log'[i].hook = log[i].hook
               /\ log[i].hook = id /\ log'[i].status = "delivered"
                    => log[i].status = "delivered"
    <3>1. log[i] \in Delivery /\ log'[i] = Retried(log[i]) /\ Sound(log[i])
      BY <1>4, <1>5 DEF RetryDueDeliveries, IInv, Sound
    <3>2. Retried(log[i]).hook = log[i].hook
      BY <3>1, RetriedSound DEF Follows
    <3>3. log[i].hook = id => Retried(log[i]) = log[i] \/ Retried(log[i]) = Dead(log[i])
      BY DEF Retried
    <3>4. Dead(log[i]).status = "dead"
      BY <3>1, DeadFacts
    <3>5. QED
      BY <3>1, <3>2, <3>3, <3>4
  <2>3. QED
    BY <2>1, <2>2, InPlaceSilent
<1>6. CASE Tick
  <2>1. Len(log') = Len(log)
    BY <1>6, TickInv DEF KeptInPlace
  <2>2. ASSUME NEW i \in 1 .. Len(log)
        PROVE  log'[i].hook = log[i].hook /\ log'[i].status = log[i].status
    BY <1>4, <1>6, OlderFacts DEF Tick, IInv, Sound
  <2>3. QED
    BY <2>1, <2>2, InPlaceSilent
<1>7. QED
  BY <1>1, <1>2, <1>3, <1>5, <1>6
  DEF Next, vars, RegisterWebhook, RemoveWebhook, Publish, FinishEvent

-----------------------------------------------------------------------------
(* Webhooks: the fan-out *)

\* What FanOutExact says of the ids asked for and of a log.
Answered(wanted, s) ==
  LET n == Cardinality(wanted)
  IN  n <= LogLimit =>
        /\ n <= Len(s)
        /\ {s[i].hook : i \in 1 .. n} = wanted
        /\ \A i \in 1 .. n : s[i].status = "failed" <=> Failing(s[i].hook)

\* The ids of the first n registrations that asked for an event.
Wanting(event, n) == {hooks[k].id : k \in {j \in 1 .. n : event \in hooks[j].types}}

LEMMA WantingFacts ==
  ASSUME IInv, NEW event, NEW n \in 0 .. Len(hooks) - 1
  PROVE  LET more == Wanting(event, n) \cup {hooks[n + 1].id} IN
         /\ IsFiniteSet(Wanting(event, n)) /\ hooks[n + 1].id \notin Wanting(event, n)
         /\ Wanting(event, n + 1)
              = IF event \in hooks[n + 1].types THEN more ELSE Wanting(event, n)
<1>1. Len(hooks) \in Nat /\ made \in Nat
  BY LenProperties, WebhookAssumption DEF IInv, TypeOK
<1>2. \A k \in 1 .. Len(hooks) : hooks[k].id \in 1 .. made
  BY <1>1, HookFacts DEF Hook
<1>3. IsFiniteSet(Wanting(event, n))
  <2>1. Wanting(event, n) \in SUBSET (1 .. made)
    BY <1>1, <1>2 DEF Wanting
  <2>2. IsFiniteSet(1 .. made)
    BY <1>1, FS_Interval
  <2>3. QED
    BY <2>1, <2>2, FS_Subset
<1>4. hooks[n + 1].id \notin Wanting(event, n)
  <2>1. ASSUME NEW k \in 1 .. n PROVE hooks[k].id # hooks[n + 1].id
    BY <1>1 DEF IInv, DistinctHooks
  <2>2. QED
    BY <2>1 DEF Wanting
<1>5. 1 .. n + 1 = (1 .. n) \cup {n + 1}
  BY <1>1
<1>6. QED
  BY <1>3, <1>4, <1>5 DEF Wanting

LEMMA InitFanOut == Init => FanOutExact
<1>1. SUFFICES ASSUME Init PROVE FanOutExact
  OBVIOUS
<1>2. fanOut.seen = 0 /\ Len(log) = 0
  BY <1>1, EmptySeq DEF Init, Idle
<1>3. Asked(fanOut.seen) = {} /\ Cardinality({}) = 0
  BY <1>2, FS_EmptySet DEF Asked
<1>4. QED
  BY <1>2, <1>3 DEF FanOutExact

\* Before an event and after it nobody is waiting for a delivery.
LEMMA NobodyAsked ==
  ASSUME fanOut'.seen = 0, Len(log') \in Nat
  PROVE  FanOutExact'
<1>1. Asked(fanOut.seen)' = {} /\ Cardinality({}) = 0
  BY FS_EmptySet DEF Asked
<1>2. Answered({}, log)' => FanOutExact'
  BY <1>1 DEF FanOutExact, Answered
<1>3. {log'[i].hook : i \in 1 .. 0} = {} /\ ~ \E i \in 1 .. 0 : TRUE
  OBVIOUS
<1>4. Answered({}, log)'
  BY <1>1, <1>3 DEF Answered
<1>5. QED
  BY <1>2, <1>4

LEMMA SameFanOut ==
  ASSUME FanOutExact, UNCHANGED <<hooks, log, fanOut>>
  PROVE  FanOutExact'
<1>1. Asked(fanOut.seen)' = Asked(fanOut.seen)
  BY DEF Asked
<1>2. \A id : Failing(id)' <=> Failing(id)
  BY DEF Failing
<1>3. QED
  BY <1>1, <1>2 DEF FanOutExact

LEMMA VisitFanOut ==
  ASSUME IInv, FanOutExact, Visit
  PROVE  FanOutExact'
<1>1. PICK e \in EventTypes, n \in 0 .. Len(hooks) : fanOut = [event |-> e, seen |-> n]
  BY DEF IInv, TypeOK, Visit
<1>2. Len(hooks) \in Nat /\ log \in Seq(Delivery) /\ Len(log) \in Nat /\ Len(log) <= LogLimit
  BY LenProperties DEF IInv, TypeOK
<1>3. /\ n \in 0 .. Len(hooks) - 1 /\ NextHook = hooks[n + 1]
      /\ fanOut' = [event |-> e, seen |-> n + 1] /\ UNCHANGED hooks
      /\ log' = IF e \in hooks[n + 1].types
                THEN Store(log, NewDelivery(hooks[n + 1], FALSE)) ELSE log
  BY <1>1, <1>2 DEF Visit, NextHook
<1>. DEFINE old == Wanting(e, n)
            new == Wanting(e, n + 1)
<1>4. Asked(fanOut.seen) = old /\ Asked(fanOut.seen)' = new
  BY <1>1, <1>3 DEF Asked, Wanting
<1>5. Answered(old, log)
  BY <1>4 DEF FanOutExact, Answered
<1>6. SUFFICES Answered(new, log')
  BY <1>3, <1>4 DEF FanOutExact, Answered, Failing
<1>7. /\ IsFiniteSet(old) /\ hooks[n + 1].id \notin old
      /\ new = IF e \in hooks[n + 1].types THEN old \cup {hooks[n + 1].id} ELSE old
  BY <1>3, WantingFacts
<1>. HIDE DEF old, new
<1>8. CASE e \notin hooks[n + 1].types
  BY <1>3, <1>5, <1>7, <1>8
<1>9. CASE e \in hooks[n + 1].types
  <2>. DEFINE id == hooks[n + 1].id
              d == NewDelivery(hooks[n + 1], FALSE)
              c == Cardinality(old)
  <2>1. d \in Delivery /\ d.hook = id /\ (d.status = "failed" <=> Failing(id))
    <3>1. n + 1 \in 1 .. Len(hooks)
      BY <1>2, <1>3
    <3>2. hooks[n + 1].failing <=> Failing(id)
      BY <3>1 DEF IInv, DistinctHooks, Failing
    <3>3. Sound(d) /\ d.hook = id
      BY <3>1, HookFacts, NewDeliverySound DEF NewDelivery, Succeeded, Failed
    <3>4. d.status = "failed" <=> hooks[n + 1].failing
      BY DEF NewDelivery, Succeeded, Failed
    <3>5. QED
      BY <3>2, <3>3, <3>4 DEF Sound
  <2>2. new = old \cup {id} /\ id \notin old /\ c \in Nat /\ Cardinality(new) = c + 1
    BY <1>7, <1>9, FS_AddElement, FS_CardinalityType
  <2>3. /\ Len(log') = IF Len(log) < LogLimit THEN Len(log) + 1 ELSE LogLimit
        /\ log'[1] = d /\ \A i \in 2 .. Len(log') : log'[i] = log[i - 1]
    BY <1>2, <1>3, <1>9, <2>1, StoreFacts
  <2>. HIDE DEF d, c, id
  <2>4. SUFFICES ASSUME c + 1 <= LogLimit
                 PROVE  /\ c + 1 <= Len(log')
                        /\ {log'[i].hook : i \in 1 .. c + 1} = new
                        /\ \A i \in 1 .. c + 1 :
                             log'[i].status = "failed" <=> Failing(log'[i].hook)
    BY <2>2 DEF Answered
  <2>5. /\ c <= Len(log) /\ {log[i].hook : i \in 1 .. c} = old
        /\ \A i \in 1 .. c : log[i].status = "failed" <=> Failing(log[i].hook)
    BY <1>5, <2>2, <2>4, WebhookAssumption DEF Answered, c
  <2>6. c + 1 <= Len(log')
    BY <1>2, <2>2, <2>3, <2>4, <2>5, WebhookAssumption
  <2>7. \A i \in 1 .. c + 1 : i = 1 \/ (i - 1 \in 1 .. c /\ log'[i] = log[i - 1])
    BY <1>2, <2>2, <2>3, <2>6, WebhookAssumption
  <2>8. \A i \in 1 .. c : i + 1 \in 1 .. c + 1 /\ log'[i + 1] = log[i]
    BY <2>2, <2>7
  <2>9. {log'[i].hook : i \in 1 .. c + 1} = new
    <3>1. ASSUME NEW i \in 1 .. c + 1 PROVE log'[i].hook \in new
      BY <2>1, <2>2, <2>3, <2>5, <2>7
    <3>2. ASSUME NEW x \in new PROVE \E i \in 1 .. c + 1 : log'[i].hook = x
      <4>1. CASE x = id
        BY <2>1, <2>2, <2>3, <4>1
      <4>2. CASE x \in old
        <5>1. PICK i \in 1 .. c : log[i].hook = x
          BY <2>5, <4>2
        <5>2. QED
          BY <2>8, <5>1
      <4>3. QED
        BY <2>2, <4>1, <4>2
    <3>3. QED
      BY <3>1, <3>2
  <2>10. QED
    BY <2>1, <2>3, <2>5, <2>6, <2>7, <2>9
<1>10. QED
  BY <1>8, <1>9

LEMMA NextFanOut ==
  ASSUME IInv, FanOutExact, [Next]_vars
  PROVE  FanOutExact'
<1>1. IInv'
  BY NextIInv
<1>2. Len(log') \in Nat
  BY <1>1, LenProperties DEF IInv, TypeOK
<1>3. CASE Visit
  BY <1>3, VisitFanOut
<1>4. CASE UNCHANGED vars
  BY <1>4, SameFanOut DEF vars
<1>5. CASE ~Visit /\ ~(UNCHANGED vars)
  <2>1. fanOut' = Idle \/ \E event \in EventTypes : fanOut' = [event |-> event, seen |-> 0]
    BY <1>5
    DEF Next, RegisterWebhook, RemoveWebhook, SendTestDelivery, Publish, FinishEvent,
        RetryDueDeliveries, Tick
  <2>2. fanOut'.seen = 0
    BY <2>1 DEF Idle
  <2>3. QED
    BY <1>2, <2>2, NobodyAsked
<1>6. QED
  BY <1>3, <1>4, <1>5

-----------------------------------------------------------------------------
(* Webhooks: theorems *)

THEOREM Invariance == Spec => []IInv
BY InitIInv, NextIInv, PTL DEF Spec

\* The registrations and the log have the shapes the service declares, and the
\* log never holds more than its limit (storeDelivery).
THEOREM TypeCorrect == Spec => []TypeOK
<1>1. IInv => TypeOK
  BY DEF IInv
<1>2. QED
  BY <1>1, Invariance, PTL

\* Whatever is registered, removed, published and retried, the schedule and the
\* status of every delivery agree (createDelivery, retryDueDeliveries).
THEOREM Coherence == Spec => []StatusCoherent
<1>1. IInv => StatusCoherent
  BY DEF IInv, StatusCoherent, Sound, Coherent
<1>2. QED
  BY <1>1, Invariance, PTL

\* No order of requests exhausts a delivery before the doubling delays have
\* passed (retryDueDeliveries).
THEOREM SlowExhaustion == Spec => []ExhaustedSlowly
<1>1. IInv => ExhaustedSlowly
  BY DEF IInv, ExhaustedSlowly, Sound, Spaced
<1>2. QED
  BY <1>1, Invariance, PTL

\* The log only grows in front and is only cut at its end, and what is settled
\* in it is settled for good (storeDelivery, retryDueDeliveries).
THEOREM HistorySteady == Spec => HistoryKept
<1>1. IInv /\ [Next]_vars => [Pushed \/ KeptInPlace]_vars
  BY NextIInv
<1>2. QED
  BY <1>1, Invariance, PTL DEF Spec, HistoryKept

\* Nothing is delivered to a registration once it is removed, and what still
\* waits for it can only be given up (retryDueDeliveries looks it up again).
THEOREM RemovedStaySilent == Spec => RemovedIsSilent
<1>1. IInv /\ [Next]_vars => [\A id \in 1 .. made : ~Registered(id) => Silent(id)]_vars
  BY NextSilent
<1>2. QED
  BY <1>1, Invariance, PTL DEF Spec, RemovedIsSilent

\* While an event is handed round, the deliveries in front of the log are those
\* of the registrations visited so far that asked for it, one each, and they
\* failed exactly where the hook fails (handleEvent).
THEOREM FanOutComplete == Spec => []FanOutExact
BY Invariance, InitFanOut, NextFanOut, PTL DEF Spec

-----------------------------------------------------------------------------
(* Platform implements Webhooks *)

LEMMA NextIsWebhooks == [PlatformNext]_platformVars => [Next]_vars
<1>. SUFFICES ASSUME [PlatformNext]_platformVars PROVE [Next]_vars
  OBVIOUS
<1>1. ASSUME NEW types \in SUBSET EventTypes, NEW failing \in BOOLEAN,
             Registration(types, failing)
      PROVE  Next
  BY <1>1 DEF Registration, Next
<1>2. ASSUME NEW k \in 1 .. Len(hooks), Removal(k) \/ Test(k) PROVE Next
  BY <1>2 DEF Removal, Test, Next
<1>3. ASSUME NEW type \in EventTypes, Emit(type) PROVE Next
  BY <1>3 DEF Emit, Next
<1>4. CASE SendMail
  BY <1>4, PlatformAssumption DEF SendMail, Next
<1>5. CASE Retry \/ Deliver \/ AuditEvent \/ TimePasses
  BY <1>5 DEF Retry, Deliver, AuditEvent, TimePasses, Next
<1>6. CASE RecordMail \/ OthersAdminister
  BY <1>6 DEF RecordMail, OthersAdminister
<1>7. ASSUME NEW type \in EventTypes, OthersEmit(type) PROVE UNCHANGED vars
  BY <1>7 DEF OthersEmit
<1>8. CASE UNCHANGED platformVars
  BY <1>8 DEF platformVars
<1>9. QED
  BY <1>1, <1>2, <1>3, <1>4, <1>5, <1>6, <1>7, <1>8 DEF PlatformNext

\* Whatever the bus, the audit log, the e-mails and other tenants do, the
\* webhooks of a tenant behave as Webhooks says: all that is proved of Webhooks
\* holds here too (main.ts, webhooks.controller.ts).
THEOREM RunsWebhooks == PlatformSpec => Spec
<1>1. PlatformInit => Init
  BY DEF PlatformInit
<1>2. QED
  BY <1>1, NextIsWebhooks, PTL DEF PlatformSpec, Spec

-----------------------------------------------------------------------------
(* Platform: the inductive invariant *)

\* The event going round is the last one in the history.
HistoryCurrent ==
  fanOut # Idle => Len(history) > 0 /\ Last(history) = OurEvent(fanOut.event)

\* What WebhooksReplayed says of one registration.
Replayed(id) ==
  LET entries == LifeEntries(id)
  IN  IF entries = {} THEN Len(audit) = AuditLimit
      ELSE \E last \in entries :
             /\ \A i \in entries : last <= i
             /\ Registered(id) <=> audit[last].action = "registered"

\* What MailPaired says of the order of the entries.
InPairs ==
  \A i \in 1 .. Len(audit) :
    /\ audit[i] = Mailed /\ i < Len(audit) => audit[i + 1] = MailEvent
    /\ audit[i] = MailEvent => IF i = 1 THEN owed ELSE audit[i - 1] = Mailed

\* An e-mail's event goes round, and then its entry is the first one.
MailUnderWay ==
  /\ owed /\ fanOut = Idle => Len(audit) > 0 /\ audit[1] = MailEvent
  /\ owed /\ fanOut # Idle /\ Len(audit) > 0 => audit[1] # MailEvent
  /\ fanOut # Idle => (owed <=> fanOut.event = MailSent)

MailedAt(s) == {i \in 1 .. Len(s) : s[i] = Mailed}
MailsKept ==
  mails < MailLimit => Cardinality(MailedAt(audit)) + (IF owed THEN 1 ELSE 0) <= mails

PInv ==
  /\ IInv /\ PlatformTypeOK /\ HistoryCurrent
  /\ \A id \in 1 .. made : Replayed(id)
  /\ InPairs /\ MailUnderWay /\ MailsKept

-----------------------------------------------------------------------------
(* Platform: entries *)

LEMMA EventFacts ==
  ASSUME NEW tenant \in Tenants, NEW type \in EventTypes
  PROVE  LET event == [tenant |-> tenant, type |-> type] IN
         /\ event \in Event /\ OfEvent(event) \in AuditEntry
         /\ OfEvent(event).target = NoTarget /\ OfEvent(event) # Mailed
         /\ tenant = "others" \/ type # MailSent => OfEvent(event) # MailEvent
BY DEF Event, OfEvent, AuditEntry, Mailed, OfAdmin, MailEvent, OurEvent, Tenants

LEMMA AdminFacts ==
  ASSUME NEW action \in Actions, NEW target \in 0 .. MaxHooks
  PROVE  LET entry == OfAdmin(action, target) IN
         /\ entry \in AuditEntry /\ entry.target = target /\ entry.action = action
         /\ entry # MailEvent
         /\ action # "mailed" => entry # Mailed
BY DEF OfAdmin, AuditEntry, Mailed, MailEvent, OfEvent, OurEvent

LEMMA OthersFacts ==
  /\ OfOthers \in AuditEntry /\ OfOthers.target = NoTarget
  /\ OfOthers # Mailed /\ OfOthers # MailEvent
BY DEF OfOthers, AuditEntry, Mailed, OfAdmin, MailEvent, OfEvent, OurEvent

LEMMA TargetFacts == NoTarget = 0 /\ NoTarget \in 0 .. MaxHooks /\ MaxHooks \in Nat
BY WebhookAssumption DEF NoTarget

-----------------------------------------------------------------------------
(* Platform: the capped lists *)

\* r is s with e in front, cut at AuditLimit.
OnTop(r, s, e) ==
  /\ Len(r) = (IF Len(s) < AuditLimit THEN Len(s) + 1 ELSE AuditLimit)
  /\ r[1] = e /\ \A i \in 2 .. Len(r) : r[i] = s[i - 1]

LEMMA RecordFacts ==
  ASSUME PlatformTypeOK, NEW entry \in AuditEntry, Record(entry)
  PROVE  /\ audit' \in Seq(AuditEntry) /\ Len(audit') <= AuditLimit
         /\ Len(audit') \in Nat /\ Len(audit') > 0 /\ OnTop(audit', audit, entry)
<1>. DEFINE longer == <<entry>> \o audit
<1>1. /\ audit \in Seq(AuditEntry) /\ Len(audit) \in Nat /\ Len(audit) <= AuditLimit
      /\ AuditLimit \in Nat /\ AuditLimit > 0
  BY LenProperties, PlatformAssumption DEF PlatformTypeOK
<1>2. audit' = IF Len(longer) > AuditLimit THEN Front(longer) ELSE longer
  BY DEF Record
<1>3. /\ longer \in Seq(AuditEntry) /\ Len(longer) = Len(audit) + 1 /\ longer[1] = entry
      /\ \A i \in 2 .. Len(longer) : longer[i] = audit[i - 1]
  BY <1>1, InFront
<1>. HIDE DEF longer
<1>4. CASE Len(audit) < AuditLimit
  <2>1. audit' = longer
    BY <1>1, <1>2, <1>3, <1>4
  <2>2. QED
    BY <1>1, <1>3, <1>4, <2>1 DEF OnTop
<1>5. CASE ~(Len(audit) < AuditLimit)
  <2>1. Len(audit) = AuditLimit /\ Len(longer) - 1 = AuditLimit
    BY <1>1, <1>3, <1>5
  <2>2. audit' = SubSeq(longer, 1, AuditLimit)
    BY <1>1, <1>2, <1>3, <2>1 DEF Front
  <2>3. \A i \in 1 .. AuditLimit : longer[i] \in AuditEntry
    BY <1>1, <1>3, <2>1, ElementOfSeq
  <2>. DEFINE cut == SubSeq(longer, 1, AuditLimit)
  <2>4. /\ cut \in Seq(AuditEntry)
        /\ Len(cut) = IF 1 <= AuditLimit THEN AuditLimit - 1 + 1 ELSE 0
        /\ \A i \in 1 .. AuditLimit - 1 + 1 : cut[i] = longer[1 + i - 1]
    BY <1>1, <2>3, SubSeqProperties
  <2>. HIDE DEF cut
  <2>5. audit' = cut
    BY <2>2 DEF cut
  <2>6. Len(cut) = AuditLimit /\ \A i \in 1 .. AuditLimit : cut[i] = longer[i]
    BY <1>1, <2>4
  <2>7. QED
    BY <1>1, <1>3, <2>1, <2>4, <2>5, <2>6 DEF OnTop
<1>6. QED
  BY <1>4, <1>5

LEMMA RememberFacts ==
  ASSUME PlatformTypeOK, NEW event \in Event, Remember(event)
  PROVE  /\ history' \in Seq(Event) /\ Len(history') <= HistoryLimit
         /\ Len(history') > 0 /\ Last(history') = event
<1>. DEFINE longer == Append(history, event)
<1>1. /\ history \in Seq(Event) /\ Len(history) \in Nat /\ Len(history) <= HistoryLimit
      /\ HistoryLimit \in Nat /\ HistoryLimit > 0
  BY LenProperties, PlatformAssumption DEF PlatformTypeOK
<1>2. /\ longer \in Seq(Event) /\ Len(longer) = Len(history) + 1
      /\ longer[Len(history) + 1] = event
  BY <1>1, AppendProperties
<1>3. history' = IF Len(longer) > HistoryLimit THEN Tail(longer) ELSE longer
  BY DEF Remember
<1>. HIDE DEF longer
<1>4. CASE Len(longer) > HistoryLimit
  <2>1. longer # << >> /\ Len(history) > 0
    BY <1>1, <1>2, <1>4
  <2>2. /\ Tail(longer) \in Seq(Event) /\ Len(Tail(longer)) = Len(longer) - 1
        /\ \A i \in 1 .. Len(Tail(longer)) : Tail(longer)[i] = longer[i + 1]
    BY <1>2, <2>1, HeadTailProperties
  <2>3. Tail(longer)[Len(history)] = event
    BY <1>1, <1>2, <2>1, <2>2
  <2>4. QED
    BY <1>1, <1>2, <1>3, <1>4, <2>1, <2>2, <2>3 DEF Last
<1>5. CASE ~(Len(longer) > HistoryLimit)
  BY <1>1, <1>2, <1>3, <1>5 DEF Last
<1>6. QED
  BY <1>4, <1>5

-----------------------------------------------------------------------------
(* Platform: registrations *)

\* A removed id is gone, the others stay as they are.
LEMMA RemovedFacts ==
  ASSUME IInv, NEW k \in 1 .. Len(hooks), RemoveWebhook(k), NEW id
  PROVE  Registered(id)' <=> Registered(id) /\ id # hooks[k].id
<1>1. /\ hooks \in Seq(Hook) /\ Len(hooks) \in Nat /\ hooks' = RemoveAt(hooks, k)
      /\ k \in Nat /\ k >= 1 /\ k <= Len(hooks)
  BY LenProperties DEF IInv, TypeOK, RemoveWebhook
<1>2. /\ Len(hooks') = Len(hooks) - 1
      /\ \A j \in 1 .. Len(hooks) - 1 : hooks'[j] = IF j < k THEN hooks[j] ELSE hooks[j + 1]
  BY <1>1, RemovalFacts
<1>3. ASSUME Registered(id)' PROVE Registered(id) /\ id # hooks[k].id
  <2>1. PICK j \in 1 .. Len(hooks') : hooks'[j].id = id
    BY <1>3 DEF Registered
  <2>2. PICK i \in 1 .. Len(hooks) : i # k /\ hooks[i] = hooks'[j]
    BY <1>1, <1>2
  <2>3. QED
    BY <2>1, <2>2 DEF Registered, IInv, DistinctHooks
<1>4. ASSUME Registered(id), id # hooks[k].id PROVE Registered(id)'
  <2>1. PICK i \in 1 .. Len(hooks) : hooks[i].id = id
    BY <1>4 DEF Registered
  <2>2. i # k
    BY <1>4, <2>1
  <2>3. PICK j \in 1 .. Len(hooks) - 1 : j = IF i < k THEN i ELSE i - 1
    BY <1>1, <2>2
  <2>4. j \in 1 .. Len(hooks') /\ hooks'[j] = hooks[i]
    BY <1>1, <1>2, <2>2, <2>3
  <2>5. QED
    BY <2>1, <2>4 DEF Registered
<1>5. QED
  BY <1>3, <1>4

LEMMA SameRegistered ==
  ASSUME NEW id, hooks' = hooks
  PROVE  Registered(id)' <=> Registered(id)
BY DEF Registered

-----------------------------------------------------------------------------
(* Platform: what the log says of a registration *)

IsLife(e, id) == e.action \in {"registered", "removed"} /\ e.target = id

LEMMA LifeFacts ==
  ASSUME PlatformTypeOK, NEW id
  PROVE  \A i : i \in LifeEntries(id) <=> i \in 1 .. Len(audit) /\ IsLife(audit[i], id)
BY LenProperties DEF PlatformTypeOK, LifeEntries, IsLife

LEMMA LifeFactsNext ==
  ASSUME PlatformTypeOK', NEW id
  PROVE  \A i : i \in LifeEntries(id)' <=> i \in 1 .. Len(audit') /\ IsLife(audit'[i], id)
BY LenProperties DEF PlatformTypeOK, LifeEntries, IsLife

\* A new entry about something else only moves the others back.
LEMMA OtherEntryReplayed ==
  ASSUME PlatformTypeOK, PlatformTypeOK', NEW entry \in AuditEntry, Record(entry), NEW id,
         ~IsLife(entry, id), Registered(id)' <=> Registered(id), Replayed(id)
  PROVE  Replayed(id)'
<1>. DEFINE old == LifeEntries(id)
            new == LifeEntries(id)'
<1>1. /\ OnTop(audit', audit, entry) /\ Len(audit) \in Nat /\ Len(audit') \in Nat
      /\ AuditLimit \in Nat /\ Len(audit) <= AuditLimit
  BY RecordFacts, LenProperties, PlatformAssumption DEF PlatformTypeOK
<1>2. ASSUME NEW i \in new PROVE i - 1 \in old /\ audit'[i] = audit[i - 1]
  <2>1. i \in 1 .. Len(audit') /\ IsLife(audit'[i], id)
    BY <1>2, LifeFactsNext
  <2>2. i # 1
    BY <1>1, <2>1 DEF OnTop
  <2>3. i - 1 \in 1 .. Len(audit) /\ audit'[i] = audit[i - 1]
    BY <1>1, <2>1, <2>2 DEF OnTop
  <2>4. QED
    BY <2>1, <2>3, LifeFacts
<1>3. ASSUME NEW i \in old, i + 1 <= Len(audit')
      PROVE  i + 1 \in new /\ audit'[i + 1] = audit[i]
  <2>1. i \in 1 .. Len(audit) /\ IsLife(audit[i], id)
    BY LifeFacts
  <2>2. i + 1 \in 2 .. Len(audit') /\ (i + 1) - 1 = i
    BY <1>1, <1>3, <2>1
  <2>3. audit'[i + 1] = audit[i]
    BY <1>1, <2>2 DEF OnTop
  <2>4. i + 1 \in 1 .. Len(audit')
    BY <2>2
  <2>5. QED
    BY <2>1, <2>3, <2>4, LifeFactsNext
<1>4. old \in SUBSET (1 .. Len(audit)) /\ new \in SUBSET (1 .. Len(audit'))
  BY LifeFacts, LifeFactsNext
<1>5. CASE new = {}
  <2>1. Len(audit') = AuditLimit
    <3>1. CASE old = {}
      BY <1>1, <3>1 DEF Replayed, OnTop
    <3>2. CASE old # {}
      <4>1. PICK i \in old : TRUE
        BY <3>2
      <4>2. ~(i + 1 <= Len(audit'))
        BY <1>3, <1>5
      <4>3. QED
        BY <1>1, <1>4, <4>2 DEF OnTop
    <3>3. QED
      BY <3>1, <3>2
  <2>2. QED
    BY <1>5, <2>1 DEF Replayed
<1>6. CASE new # {}
  <2>1. PICK j \in new : TRUE
    BY <1>6
  <2>2. j - 1 \in old
    BY <1>2
  <2>3. PICK last \in old : /\ \A i \in old : last <= i
                            /\ Registered(id) <=> audit[last].action = "registered"
    BY <2>2 DEF Replayed
  <2>4. last \in Int /\ j \in Int /\ last <= j - 1
    BY <1>4, <2>2, <2>3
  <2>5. last + 1 <= Len(audit')
    BY <1>1, <1>4, <2>4
  <2>6. last + 1 \in new /\ audit'[last + 1] = audit[last]
    BY <1>3, <2>5
  <2>7. ASSUME NEW i \in new PROVE last + 1 <= i
    <3>1. i \in Int /\ last <= i - 1
      BY <1>2, <1>4, <2>3
    <3>2. QED
      BY <2>4, <3>1
  <2>. HIDE DEF old, new
  <2>8. /\ last + 1 \in new /\ \A i \in new : last + 1 <= i
        /\ Registered(id)' <=> audit'[last + 1].action = "registered"
    BY <2>3, <2>6, <2>7
  <2>9. QED
    BY <1>6, <2>8 DEF Replayed, new
<1>7. QED
  BY <1>5, <1>6

\* A new entry about the registration says the last word.
LEMMA OwnEntryReplayed ==
  ASSUME PlatformTypeOK, PlatformTypeOK', NEW entry \in AuditEntry, Record(entry), NEW id,
         IsLife(entry, id), Registered(id)' <=> entry.action = "registered"
  PROVE  Replayed(id)'
<1>1. Len(audit') \in Nat /\ Len(audit') > 0 /\ audit'[1] = entry
  BY RecordFacts DEF OnTop
<1>2. 1 \in LifeEntries(id)'
  BY <1>1, LifeFactsNext
<1>3. \A i \in LifeEntries(id)' : 1 <= i
  BY LifeFactsNext
<1>4. QED
  BY <1>1, <1>2, <1>3 DEF Replayed

LEMMA SameLogReplayed ==
  ASSUME audit' = audit, NEW id, Registered(id)' <=> Registered(id), Replayed(id)
  PROVE  Replayed(id)'
BY DEF Replayed, LifeEntries

-----------------------------------------------------------------------------
(* Platform: e-mails in the log *)

LEMMA PushFacts ==
  ASSUME PlatformTypeOK, NEW entry \in AuditEntry, Record(entry)
  PROVE  /\ OnTop(audit', audit, entry) /\ Len(audit) \in Nat /\ Len(audit') \in Nat
         /\ Len(audit') <= Len(audit) + 1
<1>1. Len(audit) \in Nat /\ Len(audit) <= AuditLimit /\ AuditLimit \in Nat
  BY LenProperties, PlatformAssumption DEF PlatformTypeOK
<1>2. OnTop(audit', audit, entry) /\ Len(audit') \in Nat
  BY RecordFacts
<1>3. Len(audit') = IF Len(audit) < AuditLimit THEN Len(audit) + 1 ELSE AuditLimit
  BY <1>2 DEF OnTop
<1>4. QED
  BY <1>1, <1>2, <1>3

LEMMA PairsPushed ==
  ASSUME PlatformTypeOK, NEW entry \in AuditEntry, Record(entry), InPairs,
         entry = Mailed => Len(audit) > 0 /\ audit[1] = MailEvent,
         entry = MailEvent => owed',
         Len(audit) > 0 /\ audit[1] = MailEvent => entry = Mailed
  PROVE  InPairs'
<1>1. /\ OnTop(audit', audit, entry) /\ Len(audit) \in Nat /\ Len(audit') \in Nat
      /\ Len(audit') <= Len(audit) + 1
  BY PushFacts
<1>2. Mailed # MailEvent
  BY DEF Mailed, OfAdmin, MailEvent, OfEvent
<1>3. ASSUME NEW i \in 1 .. Len(audit'), i # 1
      PROVE  i - 1 \in 1 .. Len(audit) /\ audit'[i] = audit[i - 1] /\ i \in Int
  BY <1>1, <1>3 DEF OnTop
<1>4. ASSUME NEW i \in 1 .. Len(audit'), audit'[i] = Mailed, i < Len(audit')
      PROVE  audit'[i + 1] = MailEvent
  <2>1. i + 1 \in 1 .. Len(audit') /\ i + 1 # 1 /\ (i + 1) - 1 = i
    BY <1>1, <1>4
  <2>2. i \in 1 .. Len(audit) /\ audit'[i + 1] = audit[i]
    BY <1>3, <2>1
  <2>3. CASE i = 1
    BY <1>1, <1>4, <2>2, <2>3 DEF OnTop
  <2>4. CASE i # 1
    <3>1. i - 1 \in 1 .. Len(audit) /\ audit[i - 1] = Mailed
      BY <1>3, <1>4, <2>4
    <3>2. i - 1 < Len(audit) /\ (i - 1) + 1 = i
      BY <1>1, <2>2
    <3>3. QED
      BY <2>2, <3>1, <3>2 DEF InPairs
  <2>5. QED
    BY <2>3, <2>4
<1>5. ASSUME NEW i \in 1 .. Len(audit'), audit'[i] = MailEvent
      PROVE  IF i = 1 THEN owed' ELSE audit'[i - 1] = Mailed
  <2>1. CASE i = 1
    BY <1>1, <1>5, <2>1 DEF OnTop
  <2>2. CASE i # 1
    <3>1. i - 1 \in 1 .. Len(audit) /\ audit[i - 1] = MailEvent
      BY <1>3, <1>5, <2>2
    <3>2. CASE i = 2
      BY <1>1, <3>1, <3>2 DEF OnTop
    <3>3. CASE i # 2
      <4>1. i - 1 # 1 /\ i - 1 \in 1 .. Len(audit')
        BY <1>1, <2>2, <3>3
      <4>2. audit[(i - 1) - 1] = Mailed
        BY <3>1, <4>1 DEF InPairs
      <4>3. audit'[i - 1] = audit[(i - 1) - 1]
        BY <1>3, <4>1
      <4>4. QED
        BY <2>2, <4>2, <4>3
    <3>4. QED
      BY <3>2, <3>3
  <2>3. QED
    BY <2>1, <2>2
<1>6. QED
  BY <1>4, <1>5 DEF InPairs, Mailed, OfAdmin, MailEvent, OfEvent, OurEvent

LEMMA PairsKept ==
  ASSUME audit' = audit, InPairs, owed => owed'
  PROVE  InPairs'
BY DEF InPairs, Mailed, OfAdmin, MailEvent, OfEvent, OurEvent

LEMMA MailedFinite ==
  ASSUME NEW s, Len(s) \in Nat
  PROVE  IsFiniteSet(MailedAt(s)) /\ Cardinality(MailedAt(s)) \in Nat
<1>1. IsFiniteSet(1 .. Len(s)) /\ MailedAt(s) \in SUBSET (1 .. Len(s))
  BY FS_Interval DEF MailedAt
<1>2. QED
  BY <1>1, FS_Subset, FS_CardinalityType

\* At most the entry on top is one more.
LEMMA MailedPushed ==
  ASSUME NEW s, NEW r, NEW e, Len(s) \in Nat, Len(r) \in Nat, OnTop(r, s, e),
         Len(r) <= Len(s) + 1
  PROVE  /\ Cardinality(MailedAt(r)) <= Cardinality(MailedAt(s)) + 1
         /\ e # Mailed => Cardinality(MailedAt(r)) <= Cardinality(MailedAt(s))
<1>. DEFINE old == MailedAt(s)
            later == MailedAt(r) \ {1}
            from == [i \in later |-> i - 1]
<1>1. ASSUME NEW i \in later PROVE i \in Int /\ i - 1 \in old
  <2>1. i \in 2 .. Len(r) /\ r[i] = Mailed
    BY DEF MailedAt
  <2>2. i - 1 \in 1 .. Len(s) /\ r[i] = s[i - 1]
    BY <2>1 DEF OnTop
  <2>3. QED
    BY <2>1, <2>2 DEF MailedAt
<1>2. from \in Injection(later, old)
  <2>1. from \in [later -> old]
    BY <1>1
  <2>2. \A i, j \in later : from[i] = from[j] => i = j
    BY <1>1
  <2>3. QED
    BY <2>1, <2>2 DEF Injection, IsInjective
<1>3. IsFiniteSet(old) /\ IsFiniteSet(later) /\ IsFiniteSet(MailedAt(r))
  <2>1. IsFiniteSet(MailedAt(r)) /\ later \in SUBSET MailedAt(r)
    BY MailedFinite
  <2>2. QED
    BY <2>1, MailedFinite, FS_Subset
<1>4. Cardinality(later) <= Cardinality(old)
  BY <1>2, <1>3, FS_Injection
<1>5. CASE 1 \in MailedAt(r)
  <2>1. e = Mailed
    BY <1>5 DEF MailedAt, OnTop
  <2>2. MailedAt(r) = later \cup {1} /\ 1 \notin later
    BY <1>5
  <2>. HIDE DEF later, old
  <2>3. Cardinality(MailedAt(r)) = Cardinality(later) + 1
    BY <1>3, <2>2, FS_AddElement
  <2>4. Cardinality(later) \in Nat /\ Cardinality(old) \in Nat
    BY <1>3, FS_CardinalityType
  <2>5. QED
    BY <1>4, <2>1, <2>3, <2>4 DEF old
<1>6. CASE 1 \notin MailedAt(r)
  <2>1. MailedAt(r) = later
    BY <1>6
  <2>. HIDE DEF later, old
  <2>2. Cardinality(later) \in Nat /\ Cardinality(old) \in Nat
    BY <1>3, FS_CardinalityType
  <2>3. QED
    BY <1>4, <2>1, <2>2 DEF old
<1>7. QED
  BY <1>5, <1>6

LEMMA MailsPushed ==
  ASSUME PlatformTypeOK, NEW entry \in AuditEntry, Record(entry), MailsKept,
         mails' = mails, entry = Mailed => owed /\ ~owed', entry # Mailed => (owed' <=> owed)
  PROVE  MailsKept'
<1>1. /\ OnTop(audit', audit, entry) /\ Len(audit) \in Nat /\ Len(audit') \in Nat
      /\ Len(audit') <= Len(audit) + 1
  BY PushFacts
<1>. DEFINE old == Cardinality(MailedAt(audit))
            new == Cardinality(MailedAt(audit'))
<1>2. /\ old \in Nat /\ new \in Nat /\ new <= old + 1
      /\ entry # Mailed => new <= old
  BY <1>1, MailedFinite, MailedPushed
<1>3. mails \in Nat /\ MailLimit \in Nat /\ owed \in BOOLEAN
  BY PlatformAssumption DEF PlatformTypeOK
<1>4. MailsKept <=> (mails < MailLimit => old + (IF owed THEN 1 ELSE 0) <= mails)
  BY DEF MailsKept
<1>5. MailsKept' <=> (mails' < MailLimit => new + (IF owed' THEN 1 ELSE 0) <= mails')
  BY DEF MailsKept, MailedAt, Mailed, OfAdmin
<1>. HIDE DEF old, new
<1>6. CASE entry = Mailed
  BY <1>2, <1>3, <1>4, <1>5, <1>6
<1>7. CASE entry # Mailed
  BY <1>2, <1>3, <1>4, <1>5, <1>7
<1>8. QED
  BY <1>6, <1>7

LEMMA SameMails ==
  ASSUME UNCHANGED <<audit, mails, owed>>
  PROVE  MailsKept => MailsKept'
BY DEF MailsKept, MailedAt, Mailed, OfAdmin

-----------------------------------------------------------------------------
(* Platform: the steps *)

Rest == HistoryCurrent /\ InPairs /\ MailUnderWay /\ MailsKept

LEMMA Names ==
  ASSUME NEW type \in EventTypes
  PROVE  type # NoEvent /\ [event |-> type, seen |-> 0] # Idle
BY PlatformAssumption DEF Idle

LEMMA FanOutFacts ==
  ASSUME IInv, fanOut # Idle
  PROVE  fanOut.event \in EventTypes
BY DEF IInv, TypeOK

LEMMA InitPInv == PlatformInit => PInv
<1>. SUFFICES ASSUME PlatformInit PROVE PInv
  OBVIOUS
<1>1. IInv /\ made = 0 /\ fanOut = Idle
  BY InitIInv DEF PlatformInit, Init
<1>2. /\ history = << >> /\ audit = << >> /\ mails = 0 /\ owed = FALSE
      /\ Len(history) = 0 /\ Len(audit) = 0
      /\ history \in Seq(Event) /\ audit \in Seq(AuditEntry)
  BY EmptySeq DEF PlatformInit
<1>3. PlatformTypeOK
  <2>1. mails \in 0 .. MailLimit /\ Len(history) <= HistoryLimit /\ Len(audit) <= AuditLimit
    BY <1>2, PlatformAssumption
  <2>2. owed \in BOOLEAN
    BY <1>2
  <2>3. QED
    BY <1>2, <2>1, <2>2 DEF PlatformTypeOK
<1>4. HistoryCurrent /\ InPairs /\ MailUnderWay
  BY <1>1, <1>2 DEF HistoryCurrent, InPairs, MailUnderWay
<1>5. MailsKept
  <2>1. MailedAt(audit) = {}
    BY <1>2 DEF MailedAt
  <2>2. QED
    BY <1>2, <2>1, FS_EmptySet DEF MailsKept
<1>6. QED
  BY <1>1, <1>3, <1>4, <1>5 DEF PInv

\* A request that runs no event and leaves one entry.
LEMMA RequestRest ==
  ASSUME PInv, AtRest, NEW entry \in AuditEntry, Record(entry),
         entry # Mailed, entry # MailEvent, fanOut' = Idle, UNCHANGED <<mails, owed>>,
         history' \in Seq(Event), Len(history') <= HistoryLimit
  PROVE  PlatformTypeOK' /\ Rest'
<1>1. PlatformTypeOK /\ InPairs /\ MailsKept /\ ~owed /\ ~owed' /\ fanOut = Idle
  BY DEF PInv, AtRest
<1>2. PlatformTypeOK'
  BY <1>1, RecordFacts DEF PlatformTypeOK
<1>3. Len(audit) > 0 => audit[1] # MailEvent
  BY <1>1, LenProperties DEF InPairs, PlatformTypeOK
<1>4. InPairs'
  BY <1>1, <1>3, PairsPushed
<1>5. MailsKept'
  BY <1>1, MailsPushed
<1>6. HistoryCurrent' /\ MailUnderWay'
  BY <1>1 DEF HistoryCurrent, MailUnderWay, Idle, NoEvent
<1>7. QED
  BY <1>2, <1>4, <1>5, <1>6 DEF Rest

\* A step of the webhooks alone.
LEMMA StillRest ==
  ASSUME PInv, UNCHANGED <<hooks, made, platform>>, fanOut' # Idle <=> fanOut # Idle,
         fanOut'.event = fanOut.event
  PROVE  PlatformTypeOK' /\ Rest' /\ \A id \in 1 .. made' : Replayed(id)'
<1>1. UNCHANGED <<hooks, made, history, audit, mails, owed>>
  BY DEF platform
<1>2. PlatformTypeOK'
  BY <1>1 DEF PInv, PlatformTypeOK
<1>3. HistoryCurrent'
  BY <1>1 DEF PInv, HistoryCurrent, Idle, NoEvent, OurEvent
<1>4. InPairs' /\ MailsKept'
  BY <1>1, PairsKept, SameMails DEF PInv
<1>5. MailUnderWay'
  BY <1>1 DEF PInv, MailUnderWay, Idle, NoEvent, MailEvent, OfEvent, OurEvent
<1>6. \A id \in 1 .. made' : Replayed(id)'
  BY <1>1, SameRegistered, SameLogReplayed DEF PInv
<1>7. QED
  BY <1>2, <1>3, <1>4, <1>5, <1>6 DEF Rest

\* An entry that is not about a registration.
LEMMA NoLifeReplayed ==
  ASSUME PInv, PlatformTypeOK', NEW entry \in AuditEntry, Record(entry),
         UNCHANGED <<hooks, made>>, \A id \in 1 .. made : ~IsLife(entry, id)
  PROVE  \A id \in 1 .. made' : Replayed(id)'
BY SameRegistered, OtherEntryReplayed DEF PInv

LEMMA RegistrationPInv ==
  ASSUME PInv, NEW types \in SUBSET EventTypes, NEW failing \in BOOLEAN,
         Registration(types, failing)
  PROVE  PlatformTypeOK' /\ Rest' /\ \A id \in 1 .. made' : Replayed(id)'
<1>1. PICK new \in 1 .. MaxHooks : new = made'
  BY RegisterFacts DEF Registration, PInv
<1>. DEFINE entry == OfAdmin("registered", new)
<1>2. /\ AtRest /\ RegisterWebhook(types, failing) /\ Record(entry)
      /\ UNCHANGED <<history, mails, owed>>
  BY <1>1 DEF Registration
<1>3. /\ entry \in AuditEntry /\ entry # Mailed /\ entry # MailEvent
      /\ entry.target = new /\ entry.action = "registered"
  BY <1>1, AdminFacts DEF Actions
<1>. HIDE DEF entry
<1>4. PlatformTypeOK' /\ Rest'
  <2>1. fanOut' = Idle /\ history' \in Seq(Event) /\ Len(history') <= HistoryLimit
    BY <1>2 DEF AtRest, RegisterWebhook, PInv, PlatformTypeOK
  <2>2. QED
    BY <1>2, <1>3, <2>1, RequestRest
<1>5. IInv /\ PlatformTypeOK /\ made \in Nat /\ made' = made + 1
  <2>1. IInv /\ PlatformTypeOK
    BY DEF PInv
  <2>2. made \in 0 .. MaxHooks /\ made' = made + 1
    BY <1>2, <2>1, RegisterFacts
  <2>3. QED
    BY <2>1, <2>2
<1>6. ASSUME NEW id \in 1 .. made', id = made' PROVE Replayed(id)'
  <2>1. Registered(id)' /\ IsLife(entry, id)
    BY <1>1, <1>2, <1>3, <1>5, <1>6, RegisteredFacts DEF IsLife
  <2>2. QED
    BY <1>2, <1>3, <1>4, <1>5, <2>1, OwnEntryReplayed
<1>7. ASSUME NEW id \in 1 .. made', id # made' PROVE Replayed(id)'
  <2>1. id \in 1 .. made
    BY <1>5, <1>7
  <2>2. ~IsLife(entry, id) /\ (Registered(id)' <=> Registered(id)) /\ Replayed(id)
    BY <1>1, <1>2, <1>3, <1>5, <1>7, <2>1, RegisteredFacts DEF IsLife, PInv
  <2>3. QED
    BY <1>2, <1>3, <1>4, <1>5, <2>2, OtherEntryReplayed
<1>8. QED
  BY <1>4, <1>6, <1>7

LEMMA RemovalPInv ==
  ASSUME PInv, NEW k \in 1 .. Len(hooks), Removal(k)
  PROVE  PlatformTypeOK' /\ Rest' /\ \A id \in 1 .. made' : Replayed(id)'
<1>1. PICK gone \in 1 .. MaxHooks : gone = hooks[k].id
  BY HookFacts DEF PInv, Hook
<1>. DEFINE entry == OfAdmin("removed", gone)
<1>2. /\ AtRest /\ RemoveWebhook(k) /\ Record(entry) /\ UNCHANGED <<history, mails, owed>>
  BY <1>1 DEF Removal
<1>3. /\ entry \in AuditEntry /\ entry # Mailed /\ entry # MailEvent
      /\ entry.target = gone /\ entry.action = "removed"
  BY <1>1, TargetFacts, AdminFacts DEF Actions
<1>. HIDE DEF entry
<1>4. PlatformTypeOK' /\ Rest'
  <2>1. fanOut' = Idle /\ history' \in Seq(Event) /\ Len(history') <= HistoryLimit
    BY <1>2 DEF AtRest, RemoveWebhook, PInv, PlatformTypeOK
  <2>2. QED
    BY <1>2, <1>3, <2>1, RequestRest
<1>5. IInv /\ PlatformTypeOK /\ made' = made
  BY <1>2 DEF PInv, RemoveWebhook
<1>6. ASSUME NEW id \in 1 .. made PROVE Replayed(id)'
  <2>1. Registered(id)' <=> Registered(id) /\ id # gone
    BY <1>1, <1>2, <1>5, RemovedFacts
  <2>2. CASE id = gone
    <3>1. IsLife(entry, id) /\ ~Registered(id)' /\ entry.action # "registered"
      BY <1>3, <2>1, <2>2 DEF IsLife
    <3>2. QED
      BY <1>2, <1>3, <1>4, <1>5, <3>1, OwnEntryReplayed
  <2>3. CASE id # gone
    <3>1. ~IsLife(entry, id) /\ (Registered(id)' <=> Registered(id)) /\ Replayed(id)
      BY <1>3, <2>1, <2>3 DEF IsLife, PInv
    <3>2. QED
      BY <1>2, <1>3, <1>4, <1>5, <3>1, OtherEntryReplayed
  <2>4. QED
    BY <2>2, <2>3
<1>7. QED
  BY <1>4, <1>5, <1>6

\* The other requests that run no event.
LEMMA OtherRequestPInv ==
  ASSUME PInv, AtRest, NEW entry \in AuditEntry, Record(entry),
         entry # Mailed, entry # MailEvent, fanOut' = Idle, UNCHANGED <<hooks, made, mails, owed>>,
         history' \in Seq(Event), Len(history') <= HistoryLimit,
         entry.target = NoTarget \/ entry.action = "tested"
  PROVE  PlatformTypeOK' /\ Rest' /\ \A id \in 1 .. made' : Replayed(id)'
<1>1. PlatformTypeOK' /\ Rest'
  BY RequestRest
<1>2. \A id \in 1 .. made : ~IsLife(entry, id)
  BY TargetFacts DEF IsLife
<1>3. QED
  BY <1>1, <1>2, NoLifeReplayed

LEMMA TestPInv ==
  ASSUME PInv, NEW k \in 1 .. Len(hooks), Test(k)
  PROVE  PlatformTypeOK' /\ Rest' /\ (\A id \in 1 .. made' : Replayed(id)') /\ Explained
<1>1. PICK id \in 1 .. MaxHooks : id = hooks[k].id /\ id <= made
  BY HookFacts DEF PInv, Hook
<1>. DEFINE entry == OfAdmin("tested", id)
<1>2. /\ AtRest /\ SendTestDelivery(k) /\ Record(entry) /\ UNCHANGED <<history, mails, owed>>
  BY <1>1 DEF Test
<1>3. /\ entry \in AuditEntry /\ entry # Mailed /\ entry # MailEvent /\ entry.action = "tested"
  BY <1>1, TargetFacts, AdminFacts DEF Actions
<1>4. IInv /\ PlatformTypeOK
  BY DEF PInv
<1>5. PlatformTypeOK' /\ Rest' /\ \A i \in 1 .. made' : Replayed(i)'
  <2>1. /\ fanOut' = Idle /\ UNCHANGED <<hooks, made>>
        /\ history' \in Seq(Event) /\ Len(history') <= HistoryLimit
    BY <1>2 DEF AtRest, SendTestDelivery, PInv, PlatformTypeOK
  <2>. HIDE DEF entry
  <2>2. QED
    BY <1>2, <1>3, <2>1, OtherRequestPInv
<1>6. Explained
  <2>. DEFINE d == NewDelivery(hooks[k], TRUE)
  <2>1. d \in Delivery
    BY <1>4, HookFacts, NewDeliverySound DEF Sound
  <2>2. log' = Store(log, d) /\ log \in Seq(Delivery) /\ Len(log) <= LogLimit
    BY <1>2, <1>4 DEF SendTestDelivery, IInv, TypeOK
  <2>3. d.hook = id /\ d.status = "delivered"
    BY <1>1 DEF NewDelivery, Succeeded
  <2>. HIDE DEF d, entry
  <2>4. log'[1] = d
    BY <2>1, <2>2, StoreFacts
  <2>5. audit'[1] = entry
    BY <1>2, <1>3, <1>4, RecordFacts DEF OnTop
  <2>6. id \in 1 .. made
    BY <1>1, <1>4 DEF IInv, TypeOK
  <2>7. QED
    BY <2>3, <2>4, <2>5, <2>6 DEF Explained, entry
<1>7. QED
  BY <1>5, <1>6

LEMMA RetryPInv ==
  ASSUME PInv, Retry
  PROVE  PlatformTypeOK' /\ Rest' /\ (\A id \in 1 .. made' : Replayed(id)') /\ Explained
<1>. DEFINE entry == OfAdmin("retried", NoTarget)
<1>1. /\ AtRest /\ RetryDueDeliveries /\ Record(entry) /\ UNCHANGED <<history, mails, owed>>
  BY DEF Retry
<1>2. /\ entry \in AuditEntry /\ entry # Mailed /\ entry # MailEvent
      /\ entry.target = NoTarget
  BY TargetFacts, AdminFacts DEF Actions
<1>3. IInv /\ PlatformTypeOK
  BY DEF PInv
<1>. HIDE DEF entry
<1>4. /\ fanOut' = Idle /\ UNCHANGED <<hooks, made>>
      /\ history' \in Seq(Event) /\ Len(history') <= HistoryLimit
  BY <1>1 DEF AtRest, RetryDueDeliveries, PInv, PlatformTypeOK
<1>5. PlatformTypeOK' /\ Rest' /\ \A id \in 1 .. made' : Replayed(id)'
  BY <1>1, <1>2, <1>4, OtherRequestPInv
<1>6. audit'[1] = entry /\ Len(log') = Len(log)
  BY <1>1, <1>2, <1>3, RecordFacts, RetryInv DEF OnTop, KeptInPlace
<1>7. QED
  BY <1>5, <1>6 DEF Explained, entry

LEMMA OthersPInv ==
  ASSUME PInv, OthersAdminister \/ \E type \in EventTypes : OthersEmit(type)
  PROVE  PlatformTypeOK' /\ Rest' /\ (\A id \in 1 .. made' : Replayed(id)') /\ Explained
<1>1. CASE OthersAdminister
  <2>1. AtRest /\ Record(OfOthers) /\ UNCHANGED <<vars, history, mails, owed>>
    BY <1>1 DEF OthersAdminister
  <2>2. /\ fanOut' = Idle /\ UNCHANGED <<hooks, made, log, mails, owed>>
        /\ history' \in Seq(Event) /\ Len(history') <= HistoryLimit
    BY <2>1 DEF AtRest, vars, PInv, PlatformTypeOK
  <2>3. QED
    BY <2>1, <2>2, OthersFacts, OtherRequestPInv DEF Explained
<1>2. ASSUME NEW type \in EventTypes, OthersEmit(type)
      PROVE  PlatformTypeOK' /\ Rest' /\ (\A id \in 1 .. made' : Replayed(id)') /\ Explained
  <2>. DEFINE event == [tenant |-> "others", type |-> type]
              entry == OfEvent(event)
  <2>1. /\ AtRest /\ Remember(event) /\ Record(entry) /\ UNCHANGED <<vars, mails, owed>>
    BY <1>2 DEF OthersEmit
  <2>2. /\ event \in Event /\ entry \in AuditEntry /\ entry.target = NoTarget
        /\ entry # Mailed /\ entry # MailEvent
    BY EventFacts DEF Tenants
  <2>3. PlatformTypeOK
    BY DEF PInv
  <2>. HIDE DEF event, entry
  <2>4. /\ fanOut' = Idle /\ UNCHANGED <<hooks, made, log, mails, owed>>
        /\ history' \in Seq(Event) /\ Len(history') <= HistoryLimit
    BY <2>1, <2>2, <2>3, RememberFacts DEF AtRest, vars
  <2>5. QED
    BY <2>1, <2>2, <2>4, OtherRequestPInv DEF Explained
<1>3. QED
  BY <1>1, <1>2

\* An event starts its round; an e-mail, which published it, is stored.
LEMMA PublishPInv ==
  ASSUME PInv, NEW type \in EventTypes, AtRest, Publish(type), Remember(OurEvent(type)),
         audit' = audit, owed' <=> type = MailSent, owed' \in BOOLEAN,
         mails' = IF type = MailSent /\ mails < MailLimit THEN mails + 1 ELSE mails
  PROVE  PlatformTypeOK' /\ Rest' /\ \A id \in 1 .. made' : Replayed(id)'
<1>1. /\ PlatformTypeOK /\ InPairs /\ MailsKept /\ ~owed /\ fanOut = Idle
      /\ fanOut' # Idle /\ fanOut'.event = type /\ UNCHANGED <<hooks, made, log>>
  BY Names DEF PInv, AtRest, Publish
<1>2. OurEvent(type) \in Event
  BY EventFacts DEF Tenants, OurEvent
<1>3. /\ history' \in Seq(Event) /\ Len(history') <= HistoryLimit
      /\ Len(history') > 0 /\ Last(history') = OurEvent(type)
  BY <1>1, <1>2, RememberFacts
<1>4. mails \in Nat /\ mails <= MailLimit /\ MailLimit \in Nat
  BY <1>1, PlatformAssumption DEF PlatformTypeOK
<1>5. PlatformTypeOK'
  <2>1. mails' \in 0 .. MailLimit
    BY <1>4
  <2>2. QED
    BY <1>1, <1>3, <2>1 DEF PlatformTypeOK
<1>6. HistoryCurrent'
  BY <1>1, <1>3 DEF HistoryCurrent, OurEvent
<1>7. InPairs'
  BY <1>1, PairsKept
<1>8. MailUnderWay'
  <2>1. Len(audit) > 0 => audit[1] # MailEvent
    BY <1>1, LenProperties DEF InPairs, PlatformTypeOK
  <2>2. QED
    BY <1>1, <2>1 DEF MailUnderWay, Idle, NoEvent, MailEvent, OfEvent, OurEvent
<1>9. MailsKept'
  <2>. DEFINE n == Cardinality(MailedAt(audit))
  <2>1. n \in Nat
    BY <1>1, MailedFinite, LenProperties DEF PlatformTypeOK
  <2>2. mails < MailLimit => n <= mails
    BY <1>1, <1>4, <2>1 DEF MailsKept
  <2>3. MailsKept' <=> (mails' < MailLimit => n + (IF owed' THEN 1 ELSE 0) <= mails')
    BY DEF MailsKept, MailedAt, Mailed, OfAdmin
  <2>. HIDE DEF n
  <2>4. CASE type = MailSent
    BY <1>4, <2>1, <2>2, <2>3, <2>4
  <2>5. CASE type # MailSent
    BY <1>4, <2>1, <2>2, <2>3, <2>5
  <2>6. QED
    BY <2>4, <2>5
<1>10. \A id \in 1 .. made' : Replayed(id)'
  BY <1>1, SameRegistered, SameLogReplayed DEF PInv
<1>11. QED
  BY <1>5, <1>6, <1>7, <1>8, <1>9, <1>10 DEF Rest

LEMMA AuditEventPInv ==
  ASSUME PInv, AuditEvent
  PROVE  PlatformTypeOK' /\ Rest' /\ \A id \in 1 .. made' : Replayed(id)'
<1>1. PICK type \in EventTypes : type = fanOut.event
  BY FanOutFacts DEF PInv, AuditEvent, FinishEvent
<1>. DEFINE entry == OfEvent(OurEvent(type))
<1>2. /\ FinishEvent /\ Record(entry) /\ UNCHANGED <<history, mails, owed>>
      /\ fanOut # Idle /\ fanOut' = Idle /\ UNCHANGED <<hooks, made, log>>
  BY <1>1 DEF AuditEvent, FinishEvent
<1>3. /\ entry \in AuditEntry /\ entry.target = NoTarget /\ entry # Mailed
      /\ type # MailSent => entry # MailEvent
  BY EventFacts DEF Tenants, OurEvent
<1>4. /\ PlatformTypeOK /\ InPairs /\ MailsKept /\ MailUnderWay /\ (owed <=> type = MailSent)
  BY <1>1, <1>2 DEF PInv, MailUnderWay
<1>5. type = MailSent => entry = MailEvent
  BY DEF MailEvent
<1>. HIDE DEF entry
<1>6. PlatformTypeOK'
  BY <1>2, <1>3, <1>4, RecordFacts DEF PlatformTypeOK
<1>7. Len(audit) > 0 => audit[1] # MailEvent
  <2>1. CASE owed
    BY <1>2, <1>4, <2>1 DEF MailUnderWay
  <2>2. CASE ~owed
    BY <1>4, <2>2, LenProperties DEF InPairs, PlatformTypeOK
  <2>3. QED
    BY <2>1, <2>2
<1>8. InPairs'
  BY <1>2, <1>3, <1>4, <1>7, PairsPushed
<1>9. MailsKept'
  BY <1>2, <1>3, <1>4, MailsPushed
<1>10. HistoryCurrent'
  BY <1>2 DEF HistoryCurrent, Idle, NoEvent
<1>11. MailUnderWay'
  <2>1. owed => audit'[1] = MailEvent /\ Len(audit') > 0
    BY <1>2, <1>3, <1>4, <1>5, RecordFacts DEF OnTop
  <2>2. QED
    BY <1>2, <2>1 DEF MailUnderWay, Idle, NoEvent, MailEvent, OfEvent, OurEvent
<1>12. \A id \in 1 .. made : ~IsLife(entry, id)
  BY <1>3, TargetFacts DEF IsLife
<1>13. \A id \in 1 .. made' : Replayed(id)'
  BY <1>2, <1>3, <1>6, <1>12, NoLifeReplayed
<1>14. QED
  BY <1>6, <1>8, <1>9, <1>10, <1>11, <1>13 DEF Rest

LEMMA RecordMailPInv ==
  ASSUME PInv, RecordMail
  PROVE  PlatformTypeOK' /\ Rest' /\ \A id \in 1 .. made' : Replayed(id)'
<1>1. /\ fanOut = Idle /\ owed /\ ~owed' /\ owed' \in BOOLEAN /\ Record(Mailed)
      /\ UNCHANGED <<hooks, made, log, fanOut, history, mails>>
  BY DEF RecordMail, Mailed, vars
<1>2. /\ Mailed \in AuditEntry /\ Mailed.target = NoTarget /\ Mailed # MailEvent
  BY TargetFacts, AdminFacts DEF Actions, Mailed
<1>3. /\ PlatformTypeOK /\ InPairs /\ MailsKept /\ MailUnderWay
  BY DEF PInv
<1>4. PlatformTypeOK'
  BY <1>1, <1>2, <1>3, RecordFacts DEF PlatformTypeOK
<1>5. InPairs'
  BY <1>1, <1>2, <1>3, PairsPushed DEF MailUnderWay
<1>6. MailsKept'
  BY <1>1, <1>2, <1>3, MailsPushed
<1>7. HistoryCurrent' /\ MailUnderWay'
  BY <1>1 DEF HistoryCurrent, MailUnderWay, Idle, NoEvent
<1>8. \A id \in 1 .. made : ~IsLife(Mailed, id)
  BY <1>2, TargetFacts DEF IsLife
<1>9. \A id \in 1 .. made' : Replayed(id)'
  BY <1>1, <1>2, <1>4, <1>8, NoLifeReplayed
<1>10. QED
  BY <1>4, <1>5, <1>6, <1>7, <1>9 DEF Rest

LEMMA DeliverPInv ==
  ASSUME PInv, Deliver
  PROVE  PlatformTypeOK' /\ Rest' /\ (\A id \in 1 .. made' : Replayed(id)') /\ Explained
<1>1. PICK e \in EventTypes, n \in 0 .. Len(hooks) : fanOut = [event |-> e, seen |-> n]
  BY DEF PInv, IInv, TypeOK, Deliver, Visit
<1>2. fanOut # Idle /\ fanOut' = [event |-> e, seen |-> n + 1] /\ UNCHANGED <<hooks, made, platform>>
  BY <1>1 DEF Deliver, Visit
<1>3. fanOut' # Idle /\ fanOut'.event = fanOut.event
  BY <1>1, <1>2, Names DEF Idle
<1>4. Explained
  BY <1>2 DEF PInv, HistoryCurrent, Explained
<1>5. QED
  BY <1>2, <1>3, <1>4, StillRest

LEMMA NextPInv ==
  ASSUME PInv, [PlatformNext]_platformVars
  PROVE  PInv' /\ [Explained]_platformVars
<1>. DEFINE Kept == PlatformTypeOK' /\ Rest' /\ (\A id \in 1 .. made' : Replayed(id)')
                     /\ (Explained \/ UNCHANGED platformVars)
<1>1. SUFFICES Kept
  BY NextIsWebhooks, NextIInv DEF PInv, Rest
<1>2. ASSUME NEW types \in SUBSET EventTypes, NEW failing \in BOOLEAN,
             Registration(types, failing)
      PROVE  Kept
  BY <1>2, RegistrationPInv DEF Registration, RegisterWebhook, Explained
<1>3. ASSUME NEW k \in 1 .. Len(hooks), Removal(k) PROVE Kept
  BY <1>3, RemovalPInv DEF Removal, RemoveWebhook, Explained
<1>4. ASSUME NEW k \in 1 .. Len(hooks), Test(k) PROVE Kept
  BY <1>4, TestPInv
<1>5. ASSUME NEW type \in EventTypes \ {MailSent}, Emit(type) PROVE Kept
  <2>1. /\ AtRest /\ Publish(type) /\ Remember(OurEvent(type)) /\ type # MailSent
        /\ audit' = audit /\ mails' = mails /\ ~owed' /\ owed' \in BOOLEAN /\ log' = log
    BY <1>5 DEF Emit, AtRest, Publish, PInv, PlatformTypeOK
  <2>2. mails' = IF type = MailSent /\ mails < MailLimit THEN mails + 1 ELSE mails
    BY <2>1
  <2>3. QED
    BY <2>1, <2>2, PublishPInv DEF Explained
<1>6. CASE SendMail
  <2>1. /\ AtRest /\ Publish(MailSent) /\ Remember(OurEvent(MailSent)) /\ MailSent \in EventTypes
        /\ audit' = audit /\ owed' /\ owed' \in BOOLEAN /\ log' = log
        /\ mails' = IF mails < MailLimit THEN mails + 1 ELSE mails
    BY <1>6, PlatformAssumption DEF SendMail, Publish
  <2>2. QED
    BY <2>1, PublishPInv DEF Explained
<1>7. CASE Retry
  BY <1>7, RetryPInv
<1>8. CASE Deliver
  BY <1>8, DeliverPInv
<1>9. CASE AuditEvent
  BY <1>9, AuditEventPInv DEF AuditEvent, FinishEvent, Explained
<1>10. CASE RecordMail
  BY <1>10, RecordMailPInv DEF RecordMail, vars, Explained
<1>11. CASE OthersAdminister \/ \E type \in EventTypes : OthersEmit(type)
  BY <1>11, OthersPInv
<1>12. CASE TimePasses
  <2>1. UNCHANGED <<hooks, made, fanOut, platform>> /\ Aged
    BY <1>12 DEF TimePasses, Tick, Aged
  <2>2. QED
    BY <2>1, StillRest DEF Explained
<1>13. CASE UNCHANGED platformVars
  <2>1. UNCHANGED <<hooks, made, fanOut, platform>>
    BY <1>13 DEF platformVars, vars
  <2>2. QED
    BY <1>13, <2>1, StillRest
<1>14. QED
  BY <1>2, <1>3, <1>4, <1>5, <1>6, <1>7, <1>8, <1>9, <1>10, <1>11, <1>12, <1>13
  DEF PlatformNext

-----------------------------------------------------------------------------
(* Platform: the history and the log *)

Events(s, n) == {i \in 1 .. n : s[i].source = "plugin_event"}
Rank(s, n) == Cardinality(Events(s, n))

\* What SameStory says of a log s and the first n events of a history h.
Story(s, h, n) ==
  /\ \A i \in Events(s, Len(s)) :
       Rank(s, i) <= n => s[i] = OfEvent(h[n + 1 - Rank(s, i)])
  /\ Rank(s, Len(s)) < n => Len(s) = AuditLimit

LEMMA SameStoryIsStory == SameStory <=> Story(audit, history, Handled)
BY DEF SameStory, Story, EventEntries, Events, Rank

LEMMA SameStoryIsStoryNext == SameStory' <=> Story(audit', history', Handled')
BY DEF SameStory, Story, EventEntries, Events, Rank, OfEvent

LEMMA RankFacts ==
  ASSUME NEW s, NEW n \in Nat
  PROVE  IsFiniteSet(Events(s, n)) /\ Rank(s, n) \in Nat /\ Rank(s, 0) = 0
<1>1. IsFiniteSet(1 .. n) /\ Events(s, n) \in SUBSET (1 .. n)
  BY FS_Interval DEF Events
<1>2. IsFiniteSet(Events(s, n))
  BY <1>1, FS_Subset
<1>3. Rank(s, n) \in Nat
  BY <1>2, FS_CardinalityType DEF Rank
<1>4. Events(s, 0) = {}
  BY DEF Events
<1>5. QED
  BY <1>2, <1>3, <1>4, FS_EmptySet DEF Rank

\* An entry's rank is positive, and grows by one when an event is put on top.
LEMMA RankPositive ==
  ASSUME NEW s, NEW n \in Nat, NEW i \in Events(s, n)
  PROVE  Rank(s, i) > 0
<1>1. i \in Nat /\ i \in Events(s, i)
  BY DEF Events
<1>2. Events(s, i) # {} /\ IsFiniteSet(Events(s, i)) /\ Rank(s, i) \in Nat
  BY <1>1, RankFacts
<1>3. Rank(s, i) # 0
  BY <1>2, FS_EmptySet DEF Rank
<1>4. QED
  BY <1>2, <1>3

LEMMA RankPushed ==
  ASSUME NEW s, NEW r, NEW e, Len(s) \in Nat, Len(r) \in Nat, OnTop(r, s, e),
         Len(r) <= Len(s) + 1, NEW n \in 1 .. Len(r)
  PROVE  Rank(r, n) = Rank(s, n - 1) + (IF e.source = "plugin_event" THEN 1 ELSE 0)
<1>. DEFINE old == Events(s, n - 1)
            later == {i \in 2 .. n : r[i].source = "plugin_event"}
            next == [i \in old |-> i + 1]
<1>1. n \in Nat /\ n - 1 \in Nat /\ n <= Len(r) /\ n - 1 <= Len(s)
  OBVIOUS
<1>2. \A i \in 2 .. n : i - 1 \in 1 .. n - 1 /\ r[i] = s[i - 1]
  BY <1>1 DEF OnTop
<1>3. ASSUME NEW i \in old PROVE i \in Int /\ i + 1 \in later
  <2>1. i \in 1 .. n - 1 /\ s[i].source = "plugin_event"
    BY DEF Events
  <2>2. i + 1 \in 2 .. n /\ (i + 1) - 1 = i
    BY <1>1, <2>1
  <2>3. r[i + 1] = s[i]
    BY <1>2, <2>2
  <2>4. QED
    BY <2>1, <2>2, <2>3
<1>4. ASSUME NEW i \in later PROVE i \in Int /\ i - 1 \in old
  BY <1>1, <1>2 DEF Events
<1>5. next \in Bijection(old, later)
  <2>1. next \in [old -> later]
    BY <1>3
  <2>2. \A i, j \in old : next[i] = next[j] => i = j
    BY <1>3
  <2>3. ASSUME NEW j \in later PROVE \E i \in old : next[i] = j
    <3>1. j - 1 \in old /\ (j - 1) + 1 = j
      BY <1>4
    <3>2. next[j - 1] = j
      BY <3>1
    <3>3. QED
      BY <3>1, <3>2
  <2>. HIDE DEF next
  <2>4. QED
    BY <2>1, <2>2, <2>3 DEF Bijection, Injection, Surjection, IsInjective
<1>6. IsFiniteSet(old)
  BY <1>1, RankFacts
<1>. HIDE DEF next
<1>7. IsFiniteSet(later) /\ Cardinality(later) = Rank(s, n - 1)
  <2>1. ExistsBijection(old, later)
    BY <1>5 DEF ExistsBijection
  <2>. HIDE DEF old, later
  <2>2. IsFiniteSet(later) /\ Cardinality(later) = Cardinality(old)
    BY <1>6, <2>1, FS_Bijection
  <2>3. QED
    BY <2>2 DEF Rank, old
<1>8. 1 .. n = {1} \cup (2 .. n) /\ 1 \notin later
  BY <1>1
<1>9. Rank(s, n - 1) \in Nat
  BY <1>1, RankFacts
<1>10. CASE e.source = "plugin_event"
  <2>1. Events(r, n) = later \cup {1}
    BY <1>8, <1>10 DEF Events, OnTop
  <2>. HIDE DEF later
  <2>2. QED
    BY <1>7, <1>8, <1>9, <1>10, <2>1, FS_AddElement DEF Rank
<1>11. CASE e.source # "plugin_event"
  <2>1. Events(r, n) = later
    BY <1>8, <1>11 DEF Events, OnTop
  <2>. HIDE DEF later
  <2>2. QED
    BY <1>7, <1>9, <1>11, <2>1 DEF Rank
<1>12. QED
  BY <1>10, <1>11

\* An entry goes on top: nothing of the story changes, or it is that of the
\* next event handled.
LEMMA StoryPushed ==
  ASSUME NEW s, NEW r, NEW e, Len(s) \in Nat, Len(r) \in Nat, OnTop(r, s, e),
         Len(s) <= AuditLimit, Len(r) <= Len(s) + 1, NEW h, NEW n \in Nat, Story(s, h, n)
  PROVE  /\ e.source # "plugin_event" => Story(r, h, n)
         /\ e = OfEvent(h[n + 1]) => Story(r, h, n + 1)
<1>. DEFINE more == IF e.source = "plugin_event" THEN 1 ELSE 0
<1>1. SUFFICES ASSUME e.source # "plugin_event" \/ e = OfEvent(h[n + 1])
               PROVE  Story(r, h, n + more)
  BY DEF OfEvent
<1>2. AuditLimit \in Nat /\ AuditLimit > 0 /\ Len(r) > 0
  BY PlatformAssumption DEF OnTop
<1>3. \A i \in 1 .. Len(r) : Rank(r, i) = Rank(s, i - 1) + more /\ Rank(s, i - 1) \in Nat
  BY RankPushed, RankFacts
<1>4. more \in {0, 1} /\ (more = 1 => e = OfEvent(h[n + 1])) /\ (more = 0 => e.source # "plugin_event")
  BY <1>1
<1>. HIDE DEF more
<1>5. ASSUME NEW i \in Events(r, Len(r)), Rank(r, i) <= n + more
      PROVE  r[i] = OfEvent(h[n + more + 1 - Rank(r, i)])
  <2>1. i \in 1 .. Len(r) /\ r[i].source = "plugin_event"
    BY DEF Events
  <2>2. CASE i = 1
    <3>1. r[i] = e /\ more = 1
      BY <1>4, <2>1, <2>2 DEF OnTop
    <3>2. Rank(r, i) = 1
      BY <1>3, <2>1, <2>2, <3>1, RankFacts
    <3>3. QED
      BY <1>4, <3>1, <3>2
  <2>3. CASE i # 1
    <3>1. i - 1 \in 1 .. Len(s) /\ r[i] = s[i - 1]
      BY <2>1, <2>3 DEF OnTop
    <3>2. i - 1 \in Events(s, Len(s))
      BY <2>1, <3>1 DEF Events
    <3>3. Rank(s, i - 1) <= n /\ n + more + 1 - Rank(r, i) = n + 1 - Rank(s, i - 1)
      BY <1>3, <1>4, <1>5, <2>1
    <3>4. QED
      BY <3>1, <3>2, <3>3 DEF Story
  <2>4. QED
    BY <2>2, <2>3
<1>6. ASSUME Rank(r, Len(r)) < n + more PROVE Len(r) = AuditLimit
  <2>1. SUFFICES ASSUME Len(s) < AuditLimit PROVE FALSE
    BY DEF OnTop
  <2>2. Len(r) - 1 = Len(s) /\ Len(r) \in 1 .. Len(r)
    BY <1>2, <2>1 DEF OnTop
  <2>3. Rank(r, Len(r)) = Rank(s, Len(r) - 1) + more /\ Rank(s, Len(r) - 1) \in Nat
    BY <1>3, <2>2
  <2>4. Rank(s, Len(r) - 1) < n
    BY <1>4, <1>6, <2>3
  <2>5. QED
    BY <2>1, <2>2, <2>4 DEF Story
<1>7. QED
  BY <1>5, <1>6 DEF Story

\* An event enters the history: those handled keep their place from the end.
LEMMA RememberPlaces ==
  ASSUME PlatformTypeOK, NEW event \in Event, Remember(event)
  PROVE  /\ Len(history) \in Nat /\ Len(history') \in Nat
         /\ Len(history') > 0 /\ Len(history') <= Len(history) + 1
         /\ history'[Len(history')] = event
         /\ \A j \in 1 .. Len(history') - 1 :
              history'[j] = history[Len(history) + 1 - Len(history') + j]
<1>. DEFINE longer == Append(history, event)
<1>1. /\ history \in Seq(Event) /\ Len(history) \in Nat /\ Len(history) <= HistoryLimit
      /\ HistoryLimit \in Nat /\ HistoryLimit > 0
  BY LenProperties, PlatformAssumption DEF PlatformTypeOK
<1>2. /\ longer \in Seq(Event) /\ Len(longer) = Len(history) + 1
      /\ longer[Len(history) + 1] = event
      /\ \A j \in 1 .. Len(history) : longer[j] = history[j]
  BY <1>1, AppendProperties
<1>3. history' = IF Len(longer) > HistoryLimit THEN Tail(longer) ELSE longer
  BY DEF Remember
<1>. HIDE DEF longer
<1>4. CASE Len(longer) > HistoryLimit
  <2>1. longer # << >> /\ Len(history) > 0
    BY <1>1, <1>2, <1>4
  <2>2. /\ Len(Tail(longer)) = Len(longer) - 1
        /\ \A i \in 1 .. Len(Tail(longer)) : Tail(longer)[i] = longer[i + 1]
    BY <1>2, <2>1, HeadTailProperties
  <2>3. Len(history') = Len(history) /\ \A i \in 1 .. Len(history) : history'[i] = longer[i + 1]
    BY <1>1, <1>2, <1>3, <1>4, <2>2
  <2>4. history'[Len(history)] = event
    BY <1>1, <1>2, <2>1, <2>3
  <2>5. \A j \in 1 .. Len(history) - 1 : history'[j] = history[j + 1]
    BY <1>1, <1>2, <2>3
  <2>6. \A j \in 1 .. Len(history) - 1 : Len(history) + 1 - Len(history') + j = j + 1
    BY <1>1, <2>3
  <2>7. QED
    BY <1>1, <2>1, <2>3, <2>4, <2>5, <2>6
<1>5. CASE ~(Len(longer) > HistoryLimit)
  <2>1. history' = longer
    BY <1>3, <1>5
  <2>2. \A j \in 1 .. Len(history) : Len(history) + 1 - Len(history') + j = j
    BY <1>1, <1>2, <2>1
  <2>3. QED
    BY <1>1, <1>2, <2>1, <2>2
<1>6. QED
  BY <1>4, <1>5

LEMMA StoryRemembered ==
  ASSUME PlatformTypeOK, NEW event \in Event, Remember(event),
         NEW s, Len(s) \in Nat, Story(s, history, Len(history))
  PROVE  Story(s, history', Len(history') - 1) /\ Len(history') - 1 \in Nat
<1>. DEFINE n == Len(history)
            m == Len(history') - 1
<1>1. /\ n \in Nat /\ m \in Nat /\ m <= n
      /\ \A j \in 1 .. m : history'[j] = history[n - m + j]
  BY RememberPlaces
<1>2. ASSUME NEW i \in Events(s, Len(s)), Rank(s, i) <= m
      PROVE  s[i] = OfEvent(history'[m + 1 - Rank(s, i)])
  <2>1. Rank(s, i) \in Nat /\ Rank(s, i) > 0
    <3>1. i \in Nat
      BY DEF Events
    <3>2. QED
      BY <3>1, RankPositive, RankFacts
  <2>. HIDE DEF n, m
  <2>2. m + 1 - Rank(s, i) \in 1 .. m /\ Rank(s, i) <= n
    BY <1>1, <1>2, <2>1
  <2>3. n - m + (m + 1 - Rank(s, i)) = n + 1 - Rank(s, i)
    BY <1>1, <2>1
  <2>4. QED
    BY <1>1, <2>2, <2>3 DEF Story, n
<1>3. ASSUME Rank(s, Len(s)) < m PROVE Len(s) = AuditLimit
  <2>1. Rank(s, Len(s)) \in Nat
    BY RankFacts
  <2>2. Rank(s, Len(s)) < n
    BY <1>1, <1>3, <2>1
  <2>3. QED
    BY <2>2 DEF Story
<1>4. QED
  BY <1>1, <1>2, <1>3 DEF Story

LEMMA HandledFacts ==
  ASSUME PInv
  PROVE  /\ Handled \in Nat
         /\ fanOut = Idle => Handled = Len(history)
         /\ fanOut # Idle => /\ Handled + 1 = Len(history)
                            /\ history[Handled + 1] = OurEvent(fanOut.event)
<1>1. Len(history) \in Nat
  BY LenProperties DEF PInv, PlatformTypeOK
<1>2. QED
  BY <1>1 DEF PInv, HistoryCurrent, Handled, Last

\* An entry that is no event's, while no event goes round.
LEMMA RequestStory ==
  ASSUME PInv, SameStory, NEW entry \in AuditEntry, Record(entry),
         entry.source # "plugin_event", UNCHANGED history,
         fanOut = Idle, fanOut' = Idle
  PROVE  SameStory'
<1>1. Story(audit, history, Handled) /\ Handled \in Nat /\ Handled' = Handled
  BY SameStoryIsStory, HandledFacts DEF Handled
<1>2. /\ OnTop(audit', audit, entry) /\ Len(audit) \in Nat /\ Len(audit') \in Nat
      /\ Len(audit') <= Len(audit) + 1 /\ Len(audit) <= AuditLimit
  BY PushFacts DEF PInv, PlatformTypeOK
<1>3. Story(audit', history, Handled)
  BY <1>1, <1>2, StoryPushed
<1>4. QED
  BY <1>1, <1>3, SameStoryIsStoryNext

LEMMA QuietStory ==
  ASSUME SameStory, UNCHANGED <<audit, history>>, fanOut' = Idle <=> fanOut = Idle
  PROVE  SameStory'
<1>1. Handled' = Handled
  BY DEF Handled
<1>2. QED
  BY <1>1, SameStoryIsStory, SameStoryIsStoryNext

LEMMA PublishStory ==
  ASSUME PInv, SameStory, NEW type \in EventTypes, AtRest, Publish(type),
         Remember(OurEvent(type)), audit' = audit
  PROVE  SameStory'
<1>1. /\ PlatformTypeOK /\ Len(audit) \in Nat /\ fanOut = Idle /\ fanOut' # Idle
  BY Names, LenProperties DEF PInv, PlatformTypeOK, AtRest, Publish
<1>2. OurEvent(type) \in Event
  BY EventFacts DEF Tenants, OurEvent
<1>3. Story(audit, history, Len(history))
  BY <1>1, SameStoryIsStory, HandledFacts
<1>4. Story(audit, history', Len(history') - 1)
  BY <1>1, <1>2, <1>3, StoryRemembered
<1>5. Handled' = Len(history') - 1
  BY <1>1 DEF Handled, Idle, NoEvent
<1>6. QED
  BY <1>4, <1>5, SameStoryIsStoryNext

LEMMA AuditEventStory ==
  ASSUME PInv, SameStory, AuditEvent
  PROVE  SameStory'
<1>1. PICK type \in EventTypes : type = fanOut.event
  BY FanOutFacts DEF PInv, AuditEvent, FinishEvent
<1>. DEFINE entry == OfEvent(OurEvent(type))
<1>2. /\ Record(entry) /\ history' = history /\ fanOut # Idle /\ fanOut' = Idle
  BY <1>1 DEF AuditEvent, FinishEvent
<1>3. entry \in AuditEntry
  BY EventFacts DEF Tenants, OurEvent
<1>4. /\ Story(audit, history, Handled) /\ Handled \in Nat /\ entry = OfEvent(history[Handled + 1])
      /\ Handled' = Handled + 1
  <2>1. /\ Handled \in Nat /\ Handled + 1 = Len(history)
        /\ history[Handled + 1] = OurEvent(fanOut.event)
    BY <1>2, HandledFacts
  <2>2. Handled' = Len(history)
    BY <1>2, LenProperties DEF Handled, Idle, NoEvent, PInv, PlatformTypeOK
  <2>3. QED
    BY <1>1, <2>1, <2>2, SameStoryIsStory
<1>. HIDE DEF entry
<1>5. /\ OnTop(audit', audit, entry) /\ Len(audit) \in Nat /\ Len(audit') \in Nat
      /\ Len(audit') <= Len(audit) + 1 /\ Len(audit) <= AuditLimit
  BY <1>2, <1>3, PushFacts DEF PInv, PlatformTypeOK
<1>6. Story(audit', history, Handled + 1)
  BY <1>4, <1>5, StoryPushed
<1>7. QED
  BY <1>2, <1>4, <1>6, SameStoryIsStoryNext

LEMMA OthersEmitStory ==
  ASSUME PInv, SameStory, NEW type \in EventTypes, OthersEmit(type)
  PROVE  SameStory'
<1>. DEFINE event == [tenant |-> "others", type |-> type]
            entry == OfEvent(event)
<1>1. /\ Remember(event) /\ Record(entry) /\ fanOut = Idle /\ fanOut' = Idle
  BY DEF OthersEmit, AtRest, vars
<1>2. event \in Event /\ entry \in AuditEntry
  BY EventFacts DEF Tenants
<1>. HIDE DEF event
<1>3. PlatformTypeOK /\ Story(audit, history, Len(history))
  BY <1>1, SameStoryIsStory, HandledFacts DEF PInv
<1>4. /\ OnTop(audit', audit, entry) /\ Len(audit) \in Nat /\ Len(audit') \in Nat
      /\ Len(audit') <= Len(audit) + 1 /\ Len(audit) <= AuditLimit
  BY <1>1, <1>2, <1>3, PushFacts DEF PlatformTypeOK
<1>. DEFINE m == Len(history') - 1
<1>5. Story(audit, history', m) /\ m \in Nat
  BY <1>1, <1>2, <1>3, <1>4, StoryRemembered
<1>6. m + 1 = Len(history') /\ history'[m + 1] = event
  BY <1>1, <1>2, <1>3, <1>5, RememberPlaces
<1>. HIDE DEF m
<1>7. Story(audit', history', m + 1)
  BY <1>4, <1>5, <1>6, StoryPushed
<1>8. Handled' = Len(history')
  BY <1>1, <1>5, <1>6 DEF Handled, Idle, NoEvent
<1>9. QED
  BY <1>6, <1>7, <1>8, SameStoryIsStoryNext

LEMMA InitStory == PlatformInit => SameStory
<1>1. SUFFICES ASSUME PlatformInit PROVE SameStory
  OBVIOUS
<1>2. Len(audit) = 0 /\ Len(history) = 0 /\ fanOut = Idle
  BY <1>1, EmptySeq DEF PlatformInit, Init
<1>3. EventEntries(Len(audit)) = {} /\ Cardinality({}) = 0 /\ Handled = 0
  BY <1>2, FS_EmptySet DEF EventEntries, Handled
<1>4. QED
  BY <1>3 DEF SameStory

LEMMA AdminSource ==
  /\ \A action, target : OfAdmin(action, target).source = "platform"
  /\ OfOthers.source = "platform"
BY DEF OfAdmin, OfOthers

LEMMA NextStory ==
  ASSUME PInv, SameStory, [PlatformNext]_platformVars
  PROVE  SameStory'
<1>. USE AdminSource
<1>1. IInv
  BY DEF PInv
<1>2. ASSUME NEW types \in SUBSET EventTypes, NEW failing \in BOOLEAN,
             Registration(types, failing)
      PROVE  SameStory'
  <2>1. PICK new \in 1 .. MaxHooks : new = made'
    BY <1>1, <1>2, RegisterFacts DEF Registration
  <2>2. OfAdmin("registered", new) \in AuditEntry
    BY <2>1, AdminFacts DEF Actions
  <2>3. QED
    BY <1>2, <2>1, <2>2, RequestStory DEF Registration, RegisterWebhook, AtRest
<1>3. ASSUME NEW k \in 1 .. Len(hooks), Removal(k) \/ Test(k) PROVE SameStory'
  <2>1. PICK id \in 1 .. MaxHooks : id = hooks[k].id
    BY <1>1, HookFacts DEF Hook
  <2>2. OfAdmin("removed", id) \in AuditEntry /\ OfAdmin("tested", id) \in AuditEntry
    BY <2>1, AdminFacts DEF Actions
  <2>3. QED
    BY <1>3, <2>1, <2>2, RequestStory DEF Removal, Test, RemoveWebhook, SendTestDelivery, AtRest
<1>4. ASSUME NEW type \in EventTypes, Emit(type) PROVE SameStory'
  BY <1>4, PublishStory DEF Emit
<1>5. CASE SendMail
  BY <1>5, PublishStory, PlatformAssumption DEF SendMail
<1>6. CASE Retry
  <2>1. OfAdmin("retried", NoTarget) \in AuditEntry
    BY TargetFacts, AdminFacts DEF Actions
  <2>2. QED
    BY <1>6, <2>1, RequestStory DEF Retry, RetryDueDeliveries, AtRest
<1>7. CASE Deliver
  <2>1. PICK e \in EventTypes, n \in 0 .. Len(hooks) : fanOut = [event |-> e, seen |-> n]
    BY <1>1, <1>7 DEF IInv, TypeOK, Deliver, Visit
  <2>2. fanOut' = [event |-> e, seen |-> n + 1] /\ fanOut # Idle
    BY <1>7, <2>1 DEF Deliver, Visit
  <2>3. fanOut' # Idle
    BY <2>2, Names DEF Idle
  <2>4. QED
    BY <1>7, <2>2, <2>3, QuietStory DEF Deliver, platform
<1>8. CASE AuditEvent
  BY <1>8, AuditEventStory
<1>9. CASE RecordMail
  <2>1. Mailed \in AuditEntry
    BY TargetFacts, AdminFacts DEF Actions, Mailed
  <2>2. QED
    BY <1>9, <2>1, RequestStory DEF RecordMail, Mailed, vars
<1>10. CASE OthersAdminister
  BY <1>10, OthersFacts, RequestStory DEF OthersAdminister, AtRest, vars
<1>11. ASSUME NEW type \in EventTypes, OthersEmit(type) PROVE SameStory'
  BY <1>11, OthersEmitStory
<1>12. CASE TimePasses \/ UNCHANGED platformVars
  BY <1>12, QuietStory DEF TimePasses, Tick, platform, platformVars, vars
<1>13. QED
  BY <1>2, <1>3, <1>4, <1>5, <1>6, <1>7, <1>8, <1>9, <1>10, <1>11, <1>12 DEF PlatformNext

-----------------------------------------------------------------------------
(* Platform: theorems *)

THEOREM PlatformInvariance == PlatformSpec => []PInv
<1>1. PInv /\ [PlatformNext]_platformVars => PInv'
  BY NextPInv
<1>2. QED
  BY InitPInv, <1>1, PTL DEF PlatformSpec

\* The shared history and the shared audit log hold what the services declare
\* and never more than their limits (publish, record, sendTestEmail).
THEOREM PlatformTypeCorrect == PlatformSpec => []PlatformTypeOK
<1>1. PInv => PlatformTypeOK
  BY DEF PInv
<1>2. QED
  BY <1>1, PlatformInvariance, PTL

\* Whatever other tenants push into the log, what it says last of a registration
\* is what has become of it (webhooks.controller.ts, recordAdminAction).
THEOREM AuditReplays == PlatformSpec => []WebhooksReplayed
<1>1. PInv => WebhooksReplayed
  BY DEF PInv, Replayed, WebhooksReplayed
<1>2. QED
  BY <1>1, PlatformInvariance, PTL

\* An e-mail's event and the record of its request stay next to each other in
\* the log, and stand for an e-mail that is kept (sendTestEmail).
THEOREM MailsPaired == PlatformSpec => []MailPaired
<1>1. PInv => MailPaired
  <2>1. SUFFICES ASSUME PInv PROVE MailPaired
    OBVIOUS
  <2>2. DOMAIN audit = 1 .. Len(audit)
    BY LenProperties DEF PInv, PlatformTypeOK
  <2>3. MailedAt(audit) = {i \in DOMAIN audit : audit[i] = Mailed}
    BY <2>2 DEF MailedAt
  <2>4. QED
    BY <2>1, <2>2, <2>3 DEF PInv, InPairs, MailsKept, MailPaired
<1>2. QED
  BY <1>1, PlatformInvariance, PTL

\* The deliveries only change for the last event of the history or for the
\* request at the front of the log (Visit, SendTestDelivery, RetryDueDeliveries).
THEOREM DeliveriesHaveReasons == PlatformSpec => DeliveriesExplained
<1>1. PInv /\ [PlatformNext]_platformVars => [Explained]_platformVars
  BY NextPInv
<1>2. QED
  BY <1>1, PlatformInvariance, PTL DEF PlatformSpec, DeliveriesExplained

\* Whichever of the two shared limits cuts first, the history of the bus and the
\* audit log hold the same events in the same order (publish, recordPluginEvent).
THEOREM LogsAgree == PlatformSpec => []SameStory
BY PlatformInvariance, InitStory, NextStory, PTL DEF PlatformSpec
=============================================================================
