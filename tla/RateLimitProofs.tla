--------------------------- MODULE RateLimitProofs ---------------------------
(***************************************************************************)
(* Proofs about the safety of RateLimit, for every set of requests, every  *)
(* limit, every window length and every bound.                             *)
(***************************************************************************)
EXTENDS RateLimit, TLAPS

-----------------------------------------------------------------------------
(* The inductive invariant *)

\* While a window lasts, the request that raised its counter from zero is the
\* only one about to give it an expiry, and the key stays.  Afterwards the key
\* may expire while EXPIRE is sent again, and be made anew by a delayed INCR.
OneFirst ==
  \A r \in Requests, w \in Windows :
    First(r, w) /\ w = current =>
      counter[w] > 0 /\ \A s \in Requests : First(s, w) => s = r

KeyOfItsOwn == \A w \in Windows : counter[w] = 0 => ttl[w] = NoExpiry

\* The client gives up after MaxSends.
SendsLeft ==
  \A r \in Requests : req[r].phase \in {"sending", "first"} => req[r].sends < MaxSends

\* The counter of the current window lives at least as long as the window.
OutlivesWindow ==
  current \in Windows => ttl[current] = NoExpiry \/ ttl[current] >= left

\* Nothing has happened yet in the windows to come.
FutureUntouched ==
  /\ \A w \in Windows : w > current =>
       counter[w] = 0 /\ ttl[w] = NoExpiry /\ passed[w] = 0 /\ ~spoilt[w]
  /\ \A r \in Requests : req[r].key <= current

\* While a window lasts, its counter covers the units taken, and unless a
\* unit was lost it counts nothing else up to the limit.
Accounted ==
  \A w \in Windows : w = current =>
    /\ Taken(w) <= counter[w] /\ Taken(w) <= Limit
    /\ ~spoilt[w] => Taken(w) = IF Within(counter[w]) THEN counter[w] ELSE Limit

IInv ==
  /\ TypeOK /\ OneFirst /\ KeyOfItsOwn /\ SendsLeft /\ OutlivesWindow /\ FutureUntouched
  /\ Accounted /\ BudgetPerWindow /\ TimelessOnlyByFault

-----------------------------------------------------------------------------
(* What the helpers of the actions do *)

LEMMA RequestFacts ==
  ASSUME TypeOK, NEW r \in Requests
  PROVE  /\ req[r] \in Request /\ req[r].phase \in Phases
         /\ req[r].key \in Windows /\ req[r].sends \in 0 .. MaxSends
BY DEF TypeOK, Request

\* Requests are opaque here: the record forms are unfolded only in this lemma
\* and in ChangedFacts.
LEMMA MovedFacts ==
  ASSUME TypeOK, NEW r \in Requests, NEW phase \in Phases, Moved(r, phase)
  PROVE  /\ req' \in [Requests -> Request]
         /\ \A s \in Requests : req'[s].key = req[s].key
         /\ req'[r].phase = phase /\ \A s \in Requests \ {r} : req'[s] = req[s]
         /\ phase \notin {"sending", "first"} /\ SendsLeft => SendsLeft'
         /\ \A s \in Requests, w \in Windows :
              First(s, w)' <=> IF s = r THEN phase = "first" /\ req[r].key = w
                               ELSE First(s, w)
<1>. DEFINE new == [req[r] EXCEPT !.phase = phase]
<1>1. PICK k \in Windows, n \in 0 .. MaxSends, p \in Phases :
        req[r] = [phase |-> p, key |-> k, sends |-> n]
  BY DEF TypeOK, Request
<1>2. new = [phase |-> phase, key |-> k, sends |-> n]
  BY <1>1
<1>3. new \in Request /\ new.key = req[r].key /\ new.phase = phase
  BY <1>1, <1>2 DEF Request
<1>4. req' = [req EXCEPT ![r] = new]
  BY DEF Moved
<1>. HIDE DEF new
<1>5. /\ req' \in [Requests -> Request]
      /\ req'[r] = new /\ \A s \in Requests \ {r} : req'[s] = req[s]
  BY <1>3, <1>4 DEF TypeOK
<1>6. QED
  BY <1>3, <1>5 DEF First, SendsLeft

\* The request is replaced by another one.
LEMMA ChangedFacts ==
  ASSUME TypeOK, NEW r \in Requests, NEW phase \in Phases,
         NEW k \in Windows, NEW n \in 0 .. MaxSends,
         req' = [req EXCEPT ![r] = [phase |-> phase, key |-> k, sends |-> n]]
  PROVE  /\ req' \in [Requests -> Request]
         /\ \A s \in Requests : req'[s].key = IF s = r THEN k ELSE req[s].key
         /\ req'[r].phase = phase /\ \A s \in Requests \ {r} : req'[s] = req[s]
         /\ (phase \in {"sending", "first"} => n < MaxSends) /\ SendsLeft => SendsLeft'
         /\ \A s \in Requests, w \in Windows :
              First(s, w)' <=> IF s = r THEN phase = "first" /\ k = w ELSE First(s, w)
<1>. DEFINE new == [phase |-> phase, key |-> k, sends |-> n]
<1>1. new \in Request /\ new.key = k /\ new.phase = phase /\ new.sends = n
  BY DEF Request
<1>. HIDE DEF new
<1>2. /\ req' \in [Requests -> Request]
      /\ req'[r] = new /\ \A s \in Requests \ {r} : req'[s] = req[s]
  BY <1>1 DEF TypeOK, new
<1>3. QED
  BY <1>1, <1>2 DEF First, SendsLeft

\* An unheard command leaves the request where it is, or ends it.
LEMMA UnheardFacts ==
  ASSUME TypeOK, SendsLeft, NEW r \in Requests, req[r].phase \in {"sending", "first"},
         Unheard(r)
  PROVE  /\ req' \in [Requests -> Request]
         /\ \A s \in Requests : req'[s].key = req[s].key
         /\ req'[r].phase = IF LastSend(r) THEN "error" ELSE req[r].phase
         /\ \A s \in Requests \ {r} : req'[s] = req[s]
         /\ SendsLeft'
         /\ \A s \in Requests, w \in Windows :
              First(s, w)' <=> First(s, w) /\ (s = r => ~LastSend(r))
<1>. DEFINE phase == IF LastSend(r) THEN "error" ELSE req[r].phase
            n == req[r].sends + 1
<1>1. req[r].key \in Windows /\ req[r].sends \in 0 .. MaxSends /\ req[r].sends < MaxSends
  BY RequestFacts DEF SendsLeft
<1>2. n \in 0 .. MaxSends /\ (~LastSend(r) => n < MaxSends)
  BY <1>1, RateLimitAssumption DEF LastSend
<1>3. phase \in Phases /\ (phase \in {"sending", "first"} => ~LastSend(r))
  BY DEF Phases, Answers
<1>4. req' = [req EXCEPT ![r] = [phase |-> phase, key |-> req[r].key, sends |-> n]]
  BY DEF Unheard
<1>5. \A w \in Windows : First(r, w) <=> req[r].phase = "first" /\ req[r].key = w
  BY DEF First
<1>6. phase = "first" <=> req[r].phase = "first" /\ ~LastSend(r)
  OBVIOUS
<1>. HIDE DEF n
<1>7. /\ req' \in [Requests -> Request]
      /\ \A s \in Requests : req'[s].key = IF s = r THEN req[r].key ELSE req[s].key
      /\ req'[r].phase = phase /\ \A s \in Requests \ {r} : req'[s] = req[s]
      /\ SendsLeft'
      /\ \A s \in Requests, w \in Windows :
           First(s, w)' <=> IF s = r THEN phase = "first" /\ req[r].key = w ELSE First(s, w)
  <2>. HIDE DEF phase
  <2>1. QED
    BY <1>1, <1>2, <1>3, <1>4, ChangedFacts
<1>8. QED
  BY <1>5, <1>6, <1>7

LEMMA ExpiringFacts ==
  ASSUME TypeOK, NEW w \in Windows, Expiring(w)
  PROVE  /\ ttl' \in [Windows -> {NoExpiry} \cup 1 .. Window]
         /\ \A v \in Windows :
              ttl'[v] = IF v = w /\ counter[w] > 0 THEN Window ELSE ttl[v]
BY RateLimitAssumption DEF TypeOK, Expiring, Expiry

-----------------------------------------------------------------------------
(* The steps *)

LEMMA InitIInv == Init => IInv
<1>. SUFFICES ASSUME Init PROVE IInv
  OBVIOUS
<1>. USE RateLimitAssumption DEF Init, Windows, NoExpiry
<1>1. \A r \in Requests : /\ req[r] \in Request
                           /\ req[r].phase = "coming" /\ req[r].key = 0
  <2>1. [phase |-> "coming", key |-> 0, sends |-> 0] \in Request
    BY DEF Request, Phases
  <2>2. QED
    BY <2>1
<1>2. TypeOK
  BY <1>1 DEF TypeOK
<1>3. OneFirst /\ KeyOfItsOwn /\ SendsLeft /\ TimelessOnlyByFault
  BY <1>1 DEF OneFirst, KeyOfItsOwn, SendsLeft, First, TimelessOnlyByFault
<1>4. Taken(0) = 0
  BY <1>1 DEF Taken, First
<1>5. OutlivesWindow /\ FutureUntouched /\ Accounted /\ BudgetPerWindow
  BY <1>1, <1>4 DEF OutlivesWindow, FutureUntouched, Accounted, BudgetPerWindow, Within
<1>6. QED
  BY <1>2, <1>3, <1>5 DEF IInv

LEMMA StutterIInv == IInv /\ UNCHANGED vars => IInv'
BY DEF IInv, vars, TypeOK, OneFirst, First, KeyOfItsOwn, SendsLeft, OutlivesWindow, FutureUntouched, Accounted,
       Taken, BudgetPerWindow, TimelessOnlyByFault

LEMMA ArriveIInv ==
  ASSUME IInv, NEW r \in Requests, Arrive(r)
  PROVE  IInv'
<1>. USE DEF Arrive
<1>1. /\ req' \in [Requests -> Request]
      /\ \A s \in Requests : req'[s].key = IF s = r THEN current ELSE req[s].key
      /\ SendsLeft'
      /\ \A s \in Requests, w \in Windows : First(s, w)' <=> First(s, w)
  <2>1. 0 \in 0 .. MaxSends /\ 0 < MaxSends
    BY RateLimitAssumption
  <2>2. "sending" \in Phases /\ \A w \in Windows : ~First(r, w)
    BY DEF Phases, First
  <2>3. /\ req' \in [Requests -> Request]
        /\ \A s \in Requests : req'[s].key = IF s = r THEN current ELSE req[s].key
        /\ SendsLeft'
        /\ \A s \in Requests, w \in Windows :
             First(s, w)' <=> IF s = r THEN "sending" = "first" /\ current = w ELSE First(s, w)
    BY <2>1, <2>2, ChangedFacts DEF IInv
  <2>4. QED
    BY <2>2, <2>3
<1>2. TypeOK'
  BY <1>1 DEF IInv, TypeOK
<1>3. OneFirst' /\ KeyOfItsOwn' /\ TimelessOnlyByFault'
  BY <1>1 DEF IInv, OneFirst, KeyOfItsOwn, TimelessOnlyByFault
<1>4. \A w \in Windows : Taken(w)' = Taken(w)
  BY <1>1 DEF Taken
<1>5. FutureUntouched'
  BY <1>1 DEF IInv, FutureUntouched, TypeOK, Windows
<1>6. OutlivesWindow' /\ Accounted' /\ BudgetPerWindow'
  BY <1>4 DEF IInv, OutlivesWindow, Accounted, BudgetPerWindow
<1>7. QED
  BY <1>1, <1>2, <1>3, <1>5, <1>6 DEF IInv
\* INCR is answered: the three answers differ in who is forwarded and who is
\* about to set the expiry.
LEMMA CountIInv ==
  ASSUME IInv, NEW r \in Requests, Count(r)
  PROVE  IInv'
<1>. DEFINE w == req[r].key
            count == counter[w] + 1
<1>1. /\ w \in Windows /\ w <= current /\ ~First(r, w)
      /\ counter[w] \in Nat /\ count \in Nat /\ counter' \in [Windows -> Nat]
      /\ \A v \in Windows : counter'[v] = IF v = w THEN count ELSE counter[v]
      /\ UNCHANGED <<current, left, ttl, spoilt>>
  BY RequestFacts DEF IInv, TypeOK, FutureUntouched, First, Count, Raised
<1>2. \A v \in Windows : v = current => current \in Windows
  OBVIOUS
<1>. HIDE DEF w, count
<1>3. \A s \in Requests, v \in Windows :
        First(s, v) => s # r /\ (v = current => counter[v] > 0)
  BY <1>1 DEF IInv, OneFirst, First, Count
<1>4. CASE /\ count = 1 /\ UNCHANGED passed
           /\ req' = [req EXCEPT ![r] = [phase |-> "first", key |-> w, sends |-> 0]]
  <2>1. "first" \in Phases /\ 0 \in 0 .. MaxSends /\ 0 < MaxSends
    BY RateLimitAssumption DEF Phases
  <2>2. /\ req' \in [Requests -> Request]
        /\ \A s \in Requests : req'[s].key = req[s].key
        /\ SendsLeft'
        /\ \A s \in Requests, v \in Windows :
             First(s, v)' <=> (s = r /\ v = w) \/ First(s, v)
    <3>1. /\ req' \in [Requests -> Request]
          /\ \A s \in Requests : req'[s].key = IF s = r THEN w ELSE req[s].key
          /\ SendsLeft'
          /\ \A s \in Requests, v \in Windows :
               First(s, v)' <=> IF s = r THEN "first" = "first" /\ w = v ELSE First(s, v)
      BY <1>1, <1>4, <2>1, ChangedFacts DEF IInv
    <3>2. QED
      BY <1>1, <1>3, <3>1 DEF w
  <2>3. counter[w] = 0 /\ ttl[w] = NoExpiry
    BY <1>1, <1>4 DEF count, IInv, KeyOfItsOwn
  <2>4. TypeOK'
    BY <1>1, <1>4, <2>2 DEF IInv, TypeOK
  <2>5. OneFirst' /\ KeyOfItsOwn' /\ TimelessOnlyByFault'
    BY <1>1, <1>3, <1>4, <2>2, <2>3 DEF IInv, OneFirst, KeyOfItsOwn, TimelessOnlyByFault
  <2>6. FutureUntouched' /\ OutlivesWindow' /\ BudgetPerWindow'
    BY <1>1, <1>4, <2>2
    DEF IInv, TypeOK, FutureUntouched, OutlivesWindow, BudgetPerWindow, Windows
  <2>7. Accounted'
    BY <1>1, <1>3, <1>4, <2>2, <2>3, RateLimitAssumption
    DEF IInv, TypeOK, Accounted, Taken, Within
  <2>8. QED
    BY <2>2, <2>4, <2>5, <2>6, <2>7 DEF IInv
<1>5. ASSUME count > 1, NEW phase \in {"passed", "refused"}, Moved(r, phase),
             \/ /\ Within(count)
                /\ passed' = [passed EXCEPT ![w] = IF w = current THEN @ + 1 ELSE @]
             \/ ~Within(count) /\ UNCHANGED passed
      PROVE  IInv'
  <2>1. phase \in Phases /\ phase # "sending"
    BY <1>5 DEF Phases, Answers
  <2>2. /\ req' \in [Requests -> Request]
        /\ \A s \in Requests : req'[s].key = req[s].key
        /\ SendsLeft'
        /\ \A s \in Requests, v \in Windows : First(s, v)' <=> First(s, v)
    BY <1>1, <1>3, <1>5, <2>1, MovedFacts DEF IInv
  <2>3. /\ passed' \in [Windows -> Nat]
        /\ \A v \in Windows : v # current \/ w # current => passed'[v] = passed[v]
        /\ w = current => passed'[w] = IF Within(count) THEN passed[w] + 1 ELSE passed[w]
    BY <1>1, <1>5 DEF IInv, TypeOK
  <2>4. TypeOK'
    BY <1>1, <2>2, <2>3 DEF IInv, TypeOK
  <2>5. OneFirst' /\ KeyOfItsOwn' /\ TimelessOnlyByFault'
    BY <1>1, <1>5, <2>2 DEF count, IInv, OneFirst, KeyOfItsOwn, TimelessOnlyByFault
  <2>6. FutureUntouched' /\ OutlivesWindow'
    BY <1>1, <2>2, <2>3 DEF IInv, TypeOK, FutureUntouched, OutlivesWindow, Windows
  <2>7. Accounted'
    BY <1>1, <2>2, <2>3, RateLimitAssumption
    DEF count, IInv, TypeOK, Accounted, Taken, Within
  <2>8. BudgetPerWindow'
    BY <1>1, <2>3, <2>4, <2>7, RateLimitAssumption
    DEF IInv, TypeOK, BudgetPerWindow, Accounted, Taken
  <2>9. QED
    BY <2>2, <2>4, <2>5, <2>6, <2>7, <2>8 DEF IInv
<1>6. QED
  BY <1>4, <1>5 DEF Count, Forward, w, count
\* The answer to INCR is lost.
LEMMA CountUnheardIInv ==
  ASSUME IInv, NEW r \in Requests, CountUnheard(r)
  PROVE  IInv'
<1>. DEFINE w == req[r].key
<1>1. /\ w \in Windows /\ w <= current /\ counter' \in [Windows -> Nat]
      /\ \A v \in Windows : counter'[v] = IF v = w THEN counter[w] + 1 ELSE counter[v]
      /\ spoilt' \in [Windows -> BOOLEAN]
      /\ \A v \in Windows : spoilt'[v] <=> v = w \/ spoilt[v]
      /\ UNCHANGED <<current, left, ttl, passed>>
  BY RequestFacts DEF IInv, TypeOK, FutureUntouched, CountUnheard, Raised, Spoil
<1>2. \A v \in Windows : ~First(r, v)
  BY DEF CountUnheard, First
<1>3. /\ req' \in [Requests -> Request]
      /\ \A s \in Requests : req'[s].key = req[s].key
      /\ SendsLeft'
      /\ \A s \in Requests, v \in Windows : First(s, v)' <=> First(s, v)
  BY <1>2, UnheardFacts DEF IInv, CountUnheard
<1>. HIDE DEF w
<1>4. TypeOK'
  BY <1>1, <1>3 DEF IInv, TypeOK
<1>5. OneFirst' /\ KeyOfItsOwn' /\ TimelessOnlyByFault'
  BY <1>1, <1>3 DEF IInv, TypeOK, OneFirst, KeyOfItsOwn, TimelessOnlyByFault
<1>6. FutureUntouched' /\ OutlivesWindow' /\ BudgetPerWindow'
  BY <1>1, <1>3
  DEF IInv, TypeOK, FutureUntouched, OutlivesWindow, BudgetPerWindow, Windows
<1>7. Accounted'
  BY <1>1, <1>3, RateLimitAssumption DEF IInv, TypeOK, Accounted, Taken, Within
<1>8. QED
  BY <1>3, <1>4, <1>5, <1>6, <1>7 DEF IInv

\* A request is given up before INCR: nothing else changes.
LEMMA CountFailsIInv ==
  ASSUME IInv, NEW r \in Requests, CountFails(r)
  PROVE  IInv'
<1>1. "error" \in Phases /\ "error" # "first" /\ "error" # "sending"
  BY DEF Phases, Answers
<1>2. /\ req' \in [Requests -> Request]
      /\ \A s \in Requests : req'[s].key = req[s].key
      /\ SendsLeft'
      /\ \A s \in Requests, v \in Windows : First(s, v)' <=> First(s, v)
  <2>1. \A v \in Windows : ~First(r, v)
    BY DEF CountFails, First
  <2>2. QED
    BY <1>1, <2>1, MovedFacts DEF IInv, CountFails
<1>3. UNCHANGED <<current, left, counter, ttl, passed, spoilt>>
  BY DEF CountFails
<1>4. TypeOK' /\ OneFirst' /\ KeyOfItsOwn' /\ TimelessOnlyByFault'
  BY <1>2, <1>3 DEF IInv, TypeOK, OneFirst, KeyOfItsOwn, TimelessOnlyByFault
<1>5. FutureUntouched' /\ OutlivesWindow' /\ BudgetPerWindow' /\ Accounted'
  BY <1>2, <1>3
  DEF IInv, FutureUntouched, OutlivesWindow, BudgetPerWindow, Accounted, Taken, Within
<1>6. QED
  BY <1>2, <1>4, <1>5 DEF IInv

\* EXPIRE is sent again: the key lives longer, if it is still there.
LEMMA ExpiryAgainIInv ==
  ASSUME IInv, NEW r \in Requests, SetExpiryUnheard(r), ~LastSend(r)
  PROVE  IInv'
<1>1. /\ req' \in [Requests -> Request]
      /\ \A s \in Requests : req'[s].key = req[s].key
      /\ SendsLeft'
      /\ \A s \in Requests, v \in Windows : First(s, v)' <=> First(s, v)
  BY UnheardFacts DEF IInv, SetExpiryUnheard
<1>2. PICK w \in Windows : w = req[r].key /\ w <= current
  BY RequestFacts DEF IInv, FutureUntouched
<1>3. /\ ttl' \in [Windows -> {NoExpiry} \cup 1 .. Window]
      /\ \A v \in Windows : ttl'[v] = IF v = w /\ counter[w] > 0 THEN Window ELSE ttl[v]
  BY <1>2, ExpiringFacts DEF IInv, SetExpiryUnheard
<1>4. UNCHANGED <<current, left, counter, passed, spoilt>>
  BY DEF SetExpiryUnheard
<1>5. Window # NoExpiry /\ Window \in Nat
  BY RateLimitAssumption DEF NoExpiry
<1>6. TypeOK'
  BY <1>1, <1>3, <1>4 DEF IInv, TypeOK
<1>7. OneFirst' /\ KeyOfItsOwn' /\ TimelessOnlyByFault'
  BY <1>1, <1>3, <1>4, <1>5 DEF IInv, TypeOK, OneFirst, KeyOfItsOwn, TimelessOnlyByFault
<1>8. FutureUntouched' /\ OutlivesWindow'
  BY <1>1, <1>2, <1>3, <1>4, <1>5
  DEF IInv, TypeOK, FutureUntouched, OutlivesWindow, Windows
<1>9. Accounted' /\ BudgetPerWindow'
  BY <1>1, <1>4 DEF IInv, Accounted, BudgetPerWindow, Taken, Within
<1>10. QED
  BY <1>1, <1>6, <1>7, <1>8, <1>9 DEF IInv

\* The three ends of a request that is to set the expiry of its counter: while
\* the window lasts it is the only one, so nobody is left to do it.
LEMMA ExpiryEndsIInv ==
  ASSUME IInv, NEW r \in Requests,
         \/ SetExpiry(r) \/ SetExpiryFails(r)
         \/ SetExpiryUnheard(r) /\ LastSend(r)
  PROVE  IInv'
<1>1. PICK w \in Windows : w = req[r].key /\ First(r, w)
  BY RequestFacts DEF IInv, First, SetExpiry, SetExpiryUnheard, SetExpiryFails
<1>2. UNCHANGED <<current, left, counter>>
  BY DEF SetExpiry, SetExpiryUnheard, SetExpiryFails
<1>3. /\ req' \in [Requests -> Request]
      /\ \A s \in Requests : req'[s].key = req[s].key
      /\ SendsLeft'
      /\ \A s \in Requests, v \in Windows : First(s, v)' <=> First(s, v) /\ s # r
  <2>1. CASE SetExpiry(r) \/ SetExpiryFails(r)
    <3>1. PICK phase \in {"passed", "error"} : Moved(r, phase)
      BY <2>1 DEF SetExpiry, SetExpiryFails, Forward
    <3>2. phase \in Phases /\ phase \notin {"sending", "first"}
      BY <3>1 DEF Phases, Answers
    <3>3. QED
      BY <3>1, <3>2, MovedFacts DEF IInv
  <2>2. CASE SetExpiryUnheard(r) /\ LastSend(r)
    BY <2>2, UnheardFacts DEF IInv, SetExpiryUnheard
  <2>3. QED
    BY <2>1, <2>2
<1>4. /\ w <= current
      /\ w = current => counter[w] > 0 /\ \A s \in Requests : First(s, w) => s = r
  BY <1>1 DEF IInv, OneFirst, FutureUntouched
<1>5. \A v \in Windows : First(r, v) => v = w
  BY <1>1 DEF First
<1>6. /\ ttl' \in [Windows -> {NoExpiry} \cup 1 .. Window]
      /\ \/ UNCHANGED ttl
         \/ \A v \in Windows : ttl'[v] = IF v = w /\ counter[w] > 0 THEN Window ELSE ttl[v]
  BY <1>1, ExpiringFacts DEF IInv, TypeOK, SetExpiry, SetExpiryUnheard, SetExpiryFails
<1>7. \/ /\ spoilt' = [spoilt EXCEPT ![w] = TRUE] /\ passed' = passed
      \/ /\ spoilt' = spoilt /\ (counter[w] > 0 => ttl'[w] = Window)
         /\ passed' = [passed EXCEPT ![w] = IF w = current THEN @ + 1 ELSE @]
  BY <1>1, ExpiringFacts
  DEF IInv, SetExpiry, SetExpiryUnheard, SetExpiryFails, Forward, Spoil
<1>8. Window # NoExpiry /\ Window \in Nat
  BY RateLimitAssumption DEF NoExpiry
<1>9. /\ spoilt' \in [Windows -> BOOLEAN] /\ passed' \in [Windows -> Nat]
      /\ \A v \in Windows : v # w => (spoilt'[v] <=> spoilt[v]) /\ passed'[v] = passed[v]
      /\ \/ spoilt'[w] /\ passed'[w] = passed[w]
         \/ /\ spoilt'[w] <=> spoilt[w]
            /\ counter[w] > 0 => ttl'[w] = Window
            /\ passed'[w] = IF w = current THEN passed[w] + 1 ELSE passed[w]
  <2>1. CASE spoilt' = [spoilt EXCEPT ![w] = TRUE] /\ passed' = passed
    BY <1>1, <2>1 DEF IInv, TypeOK
  <2>2. CASE /\ spoilt' = spoilt /\ (counter[w] > 0 => ttl'[w] = Window)
             /\ passed' = [passed EXCEPT ![w] = IF w = current THEN @ + 1 ELSE @]
    BY <1>1, <2>2 DEF IInv, TypeOK
  <2>3. QED
    BY <1>7, <2>1, <2>2
<1>10. TypeOK'
  BY <1>2, <1>3, <1>6, <1>9 DEF IInv, TypeOK
<1>11. OneFirst' /\ KeyOfItsOwn'
  BY <1>2, <1>3, <1>6 DEF IInv, TypeOK, OneFirst, KeyOfItsOwn
<1>12. TimelessOnlyByFault'
  BY <1>1, <1>2, <1>3, <1>5, <1>6, <1>8, <1>9 DEF IInv, TimelessOnlyByFault
<1>13. FutureUntouched' /\ OutlivesWindow'
  BY <1>1, <1>2, <1>3, <1>4, <1>6, <1>8, <1>9
  DEF IInv, TypeOK, FutureUntouched, OutlivesWindow, Windows
<1>14. Accounted'
  <2>1. \A v \in Windows : v # w => Taken(v)' = Taken(v)
    BY <1>3, <1>5, <1>9 DEF Taken
  <2>2. w = current => Taken(w)' = passed'[w] /\ Taken(w) = passed[w] + 1
    BY <1>1, <1>3, <1>4, <1>9 DEF Taken
  <2>3. CASE current # w
    BY <1>2, <1>9, <2>1, <2>3 DEF IInv, Accounted, Within
  <2>4. CASE current = w
    <3>1. /\ Taken(w) <= counter[w] /\ Taken(w) <= Limit
          /\ ~spoilt[w] =>
               Taken(w) = IF Within(counter[w]) THEN counter[w] ELSE Limit
      BY <1>1, <2>4 DEF IInv, Accounted
    <3>2. Taken(w)' = Taken(w) \/ (spoilt'[w] /\ Taken(w)' = Taken(w) - 1)
      BY <1>1, <1>9, <2>2, <2>4 DEF IInv, TypeOK
    <3>3. Taken(w) \in Int
      BY <1>1, <2>2, <2>4 DEF IInv, TypeOK
    <3>4. CASE Taken(w)' = Taken(w)
      <4>1. spoilt[w] => spoilt'[w]
        BY <1>9
      <4>2. QED
        BY <1>2, <2>4, <3>1, <3>4, <4>1 DEF Accounted, Within
    <3>5. CASE spoilt'[w] /\ Taken(w)' = Taken(w) - 1
      BY <1>1, <1>2, <2>4, <3>1, <3>3, <3>5, RateLimitAssumption
      DEF IInv, TypeOK, Accounted
    <3>6. QED
      BY <3>2, <3>4, <3>5
  <2>5. QED
    BY <2>3, <2>4
<1>15. BudgetPerWindow'
  BY <1>1, <1>9, <1>10, <1>14, <1>2, RateLimitAssumption
  DEF IInv, TypeOK, BudgetPerWindow, Accounted, Taken
<1>16. QED
  BY <1>3, <1>10, <1>11, <1>12, <1>13, <1>14, <1>15 DEF IInv
\* Time passes: a counter is dropped when its time is up, but not that of the
\* window that goes on.
LEMMA TickIInv ==
  ASSUME IInv, Tick
  PROVE  IInv'
<1>1. /\ current \in 0 .. LastWindow + 1 /\ left \in 1 .. Window /\ LastWindow \in Nat
      /\ Window \in Nat /\ Limit \in Nat
      /\ \A w \in Windows : counter[w] \in Nat /\ ttl[w] \in {NoExpiry} \cup 1 .. Window
  BY RateLimitAssumption DEF IInv, TypeOK
<1>2. /\ counter' \in [Windows -> Nat] /\ ttl' \in [Windows -> {NoExpiry} \cup 1 .. Window]
      /\ \A w \in Windows :
           /\ counter'[w] = IF ttl[w] = 1 THEN 0 ELSE counter[w]
           /\ ttl'[w] = IF ttl[w] > 1 THEN ttl[w] - 1 ELSE NoExpiry
  BY <1>1 DEF Tick, NoExpiry
<1>3. /\ \A r \in Requests, w \in Windows : First(r, w)' <=> First(r, w)
      /\ \A w \in Windows : Taken(w)' = Taken(w)
      /\ UNCHANGED <<req, passed, spoilt>>
  BY DEF Tick, First, Taken
<1>4. \/ current \in Windows /\ left > 1 /\ left' = left - 1 /\ current' = current
      \/ current \in Windows /\ left = 1 /\ left' = Window /\ current' = current + 1
      \/ current \notin Windows /\ current' = current /\ left' = left
  BY <1>1 DEF Tick
<1>5. TypeOK'
  <2>1. current' \in 0 .. LastWindow + 1 /\ left' \in 1 .. Window
    BY <1>1, <1>4, RateLimitAssumption DEF Windows
  <2>2. QED
    BY <1>2, <1>3, <2>1 DEF IInv, TypeOK
<1>6. SendsLeft' /\ BudgetPerWindow'
  BY <1>3 DEF IInv, SendsLeft, BudgetPerWindow
<1>7. KeyOfItsOwn' /\ TimelessOnlyByFault'
  BY <1>1, <1>2, <1>3 DEF IInv, KeyOfItsOwn, TimelessOnlyByFault, NoExpiry
<1>8. FutureUntouched'
  <2>1. current' >= current /\ current' \in Int
    BY <1>1, <1>4
  <2>2. \A w \in Windows : w > current' =>
          counter[w] = 0 /\ ttl[w] = NoExpiry /\ passed[w] = 0 /\ ~spoilt[w]
    BY <1>1, <2>1 DEF IInv, FutureUntouched, Windows
  <2>3. \A r \in Requests : req[r].key <= current'
    BY <1>1, <2>1, RequestFacts DEF IInv, FutureUntouched, Windows
  <2>4. QED
    BY <1>2, <1>3, <2>2, <2>3 DEF FutureUntouched, NoExpiry
<1>9. OneFirst' /\ OutlivesWindow' /\ Accounted'
  <2>1. CASE current \in Windows /\ left > 1 /\ left' = left - 1 /\ current' = current
    <3>1. ttl[current] = NoExpiry \/ ttl[current] >= left
      BY <2>1 DEF IInv, OutlivesWindow
    <3>2. counter'[current] = counter[current]
      BY <1>1, <1>2, <2>1, <3>1 DEF NoExpiry
    <3>3. OutlivesWindow'
      BY <1>1, <1>2, <2>1, <3>1 DEF OutlivesWindow, NoExpiry
    <3>4. Accounted'
      BY <1>3, <2>1, <3>2 DEF IInv, Accounted, Within
    <3>5. OneFirst'
      BY <1>3, <2>1, <3>2 DEF IInv, OneFirst
    <3>6. QED
      BY <3>3, <3>4, <3>5
  <2>2. CASE current \in Windows /\ left = 1 /\ left' = Window /\ current' = current + 1
    <3>1. SUFFICES ASSUME NEW w \in Windows, w = current'
                   PROVE  /\ ttl'[w] = NoExpiry
                          /\ Taken(w)' = 0 /\ counter'[w] = 0 /\ ~spoilt'[w]
                          /\ \A r \in Requests : ~First(r, w)'
      BY <1>1 DEF OneFirst, OutlivesWindow, Accounted, Within
    <3>2. w > current
      BY <1>1, <2>2, <3>1 DEF Windows
    <3>3. counter[w] = 0 /\ ttl[w] = NoExpiry /\ passed[w] = 0 /\ ~spoilt[w]
      BY <3>2 DEF IInv, FutureUntouched
    <3>4. \A r \in Requests : ~First(r, w)
      BY <1>1, <3>1, <3>2 DEF IInv, FutureUntouched, First, Windows
    <3>5. Taken(w) = 0
      BY <3>3, <3>4 DEF Taken
    <3>6. QED
      BY <1>2, <1>3, <3>3, <3>4, <3>5 DEF NoExpiry
  <2>3. CASE current \notin Windows /\ current' = current
    BY <2>3 DEF OneFirst, OutlivesWindow, Accounted
  <2>4. QED
    BY <1>4, <2>1, <2>2, <2>3
<1>10. QED
  BY <1>5, <1>6, <1>7, <1>8, <1>9 DEF IInv

LEMMA NextIInv == IInv /\ [Next]_vars => IInv'
<1>. SUFFICES ASSUME IInv, [Next]_vars PROVE IInv'
  OBVIOUS
<1>1. CASE UNCHANGED vars
  BY <1>1, StutterIInv
<1>2. ASSUME NEW r \in Requests, Arrive(r) \/ Handle(r)
      PROVE  IInv'
  BY <1>2, ArriveIInv, CountIInv, CountUnheardIInv, CountFailsIInv, ExpiryAgainIInv,
     ExpiryEndsIInv
  DEF Handle
<1>3. CASE Tick
  BY <1>3, TickIInv
<1>4. QED
  BY <1>1, <1>2, <1>3 DEF Next

-----------------------------------------------------------------------------
(* The theorems *)

THEOREM Invariance == Spec => []IInv
<1>1. Init => IInv
  BY InitIInv
<1>2. IInv /\ [Next]_vars => IInv'
  BY NextIInv
<1>3. QED
  BY <1>1, <1>2, PTL DEF Spec

\* The variables of the limiter keep their types (middleware.go, redis_store.go).
THEOREM TypeCorrect == Spec => []TypeOK
<1>1. IInv => TypeOK
  BY DEF IInv
<1>2. QED
  BY <1>1, Invariance, PTL

\* Whatever the limit, the length of a window and the number of requests in
\* flight: at most Limit of them are forwarded in the window they came in.
THEOREM BudgetKept == Spec => []BudgetPerWindow
<1>1. IInv => BudgetPerWindow
  BY DEF IInv
<1>2. QED
  BY <1>1, Invariance, PTL

\* A counter without an expiry has a request about to set it, unless a call
\* to Redis went wrong (INCR and EXPIRE of redis_store.go are two calls).
THEOREM TimelessExplained == Spec => []TimelessOnlyByFault
<1>1. IInv => TimelessOnlyByFault
  BY DEF IInv
<1>2. QED
  BY <1>1, Invariance, PTL

\* Only an answer to INCR beyond the limit refuses a request.
LEMMA RefusedByCount ==
  ASSUME IInv, Next, NEW r \in Requests, Refused(r)
  PROVE  ~Within(counter[req[r].key] + 1)
<1>. DEFINE beyond == ~Within(counter[req[r].key] + 1)
<1>1. req[r].phase = "sending" /\ req'[r].phase = "refused"
  BY DEF Refused
<1>2. ASSUME NEW s \in Requests, NEW phase \in Phases \ {"refused"}, Moved(s, phase)
      PROVE  FALSE
  BY <1>1, <1>2, MovedFacts DEF IInv
<1>3. ASSUME NEW s \in Requests, NEW phase \in Phases \ {"refused"},
             NEW k \in Windows, NEW n \in 0 .. MaxSends,
             req' = [req EXCEPT ![s] = [phase |-> phase, key |-> k, sends |-> n]]
      PROVE  FALSE
  BY <1>1, <1>3, ChangedFacts DEF IInv
<1>4. CASE Tick
  BY <1>1, <1>4 DEF Tick
<1>5. ASSUME NEW s \in Requests, Arrive(s)
      PROVE  FALSE
  <2>1. 0 \in 0 .. MaxSends /\ "sending" \in Phases \ {"refused"}
    BY RateLimitAssumption DEF Phases
  <2>2. QED
    BY <1>3, <1>5, <2>1 DEF Arrive
<1>6. ASSUME NEW s \in Requests, CountUnheard(s) \/ SetExpiryUnheard(s)
      PROVE  FALSE
  <2>1. req[s].phase \in {"sending", "first"} /\ Unheard(s)
    BY <1>6 DEF CountUnheard, SetExpiryUnheard
  <2>2. req'[s].phase # "refused" /\ \A t \in Requests \ {s} : req'[t] = req[t]
    BY <2>1, UnheardFacts DEF IInv
  <2>3. QED
    BY <1>1, <2>2
<1>7. ASSUME NEW s \in Requests, CountFails(s) \/ SetExpiry(s) \/ SetExpiryFails(s)
      PROVE  FALSE
  <2>1. \E phase \in {"passed", "error"} : Moved(s, phase)
    BY <1>7 DEF CountFails, SetExpiry, SetExpiryFails, Forward
  <2>2. QED
    BY <1>2, <2>1 DEF Phases, Answers
<1>8. ASSUME NEW s \in Requests, Count(s)
      PROVE  beyond
  <2>1. CASE Moved(s, "passed")
    BY <1>2, <2>1 DEF Phases, Answers
  <2>2. CASE Moved(s, "refused") /\ ~Within(counter[req[s].key] + 1)
    <3>1. s = r
      BY <1>1, <2>2, MovedFacts DEF IInv, Phases, Answers
    <3>2. QED
      BY <2>2, <3>1
  <2>3. CASE req' = [req EXCEPT ![s] = [phase |-> "first", key |-> req[s].key, sends |-> 0]]
    <3>1. "first" \in Phases \ {"refused"} /\ 0 \in 0 .. MaxSends
      BY RateLimitAssumption DEF Phases
    <3>2. QED
      BY <1>3, <2>3, <3>1, RequestFacts DEF IInv
  <2>4. QED
    BY <1>8, <2>1, <2>2, <2>3 DEF Count, Forward
<1>9. QED
  BY <1>4, <1>5, <1>6, <1>7, <1>8 DEF Next, Handle

\* A request is refused only when its window is used up, unless a unit of the
\* window was lost to a failed call.
THEOREM RefusalsJustified == Spec => RefusedOnlyWhenFull
<1>1. ASSUME IInv, Next, NEW r \in Requests, Refused(r)
      PROVE  Taken(current) = Limit
  <2>1. PICK w \in Windows : w = current /\ w = req[r].key
    BY <1>1, RequestFacts DEF IInv, Refused
  <2>2. req[r].phase = "sending" /\ req'[r].phase = "refused" /\ ~spoilt[w]
    BY <1>1, <2>1 DEF Refused
  <2>3. ~Within(counter[w] + 1)
    BY <1>1, <2>1, RefusedByCount
  <2>4. Taken(w) = IF Within(counter[w]) THEN counter[w] ELSE Limit
    BY <1>1, <2>1, <2>2 DEF IInv, Accounted
  <2>5. QED
    BY <1>1, <2>1, <2>3, <2>4, RateLimitAssumption DEF IInv, TypeOK, Within
<1>2. IInv /\ [Next]_vars =>
        [\A r \in Requests : Refused(r) => Taken(current) = Limit]_vars
  BY <1>1
<1>3. QED
  BY <1>2, Invariance, PTL DEF Spec, RefusedOnlyWhenFull
=============================================================================
