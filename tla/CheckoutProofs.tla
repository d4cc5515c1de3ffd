--------------------------- MODULE CheckoutProofs ---------------------------
(***************************************************************************)
(* Proofs about Checkout, for every set of tenants and products, every     *)
(* stock table and every bound: its invariants, and that it implements     *)
(* AtomicCheckout.                                                         *)
(***************************************************************************)
EXTENDS Checkout, SequenceTheorems, Sums, TLAPS

-----------------------------------------------------------------------------
(* Cart lines *)

\* What membership in CartLines says, without the functions it is built from.
LEMMA CartLinesFacts ==
  ASSUME NEW t \in Tenants, NEW ls \in CartLines(t)
  PROVE  /\ ls \in Seq(Line)
         /\ Len(ls) \in 0 .. MaxLines
         /\ DOMAIN ls = 1 .. Len(ls)
         /\ \A i \in 1 .. Len(ls) : /\ ls[i] \in Line
                                    /\ ls[i].product \in Products
                                    /\ ls[i].quantity \in Nat
         /\ \A i, j \in 1 .. Len(ls) : ls[i].product = ls[j].product => i = j
<1>1. PICK n \in 1 .. MaxLines : ls \in [1 .. n -> Line]
  BY DEF CartLines
<1>2. n \in Nat
  BY <1>1, ShopAssumption DEF ShopAssumption
<1>3. ls \in Seq(Line)
  BY <1>1, <1>2, SeqDef
<1>4. Len(ls) = n /\ DOMAIN ls = 1 .. n
  BY <1>1, <1>2, <1>3, LenProperties
<1>5. \A i \in 1 .. n : ls[i] \in Line /\ ls[i].product \in Products /\ ls[i].quantity \in Nat
  BY <1>1, ShopAssumption DEF Line, Quantities, ShopAssumption
<1>6. \A i, j \in 1 .. n : ls[i].product = ls[j].product => i = j
  BY <1>4 DEF CartLines
<1>7. QED
  BY <1>1, <1>2, <1>3, <1>4, <1>5, <1>6, ShopAssumption DEF ShopAssumption

\* On lines with distinct products UnitsOf reads the quantity of the one line
\* that has the product.
LEMMA UnitsOfLine ==
  ASSUME NEW t \in Tenants, NEW ls \in CartLines(t),
         NEW n \in 0 .. Len(ls), NEW i \in 1 .. n
  PROVE  UnitsOf(ls, n, ls[i].product) = ls[i].quantity
<1>1. i \in 1 .. Len(ls) /\ \A j \in 1 .. n : j \in 1 .. Len(ls)
  BY CartLinesFacts
<1>2. \A j \in 1 .. n : ls[j].product = ls[i].product => j = i
  BY <1>1, CartLinesFacts
<1>3. (CHOOSE j \in 1 .. n : ls[j].product = ls[i].product) = i
  BY <1>2
<1>4. QED
  BY <1>3 DEF UnitsOf

\* Products on none of the lines count zero.
LEMMA UnitsOfNone ==
  ASSUME NEW ls, NEW n, NEW p, \A i \in 1 .. n : ls[i].product # p
  PROVE  UnitsOf(ls, n, p) = 0
BY DEF UnitsOf

LEMMA UnitsOfType ==
  ASSUME NEW t \in Tenants, NEW ls \in CartLines(t), NEW n \in 0 .. Len(ls), NEW p
  PROVE  UnitsOf(ls, n, p) \in Nat
<1>1. CASE \A i \in 1 .. n : ls[i].product # p
  BY <1>1, UnitsOfNone
<1>2. CASE \E i \in 1 .. n : ls[i].product = p
  <2>1. PICK i \in 1 .. n : ls[i].product = p
    BY <1>2
  <2>2. UnitsOf(ls, n, p) = ls[i].quantity
    BY <2>1, UnitsOfLine
  <2>3. i \in 1 .. Len(ls)
    BY CartLinesFacts
  <2>4. QED
    BY <2>2, <2>3, CartLinesFacts
<1>3. QED
  BY <1>1, <1>2

\* One more line adds its quantity to its product and nothing to the others.
LEMMA UnitsOfNext ==
  ASSUME NEW t \in Tenants, NEW ls \in CartLines(t), NEW n \in 1 .. Len(ls), NEW p
  PROVE  UnitsOf(ls, n, p) =
           UnitsOf(ls, n - 1, p) + (IF p = ls[n].product THEN ls[n].quantity ELSE 0)
<1>1. Len(ls) \in Nat /\ n \in 1 .. n /\ n \in 0 .. Len(ls) /\ n - 1 \in 0 .. Len(ls)
  BY CartLinesFacts
<1>2. CASE p = ls[n].product
  <2>1. \A i \in 1 .. n - 1 : ls[i].product # p
    BY <1>1, <1>2, CartLinesFacts
  <2>2. UnitsOf(ls, n - 1, p) = 0
    BY <2>1, UnitsOfNone
  <2>3. UnitsOf(ls, n, p) = ls[n].quantity
    BY <1>1, <1>2, UnitsOfLine
  <2>4. QED
    BY <1>1, <1>2, <2>2, <2>3, CartLinesFacts
<1>3. CASE p # ls[n].product /\ \E i \in 1 .. n - 1 : ls[i].product = p
  <2>1. PICK i \in 1 .. n - 1 : ls[i].product = p
    BY <1>3
  <2>2. i \in 1 .. n /\ i \in 1 .. Len(ls)
    BY <1>1
  <2>3. UnitsOf(ls, n - 1, p) = ls[i].quantity /\ UnitsOf(ls, n, p) = ls[i].quantity
    BY <1>1, <2>1, <2>2, UnitsOfLine
  <2>4. QED
    BY <1>3, <2>2, <2>3, CartLinesFacts
<1>4. CASE p # ls[n].product /\ \A i \in 1 .. n - 1 : ls[i].product # p
  <2>1. \A i \in 1 .. n : ls[i].product # p
    BY <1>1, <1>4
  <2>2. QED
    BY <1>4, <2>1, UnitsOfNone
<1>5. QED
  BY <1>2, <1>3, <1>4

-----------------------------------------------------------------------------
(* Types *)

LEMMA JobFacts ==
  ASSUME TypeOK, job # NoJob
  PROVE  /\ job.tenant \in Tenants
         /\ job.lines \in CartLines(job.tenant)
         /\ job.provider \in RequestedProviders
         /\ job.phase \in Phases
         /\ job.held \in 0 .. MaxLines
         /\ job.events \in Seq(Events)
         /\ job \in JobOf(job.tenant)
<1>1. PICK t \in Tenants : job \in JobOf(t)
  BY DEF TypeOK, Jobs
<1>2. job.tenant = t
  BY <1>1 DEF JobOf
<1>3. QED
  BY <1>1, <1>2 DEF JobOf

\* A job that is busy is not NoJob.
LEMMA BusyJob ==
  ASSUME NEW phase \in Phases, Busy(phase)
  PROVE  job # NoJob
BY DEF Busy, NoJob, Phases

\* q units leave the shelf, or come back when q is negative.
LEMMA MoveFacts ==
  ASSUME NEW s \in [Products -> StockLevel], NEW p \in Products, NEW q \in Int,
         s[p].available - q >= 0, s[p].reserved + q >= 0
  PROVE  /\ Move(s, p, q) \in [Products -> StockLevel]
         /\ \A r \in Products :
              /\ Move(s, p, q)[r].available =
                   s[r].available - (IF r = p THEN q ELSE 0)
              /\ Move(s, p, q)[r].reserved =
                   s[r].reserved + (IF r = p THEN q ELSE 0)
<1>1. s[p].available \in Nat /\ s[p].reserved \in Nat
  BY DEF StockLevel
<1>2. [available |-> s[p].available - q, reserved |-> s[p].reserved + q] \in StockLevel
  BY <1>1 DEF StockLevel
<1>3. Move(s, p, q) \in [Products -> StockLevel]
  BY <1>2 DEF Move
<1>4. ASSUME NEW r \in Products
      PROVE  /\ Move(s, p, q)[r].available = s[r].available - (IF r = p THEN q ELSE 0)
             /\ Move(s, p, q)[r].reserved = s[r].reserved + (IF r = p THEN q ELSE 0)
  <2>1. s[r].available \in Nat /\ s[r].reserved \in Nat
    BY DEF StockLevel
  <2>2. CASE r = p
    BY <2>2 DEF Move
  <2>3. CASE r # p
    BY <2>1, <2>3 DEF Move
  <2>4. QED
    BY <2>2, <2>3
<1>5. QED
  BY <1>3, <1>4

LEMMA QuantityType ==
  ASSUME NEW q \in Quantities
  PROVE  q \in Nat
BY ShopAssumption DEF Quantities, ShopAssumption

LEMMA StockType ==
  ASSUME TypeOK, NEW p \in Products
  PROVE  /\ stock \in [Products -> StockLevel]
         /\ stock[p].available \in Nat
         /\ stock[p].reserved \in Nat
BY DEF TypeOK, StockLevel

\* The two directions of Move, under the guards of reserve and release.
LEMMA ReserveFacts ==
  ASSUME TypeOK, NEW p \in Products, NEW q \in Nat, CanReserve(stock, p, q)
  PROVE  /\ Move(stock, p, q) \in [Products -> StockLevel]
         /\ \A r \in Products :
              /\ Move(stock, p, q)[r].available =
                   stock[r].available - (IF r = p THEN q ELSE 0)
              /\ Move(stock, p, q)[r].reserved =
                   stock[r].reserved + (IF r = p THEN q ELSE 0)
<1>1. stock[p].available - q >= 0 /\ stock[p].reserved + q >= 0
  BY StockType DEF CanReserve
<1>2. QED
  BY <1>1, StockType, MoveFacts

LEMMA ReleaseFacts ==
  ASSUME TypeOK, NEW p \in Products, NEW q \in Nat, CanRelease(stock, p, q)
  PROVE  /\ Move(stock, p, -q) \in [Products -> StockLevel]
         /\ \A r \in Products :
              /\ Move(stock, p, -q)[r].available =
                   stock[r].available + (IF r = p THEN q ELSE 0)
              /\ Move(stock, p, -q)[r].reserved =
                   stock[r].reserved - (IF r = p THEN q ELSE 0)
<1>1. -q \in Int /\ stock[p].available - (-q) >= 0 /\ stock[p].reserved + (-q) >= 0
  BY StockType DEF CanRelease
<1>2. /\ Move(stock, p, -q) \in [Products -> StockLevel]
      /\ \A r \in Products :
           /\ Move(stock, p, -q)[r].available =
                stock[r].available - (IF r = p THEN -q ELSE 0)
           /\ Move(stock, p, -q)[r].reserved =
                stock[r].reserved + (IF r = p THEN -q ELSE 0)
  BY <1>1, StockType, MoveFacts
<1>3. \A r \in Products : stock[r].available \in Nat /\ stock[r].reserved \in Nat
  BY StockType
<1>4. QED
  BY <1>2, <1>3

LEMMA NewOrderType ==
  ASSUME NEW t \in Tenants, NEW ls \in CartLines(t)
  PROVE  NewOrder(t, ls) \in Order
<1>1. QuoteTotal(ls) \in Totals
  BY DEF Totals
<1>2. Currency[t] \in Currencies
  BY DEF Currencies
<1>3. QED
  BY <1>1, <1>2 DEF NewOrder, Order

LEMMA NewIntentType ==
  ASSUME NEW t \in Tenants, NEW provider \in RequestedProviders, NEW a, NEW c,
         a \in Totals \cup RequestAmounts, c \in Currencies,
         IntentAccepted(t, provider, a, c)
  PROVE  NewIntent(t, provider, a, c) \in Intent
BY DEF IntentAccepted, NewIntent, Intent, Statuses

\* Appending to one tenant's ledger.
LEMMA LedgerAppend ==
  ASSUME NEW S, NEW f \in [Tenants -> Seq(S)], NEW t \in Tenants, NEW e \in S
  PROVE  [f EXCEPT ![t] = Append(@, e)] \in [Tenants -> Seq(S)]
<1>1. Append(f[t], e) \in Seq(S)
  BY AppendProperties
<1>2. QED
  BY <1>1

\* Lines of the cart being checked out.
LEMMA LineFacts ==
  ASSUME TypeOK, job # NoJob, NEW i \in 1 .. Len(job.lines)
  PROVE  /\ job.lines[i].product \in Products
         /\ job.lines[i].quantity \in Nat
         /\ stock[job.lines[i].product].available \in Nat
         /\ stock[job.lines[i].product].reserved \in Nat
<1>1. job.lines[i].product \in Products /\ job.lines[i].quantity \in Nat
  BY JobFacts, CartLinesFacts
<1>2. QED
  BY <1>1 DEF TypeOK, StockLevel

LEMMA SettledType ==
  ASSUME NEW intent \in Intent, NEW status \in Statuses
  PROVE  [intent EXCEPT !.status = status] \in Intent
BY DEF Intent

LEMMA TypeInit == Init => TypeOK
BY ShopAssumption
   DEF Init, ShopInit, TypeOK, ShopAssumption

LEMMA TypeSingle ==
  ASSUME TypeOK, Other
  PROVE  TypeOK'
<1>1. job' \in Jobs \cup {NoJob}
  BY DEF TypeOK, Other
<1>2. ASSUME NEW p \in Products, NEW q \in Quantities, Reserve(p, q)
      PROVE  TypeOK'
  <2>1. CanReserve(stock, p, q) /\ stock' = Move(stock, p, q)
    BY <1>2 DEF Reserve
  <2>2. stock' \in [Products -> StockLevel]
    BY <2>1, ReserveFacts, QuantityType
  <2>3. reply' = "ok" /\ trail' \in {<<"inventory.low", "inventory.reserved">>,
                                    <<"inventory.reserved">>}
    BY <1>2 DEF Reserve, Answer
  <2>4. trail' \in Seq(Events)
    <3>1. <<"inventory.low", "inventory.reserved">> \in Seq(Events)
      BY DEF Events
    <3>2. <<"inventory.reserved">> \in Seq(Events)
      BY DEF Events
    <3>3. QED
      BY <2>3, <3>1, <3>2
  <2>5. QED
    BY <1>1, <1>2, <2>2, <2>3, <2>4 DEF TypeOK, Reserve
<1>3. ASSUME NEW p \in Products, NEW q \in Quantities, Release(p, q)
      PROVE  TypeOK'
  <2>1. CanRelease(stock, p, q) /\ stock' = Move(stock, p, -q)
    BY <1>3 DEF Release
  <2>2. stock' \in [Products -> StockLevel]
    BY <2>1, ReleaseFacts, QuantityType
  <2>3. reply' \in {"none", "ok", "rejected"} /\ trail' \in Seq(Events)
    BY <1>3 DEF Release, Answer, Events
  <2>4. QED
    BY <1>1, <1>3, <2>2, <2>3 DEF TypeOK, Release
<1>4. ASSUME NEW t \in Tenants, CreateOrder(t)
      PROVE  TypeOK'
  <2>1. NewOrder(t, DefaultCart[t]) \in Order
    BY NewOrderType, ShopAssumption DEF ShopAssumption
  <2>2. orders' \in [Tenants -> Seq(Order)]
    BY <1>4, <2>1, LedgerAppend DEF CreateOrder, TypeOK
  <2>3. reply' \in {"none", "ok", "rejected"} /\ trail' \in Seq(Events)
    BY <1>4 DEF CreateOrder, Answer, Events
  <2>4. QED
    BY <1>1, <1>4, <2>2, <2>3 DEF TypeOK, CreateOrder
<1>5. ASSUME NEW t \in Tenants, NEW provider \in RequestedProviders,
             NEW a \in RequestAmounts, NEW c \in RequestCurrencies,
             CreateIntent(t, provider, a, c)
      PROVE  TypeOK'
  <2>1. NewIntent(t, provider, a, c) \in Intent
    BY <1>5, NewIntentType DEF CreateIntent, Currencies
  <2>2. intents' \in [Tenants -> Seq(Intent)]
    BY <1>5, <2>1, LedgerAppend DEF CreateIntent, TypeOK
  <2>3. reply' \in {"none", "ok", "rejected"} /\ trail' \in Seq(Events)
    BY <1>5 DEF CreateIntent, Answer, Events
  <2>4. QED
    BY <1>1, <1>5, <2>2, <2>3 DEF TypeOK, CreateIntent
<1>6. ASSUME NEW t \in Tenants, NEW i \in DOMAIN intents[t], NEW status \in Statuses,
             NEW event \in Events, Settle(t, i, status, event)
      PROVE  TypeOK'
  <2>1. intents[t] \in Seq(Intent) /\ i \in 1 .. Len(intents[t])
    BY <1>6 DEF TypeOK
  <2>. DEFINE settled == [intents[t][i] EXCEPT !.status = status]
  <2>2. settled \in Intent
    <3>1. intents[t][i] \in Intent
      BY <2>1, ElementOfSeq
    <3>2. QED
      BY <3>1, SettledType
  <2>3. [intents[t] EXCEPT ![i] = settled] \in Seq(Intent)
    <3>. HIDE DEF settled
    <3>1. QED BY <2>1, <2>2, ExceptSeq
  <2>4. intents' \in [Tenants -> Seq(Intent)]
    BY <1>6, <2>3 DEF Settle, TypeOK
  <2>5. reply' \in {"none", "ok", "rejected"} /\ trail' \in Seq(Events)
    BY <1>6 DEF Settle, Answer
  <2>6. QED
    BY <1>1, <1>6, <2>4, <2>5 DEF TypeOK, Settle
<1>7. ASSUME RejectRequest
      PROVE  TypeOK'
  BY <1>1, <1>7 DEF TypeOK, RejectRequest, Answer
<1>8. ASSUME NEW t \in Tenants, NEW i \in DOMAIN intents[t],
             AuthorizeIntent(t, i) \/ CaptureIntent(t, i) \/ RefundIntent(t, i)
      PROVE  TypeOK'
  BY <1>6, <1>8 DEF AuthorizeIntent, CaptureIntent, RefundIntent, Statuses, Events
<1>9. QED
  BY <1>2, <1>3, <1>4, <1>5, <1>7, <1>8 DEF Other, SingleRequest

LEMMA TypeBegin ==
  ASSUME TypeOK, NEW t \in Tenants, NEW provider \in RequestedProviders,
         NEW lines \in CartLines(t), BeginCheckout(t, lines, provider)
  PROVE  TypeOK'
<1>1. << >> \in Seq(Events) /\ 0 \in 0 .. MaxLines
  BY ShopAssumption DEF ShopAssumption
<1>2. job' \in JobOf(t)
  BY <1>1 DEF BeginCheckout, JobOf, Phases
<1>3. QED
  BY <1>2 DEF TypeOK, BeginCheckout, Jobs

\* Steps that change phase, held or events only keep a job a job.
LEMMA JobUpdate ==
  ASSUME TypeOK, job # NoJob, NEW phase \in Phases, NEW held \in 0 .. MaxLines,
         NEW events \in Seq(Events),
         job' = [job EXCEPT !.phase = phase, !.held = held, !.events = events]
  PROVE  job' \in Jobs /\ job' # NoJob
<1>1. job \in JobOf(job.tenant) /\ job.tenant \in Tenants
  BY JobFacts
<1>2. job' \in JobOf(job.tenant)
  BY <1>1 DEF JobOf
<1>3. job'.phase = phase
  BY <1>1 DEF JobOf
<1>4. QED
  BY <1>1, <1>2, <1>3 DEF Jobs, NoJob, Phases

LEMMA TypeStep ==
  ASSUME TypeOK, JobShape, Step
  PROVE  TypeOK'
<1>1. ASSUME ReserveLine
      PROVE  TypeOK'
  <2>1. job # NoJob /\ job.held \in Nat /\ job.held + 1 \in 1 .. Len(job.lines)
        /\ job.held + 1 \in 0 .. MaxLines
    BY <1>1, BusyJob, JobFacts, CartLinesFacts, ShopAssumption
       DEF ReserveLine, Phases, ShopAssumption
  <2>2. stock' \in [Products -> StockLevel]
    BY <1>1, <2>1, LineFacts, ReserveFacts DEF ReserveLine, NextLine
  <2>3. job' = [job EXCEPT !.phase = job.phase, !.held = job.held + 1,
                           !.events = job.events]
    BY <1>1, <2>1, JobFacts DEF ReserveLine, JobOf
  <2>4. job' \in Jobs
    BY <2>1, <2>3, JobFacts, JobUpdate
  <2>5. QED
    BY <1>1, <2>2, <2>4 DEF TypeOK, ReserveLine

<1>2. ASSUME ReserveThrows \/ ChargeThrows
      PROVE  TypeOK'
  <2>1. job # NoJob
    BY <1>2, BusyJob DEF ReserveThrows, ChargeThrows, Phases
  <2>2. job' = [job EXCEPT !.phase = "rollback", !.held = job.held, !.events = job.events]
    BY <1>2, <2>1, JobFacts DEF ReserveThrows, ChargeThrows, JobOf
  <2>3. job' \in Jobs
    BY <2>1, <2>2, JobFacts, JobUpdate DEF Phases
  <2>4. QED
    BY <1>2, <2>3 DEF TypeOK, ReserveThrows, ChargeThrows
<1>3. ASSUME AllReserved
      PROVE  TypeOK'
  <2>1. job # NoJob
    BY <1>3, BusyJob DEF AllReserved, Phases
  <2>2. Append(job.events, "checkout.inventory.reserved") \in Seq(Events)
    BY <2>1, JobFacts, AppendProperties DEF Events
  <2>3. job' = [job EXCEPT !.phase = "charging", !.held = job.held,
                  !.events = Append(job.events, "checkout.inventory.reserved")]
    BY <1>3, <2>1, JobFacts DEF AllReserved, JobOf
  <2>4. job' \in Jobs
    BY <2>1, <2>2, <2>3, JobFacts, JobUpdate DEF Phases
  <2>5. QED
    BY <1>3, <2>4 DEF TypeOK, AllReserved
<1>4. ASSUME Charge
      PROVE  TypeOK'
  <2>1. job # NoJob
    BY <1>4, BusyJob DEF Charge, Phases
  <2>2. QuoteTotal(job.lines) \in Totals /\ Currency[job.tenant] \in Currencies
    BY <2>1, JobFacts DEF Totals, Currencies
  <2>3. NewIntent(job.tenant, job.provider, QuoteTotal(job.lines),
                  Currency[job.tenant]) \in Intent
    BY <1>4, <2>1, <2>2, JobFacts, NewIntentType DEF Charge, ChargeAccepted
  <2>4. intents' \in [Tenants -> Seq(Intent)]
    BY <1>4, <2>1, <2>3, JobFacts, LedgerAppend DEF Charge, TypeOK
  <2>5. job' = [job EXCEPT !.phase = "ordering", !.held = job.held, !.events = job.events]
    BY <1>4, <2>1, JobFacts DEF Charge, JobOf
  <2>6. job' \in Jobs
    BY <2>1, <2>5, JobFacts, JobUpdate DEF Phases
  <2>7. QED
    BY <1>4, <2>4, <2>6 DEF TypeOK, Charge
<1>5. ASSUME PlaceOrder
      PROVE  TypeOK'
  <2>1. job # NoJob
    BY <1>5, BusyJob DEF PlaceOrder, Phases
  <2>2. orders' \in [Tenants -> Seq(Order)]
    BY <1>5, <2>1, JobFacts, NewOrderType, LedgerAppend DEF PlaceOrder, TypeOK
  <2>3. <<"payment.intent.created", "order.created", "checkout.completed">> \in Seq(Events)
    BY DEF Events
  <2>4. trail' \in Seq(Events) /\ reply' = "ok"
    BY <1>5, <2>1, <2>3, JobFacts, ConcatProperties DEF PlaceOrder, Answer
  <2>5. QED
    BY <1>5, <2>2, <2>4 DEF TypeOK, PlaceOrder
<1>6. ASSUME ReleaseLine
      PROVE  TypeOK'
  <2>1. job # NoJob /\ job.held \in 1 .. Len(job.lines) /\ job.held - 1 \in 0 .. MaxLines
    BY <1>6, BusyJob, JobFacts, CartLinesFacts, ShopAssumption
       DEF ReleaseLine, Phases, JobShape, ShopAssumption
  <2>2. stock' \in [Products -> StockLevel]
    BY <1>6, <2>1, LineFacts, ReleaseFacts DEF ReleaseLine, LastHeld
  <2>3. job' = [job EXCEPT !.phase = job.phase, !.held = job.held - 1,
                           !.events = job.events]
    BY <1>6, <2>1, JobFacts DEF ReleaseLine, JobOf
  <2>4. job' \in Jobs
    BY <2>1, <2>3, JobFacts, JobUpdate
  <2>5. QED
    BY <1>6, <2>2, <2>4 DEF TypeOK, ReleaseLine
<1>7. ASSUME ReportFailure
      PROVE  TypeOK'
  <2>1. job # NoJob
    BY <1>7, BusyJob DEF ReportFailure, Phases
  <2>2. trail' \in Seq(Events) /\ reply' = "rejected"
    BY <1>7, <2>1, JobFacts, AppendProperties DEF ReportFailure, Answer, Events
  <2>3. QED
    BY <1>7, <2>2 DEF TypeOK, ReportFailure
<1>8. QED
  BY <1>1, <1>2, <1>3, <1>4, <1>5, <1>6, <1>7 DEF Step

-----------------------------------------------------------------------------
(* What the two steps that move stock do to the shelf and to the units held *)

LEMMA ReserveLineFacts ==
  ASSUME TypeOK, JobShape, ReserveLine
  PROVE  /\ job # NoJob /\ job' # NoJob
         /\ job.held + 1 \in 1 .. Len(job.lines)
         /\ job'.phase = "reserving" /\ job'.tenant = job.tenant
         /\ job'.lines = job.lines /\ job'.provider = job.provider
         /\ job'.held = job.held + 1 /\ job'.events = job.events
         /\ stock[NextLine.product].available >= NextLine.quantity
         /\ \A r \in Products :
              LET q == IF r = NextLine.product THEN NextLine.quantity ELSE 0
              IN  /\ stock'[r].available = stock[r].available - q
                  /\ stock'[r].reserved = stock[r].reserved + q
                  /\ Held(r)' = Held(r) + q
<1>1. job # NoJob /\ job.phase = "reserving" /\ job.held \in Nat
      /\ job.held + 1 \in 1 .. Len(job.lines)
  BY BusyJob, JobFacts, CartLinesFacts, ShopAssumption
     DEF ReserveLine, Phases, ShopAssumption, Busy
<1>2. job' = [job EXCEPT !.held = job.held + 1]
  BY DEF ReserveLine
<1>3. job'.phase = job.phase /\ job'.tenant = job.tenant /\ job'.lines = job.lines
      /\ job'.provider = job.provider /\ job'.held = job.held + 1
      /\ job'.events = job.events
  BY <1>1, <1>2, JobFacts DEF JobOf
<1>4. job' # NoJob
  BY <1>1, <1>3 DEF NoJob
<1>5. NextLine.product \in Products /\ NextLine.quantity \in Nat
  BY <1>1, LineFacts DEF NextLine
<1>6. \A r \in Products :
        /\ stock'[r].available = stock[r].available
             - (IF r = NextLine.product THEN NextLine.quantity ELSE 0)
        /\ stock'[r].reserved = stock[r].reserved
             + (IF r = NextLine.product THEN NextLine.quantity ELSE 0)
  BY <1>5, ReserveFacts DEF ReserveLine
<1>7. ASSUME NEW r \in Products
      PROVE  Held(r)' = Held(r) + (IF r = NextLine.product THEN NextLine.quantity ELSE 0)
  <2>1. Held(r) = UnitsOf(job.lines, job.held, r)
        /\ Held(r)' = UnitsOf(job.lines, job.held + 1, r)
    BY <1>1, <1>3, <1>4 DEF Held
  <2>2. (job.held + 1) - 1 = job.held
    BY <1>1
  <2>3. QED
    BY <1>1, <2>1, <2>2, JobFacts, UnitsOfNext DEF NextLine
<1>8. stock[NextLine.product].available >= NextLine.quantity
  BY DEF ReserveLine, CanReserve
<1>9. QED
  BY <1>1, <1>3, <1>4, <1>6, <1>7, <1>8

LEMMA ReleaseLineFacts ==
  ASSUME TypeOK, JobShape, ReleaseLine
  PROVE  /\ job # NoJob /\ job' # NoJob
         /\ job.held \in 1 .. Len(job.lines)
         /\ job'.phase = "rollback" /\ job'.tenant = job.tenant
         /\ job'.lines = job.lines /\ job'.provider = job.provider
         /\ job'.held = job.held - 1 /\ job'.events = job.events
         /\ \A r \in Products :
              LET q == IF r = LastHeld.product THEN LastHeld.quantity ELSE 0
              IN  /\ stock'[r].available = stock[r].available + q
                  /\ stock'[r].reserved = stock[r].reserved - q
                  /\ Held(r) = Held(r)' + q
<1>1. job # NoJob /\ job.phase = "rollback" /\ job.held \in 1 .. Len(job.lines)
  BY BusyJob, JobFacts, CartLinesFacts, ShopAssumption
     DEF ReleaseLine, Phases, JobShape, ShopAssumption, Busy
<1>2. job' = [job EXCEPT !.held = job.held - 1]
  BY DEF ReleaseLine
<1>3. job'.phase = job.phase /\ job'.tenant = job.tenant /\ job'.lines = job.lines
      /\ job'.provider = job.provider /\ job'.held = job.held - 1
      /\ job'.events = job.events
  BY <1>1, <1>2, JobFacts DEF JobOf
<1>4. job' # NoJob
  BY <1>1, <1>3 DEF NoJob
<1>5. LastHeld.product \in Products /\ LastHeld.quantity \in Nat
  BY <1>1, LineFacts DEF LastHeld
<1>6. \A r \in Products :
        /\ stock'[r].available = stock[r].available
             + (IF r = LastHeld.product THEN LastHeld.quantity ELSE 0)
        /\ stock'[r].reserved = stock[r].reserved
             - (IF r = LastHeld.product THEN LastHeld.quantity ELSE 0)
  BY <1>5, ReleaseFacts DEF ReleaseLine
<1>7. ASSUME NEW r \in Products
      PROVE  Held(r) = Held(r)' + (IF r = LastHeld.product THEN LastHeld.quantity ELSE 0)
  <2>1. Held(r) = UnitsOf(job.lines, job.held, r)
        /\ Held(r)' = UnitsOf(job.lines, job.held - 1, r)
    BY <1>1, <1>3, <1>4 DEF Held
  <2>2. QED
    BY <1>1, <2>1, JobFacts, UnitsOfNext DEF LastHeld
<1>8. QED
  BY <1>1, <1>3, <1>4, <1>6, <1>7

-----------------------------------------------------------------------------
(* StockConserved *)

LEMMA ConservedStep ==
  ASSUME TypeOK, JobShape, StockConserved, [Next]_vars
  PROVE  StockConserved'
<1>. DEFINE Total(r) == stock[r].available + stock[r].reserved
<1>1. SUFFICES ASSUME NEW r \in Products
               PROVE  Total(r)' = Total(r)
  BY DEF StockConserved
<1>2. stock[r].available \in Nat /\ stock[r].reserved \in Nat
  BY StockType
<1>3. ASSUME NEW p \in Products, NEW q \in Quantities, Reserve(p, q)
      PROVE  Total(r)' = Total(r)
  <2>1. CanReserve(stock, p, q) /\ stock' = Move(stock, p, q) /\ q \in Nat
    BY <1>3, QuantityType DEF Reserve
  <2>2. QED
    BY <2>1, <1>2, ReserveFacts
<1>4. ASSUME NEW p \in Products, NEW q \in Quantities, Release(p, q)
      PROVE  Total(r)' = Total(r)
  <2>1. CanRelease(stock, p, q) /\ stock' = Move(stock, p, -q) /\ q \in Nat
    BY <1>4, QuantityType DEF Release
  <2>2. QED
    BY <2>1, <1>2, ReleaseFacts
<1>5. CASE ReserveLine
  <2>1. NextLine.quantity \in Nat
    BY <1>5, ReserveLineFacts, LineFacts DEF NextLine
  <2>2. QED
    BY <1>2, <1>5, <2>1, ReserveLineFacts
<1>6. CASE ReleaseLine
  <2>1. LastHeld.quantity \in Nat
    BY <1>6, ReleaseLineFacts, LineFacts DEF LastHeld
  <2>2. QED
    BY <1>2, <1>6, <2>1, ReleaseLineFacts
<1>7. CASE UNCHANGED stock
  BY <1>7
<1>8. CASE Other
  <2>1. ASSUME NEW t \in Tenants, CreateOrder(t) PROVE UNCHANGED stock
    BY <2>1 DEF CreateOrder
  <2>2. ASSUME NEW t \in Tenants, NEW provider \in RequestedProviders,
               NEW a \in RequestAmounts, NEW c \in RequestCurrencies,
               CreateIntent(t, provider, a, c)
        PROVE  UNCHANGED stock
    BY <2>2 DEF CreateIntent
  <2>3. ASSUME NEW t \in Tenants, NEW i \in DOMAIN intents[t],
               AuthorizeIntent(t, i) \/ CaptureIntent(t, i) \/ RefundIntent(t, i)
        PROVE  UNCHANGED stock
    BY <2>3 DEF AuthorizeIntent, CaptureIntent, RefundIntent, Settle
  <2>4. ASSUME RejectRequest PROVE UNCHANGED stock
    BY <2>4 DEF RejectRequest
  <2>5. QED
    BY <1>3, <1>4, <1>7, <1>8, <2>1, <2>2, <2>3, <2>4 DEF Other, SingleRequest
<1>9. CASE \E t \in Tenants, provider \in RequestedProviders :
             \E lines \in CartLines(t) : BeginCheckout(t, lines, provider)
  BY <1>7, <1>9 DEF BeginCheckout
<1>10. CASE ReserveThrows \/ AllReserved \/ Charge \/ ChargeThrows \/ PlaceOrder
            \/ ReportFailure
  BY <1>7, <1>10
     DEF ReserveThrows, AllReserved, Charge, ChargeThrows, PlaceOrder, ReportFailure
<1>11. CASE UNCHANGED vars
  BY <1>7, <1>11 DEF vars
<1>12. QED
  BY <1>5, <1>6, <1>8, <1>9, <1>10, <1>11 DEF Next, Step

-----------------------------------------------------------------------------
(* JobShape *)

\* A step that changes phase and events only.
LEMMA PhaseChange ==
  ASSUME TypeOK, job # NoJob, NEW phase \in Phases, NEW events,
         job' = [job EXCEPT !.phase = phase, !.events = events]
  PROVE  /\ job' # NoJob
         /\ job'.phase = phase /\ job'.tenant = job.tenant
         /\ job'.lines = job.lines /\ job'.provider = job.provider
         /\ job'.held = job.held /\ job'.events = events
         /\ ChargeAccepted' <=> ChargeAccepted
         /\ \A r : Held(r)' = Held(r)
<1>1. /\ job'.phase = phase /\ job'.tenant = job.tenant
      /\ job'.lines = job.lines /\ job'.provider = job.provider
      /\ job'.held = job.held /\ job'.events = events
  BY JobFacts DEF JobOf
<1>2. job' # NoJob
  BY <1>1 DEF NoJob, Phases
<1>3. ChargeAccepted' <=> ChargeAccepted
  BY <1>1 DEF ChargeAccepted
<1>4. \A r : Held(r)' = Held(r)
  BY <1>1, <1>2 DEF Held
<1>5. QED
  BY <1>1, <1>2, <1>3, <1>4

LEMMA ReserveThrowsFacts ==
  ASSUME TypeOK, ReserveThrows
  PROVE  /\ job # NoJob /\ job.phase = "reserving"
         /\ job' = [job EXCEPT !.phase = "rollback", !.events = job.events]
         /\ job.held + 1 \in 1 .. Len(job.lines)
         /\ stock[NextLine.product].available < NextLine.quantity
<1>1. job # NoJob /\ job.phase = "reserving" /\ job.held \in Nat
      /\ job.held + 1 \in 1 .. Len(job.lines)
  BY BusyJob, JobFacts, CartLinesFacts, ShopAssumption
     DEF ReserveThrows, Phases, ShopAssumption, Busy
<1>2. job' = [job EXCEPT !.phase = "rollback", !.events = job.events]
  BY <1>1, JobFacts DEF ReserveThrows, JobOf
<1>3. stock[NextLine.product].available \in Nat /\ NextLine.quantity \in Nat
  BY <1>1, LineFacts DEF NextLine
<1>4. ~CanReserve(stock, NextLine.product, NextLine.quantity)
  BY DEF ReserveThrows
<1>5. stock[NextLine.product].available < NextLine.quantity
  BY <1>3, <1>4 DEF CanReserve
<1>6. QED
  BY <1>1, <1>2, <1>5

LEMMA AllReservedFacts ==
  ASSUME TypeOK, JobShape, AllReserved
  PROVE  /\ job # NoJob /\ job.phase = "reserving" /\ job.held = Len(job.lines)
         /\ job' = [job EXCEPT !.phase = "charging",
                               !.events = <<"checkout.inventory.reserved">>]
<1>1. job # NoJob /\ job.phase = "reserving" /\ job.held = Len(job.lines)
      /\ job.events = << >>
  BY BusyJob DEF AllReserved, Phases, Busy, JobShape
<1>2. Append(job.events, "checkout.inventory.reserved") = <<"checkout.inventory.reserved">>
  BY <1>1
<1>3. QED
  BY <1>1, <1>2 DEF AllReserved

LEMMA ChargeFacts ==
  ASSUME TypeOK, JobShape, Charge
  PROVE  /\ job # NoJob /\ job.phase = "charging"
         /\ job' = [job EXCEPT !.phase = "ordering", !.events = job.events]
BY BusyJob, JobFacts DEF Charge, Phases, Busy, JobOf

LEMMA ChargeThrowsFacts ==
  ASSUME TypeOK, JobShape, ChargeThrows
  PROVE  /\ job # NoJob /\ job.phase = "charging"
         /\ job' = [job EXCEPT !.phase = "rollback", !.events = job.events]
BY BusyJob, JobFacts DEF ChargeThrows, Phases, Busy, JobOf

LEMMA ShapeStep ==
  ASSUME TypeOK, JobShape, [Next]_vars
  PROVE  JobShape'
<1>1. ASSUME NEW t \in Tenants, NEW provider \in RequestedProviders,
             NEW lines \in CartLines(t), BeginCheckout(t, lines, provider)
      PROVE  JobShape'
  <2>1. /\ job'.phase = "reserving" /\ job'.tenant = t /\ job'.lines = lines
        /\ job'.held = 0 /\ job'.events = << >>
        /\ UNCHANGED <<intents, orders>>
    BY <1>1 DEF BeginCheckout
  <2>2. Len(lines) \in Nat
    BY CartLinesFacts
  <2>3. Len(orders[t]) < MaxOrders /\ Len(intents[t]) < MaxIntents
    BY <1>1 DEF BeginCheckout
  <2>4. QED
    BY <2>1, <2>2, <2>3 DEF JobShape, Busy
<1>2. CASE ReserveLine
  <2>1. UNCHANGED <<intents, orders>>
    BY <1>2 DEF ReserveLine
  <2>2. job.phase = "reserving"
    BY <1>2 DEF ReserveLine, Busy
  <2>3. QED
    BY <1>2, <2>1, <2>2, ReserveLineFacts DEF JobShape, Busy
<1>3. CASE ReserveThrows
  <2>1. UNCHANGED <<intents, orders>>
    BY <1>3 DEF ReserveThrows
  <2>2. "rollback" \in Phases
    BY DEF Phases
  <2>3. QED
    BY <1>3, <2>1, <2>2, ReserveThrowsFacts, PhaseChange DEF JobShape, Busy
<1>4. CASE AllReserved
  <2>1. UNCHANGED <<intents, orders>>
    BY <1>4 DEF AllReserved
  <2>2. "charging" \in Phases
    BY DEF Phases
  <2>3. QED
    BY <1>4, <2>1, <2>2, AllReservedFacts, PhaseChange DEF JobShape, Busy
<1>5. CASE Charge
  <2>1. "ordering" \in Phases
    BY DEF Phases
  <2>. DEFINE intent == NewIntent(job.tenant, job.provider, QuoteTotal(job.lines),
                                  Currency[job.tenant])
  <2>2. /\ job' # NoJob /\ job'.phase = "ordering" /\ job'.tenant = job.tenant
        /\ job'.lines = job.lines /\ job'.provider = job.provider
        /\ job'.held = job.held /\ job'.events = job.events
        /\ ChargeAccepted' <=> ChargeAccepted
    BY <1>5, <2>1, ChargeFacts, PhaseChange
  <2>3. ChargeAccepted /\ UNCHANGED orders
        /\ intents' = [intents EXCEPT ![job.tenant] = Append(@, intent)]
    BY <1>5 DEF Charge
  <2>4. job # NoJob /\ job.phase = "charging" /\ job.tenant \in Tenants
    BY <1>5, ChargeFacts, JobFacts
  <2>5. intents'[job.tenant] = Append(intents[job.tenant], intent)
        /\ intents[job.tenant] \in Seq(Intent)
    BY <2>3, <2>4 DEF TypeOK
  <2>6. intent \in Intent
    <3>1. QuoteTotal(job.lines) \in Totals /\ Currency[job.tenant] \in Currencies
      BY <2>4, JobFacts DEF Totals, Currencies
    <3>2. QED
      BY <2>3, <2>4, <3>1, JobFacts, NewIntentType DEF ChargeAccepted
  <2>7. Len(intents'[job.tenant]) = Len(intents[job.tenant]) + 1
        /\ intents'[job.tenant][Len(intents[job.tenant]) + 1] = intent
        /\ Len(intents[job.tenant]) \in Nat
    <3>. HIDE DEF intent
    <3>1. QED BY <2>5, <2>6, AppendProperties, LenProperties
  <2>8. Len(intents[job.tenant]) < MaxIntents
    BY <2>4 DEF JobShape, Busy
  <2>9. Len(intents'[job.tenant]) \in 1 .. MaxIntents
        /\ intents'[job.tenant][Len(intents'[job.tenant])] = intent
    <3>. HIDE DEF intent
    <3>1. QED BY <2>7, <2>8, ShopAssumption DEF ShopAssumption
  <2>10. job.held <= Len(job.lines) /\ job.held = Len(job.lines)
         /\ job.events = <<"checkout.inventory.reserved">>
         /\ Len(orders[job.tenant]) < MaxOrders
    BY <2>4 DEF JobShape, Busy
  <2>11. QED
    BY <2>2, <2>3, <2>9, <2>10 DEF JobShape, Busy
<1>6. CASE ChargeThrows
  <2>1. UNCHANGED <<intents, orders>>
    BY <1>6 DEF ChargeThrows
  <2>2. "rollback" \in Phases
    BY DEF Phases
  <2>3. QED
    BY <1>6, <2>1, <2>2, ChargeThrowsFacts, PhaseChange DEF JobShape, Busy
<1>7. CASE ReleaseLine
  <2>1. UNCHANGED <<intents, orders>>
    BY <1>7 DEF ReleaseLine
  <2>2. job.phase = "rollback"
    BY <1>7 DEF ReleaseLine, Busy
  <2>3. Len(job.lines) \in Nat /\ job.held \in Nat
    BY <1>7, ReleaseLineFacts, JobFacts, CartLinesFacts
  <2>4. QED
    BY <1>7, <2>1, <2>2, <2>3, ReleaseLineFacts DEF JobShape, Busy
<1>8. CASE PlaceOrder \/ ReportFailure
  BY <1>8 DEF PlaceOrder, ReportFailure, JobShape
<1>9. CASE Other
  BY <1>9 DEF Other, JobShape
<1>10. CASE UNCHANGED vars
  BY <1>10 DEF vars, JobShape, Busy, ChargeAccepted
<1>11. QED
  BY <1>1, <1>2, <1>3, <1>4, <1>5, <1>6, <1>7, <1>8, <1>9, <1>10 DEF Next, Step

-----------------------------------------------------------------------------
(* RollbackCovered *)

LEMMA CoveredStep ==
  ASSUME TypeOK, JobShape, RollbackCovered, [Next]_vars
  PROVE  RollbackCovered'
<1>1. CASE ReserveLine
  <2>1. SUFFICES ASSUME NEW i \in 1 .. job.held + 1
                 PROVE  stock'[job.lines[i].product].reserved >= job.lines[i].quantity
    BY <1>1, ReserveLineFacts DEF RollbackCovered, CanRelease
  <2>2. i \in 1 .. Len(job.lines) /\ (i # job.held + 1 => i \in 1 .. job.held)
    <3>1. job.held \in Nat /\ Len(job.lines) \in Nat /\ job.held + 1 <= Len(job.lines)
      BY <1>1, ReserveLineFacts, JobFacts, CartLinesFacts
    <3>2. QED
      BY <3>1
  <2>3. job.lines[i].product \in Products /\ job.lines[i].quantity \in Nat
        /\ stock[job.lines[i].product].reserved \in Nat
    BY <1>1, <2>2, ReserveLineFacts, LineFacts
  <2>4. NextLine.quantity \in Nat
    BY <1>1, ReserveLineFacts, LineFacts DEF NextLine
  <2>5. stock'[job.lines[i].product].reserved =
          stock[job.lines[i].product].reserved
            + (IF job.lines[i].product = NextLine.product THEN NextLine.quantity ELSE 0)
    BY <1>1, <2>3, ReserveLineFacts
  <2>6. CASE i = job.held + 1
    BY <2>3, <2>4, <2>5, <2>6 DEF NextLine
  <2>7. CASE i # job.held + 1
    <3>1. stock[job.lines[i].product].reserved >= job.lines[i].quantity
      BY <1>1, <2>2, <2>7, ReserveLineFacts DEF RollbackCovered, CanRelease
    <3>2. QED
      BY <2>3, <2>4, <2>5, <3>1
  <2>8. QED
    BY <2>6, <2>7
<1>2. CASE ReleaseLine
  <2>1. SUFFICES ASSUME NEW i \in 1 .. job.held - 1
                 PROVE  stock'[job.lines[i].product].reserved >= job.lines[i].quantity
    BY <1>2, ReleaseLineFacts DEF RollbackCovered, CanRelease
  <2>2. i \in 1 .. Len(job.lines) /\ i # job.held /\ i \in 1 .. job.held
        /\ job.held \in 1 .. Len(job.lines)
    BY <1>2, ReleaseLineFacts, JobFacts, CartLinesFacts
  <2>3. job.lines[i].product # LastHeld.product
    BY <1>2, <2>2, ReleaseLineFacts, JobFacts, CartLinesFacts DEF LastHeld
  <2>4. job.lines[i].product \in Products
        /\ stock[job.lines[i].product].reserved \in Nat
    BY <1>2, <2>2, ReleaseLineFacts, LineFacts
  <2>5. stock'[job.lines[i].product].reserved = stock[job.lines[i].product].reserved
    BY <1>2, <2>3, <2>4, ReleaseLineFacts
  <2>6. QED
    BY <1>2, <2>2, <2>5, ReleaseLineFacts DEF RollbackCovered, CanRelease
<1>3. CASE ReserveThrows
  <2>1. UNCHANGED stock /\ "rollback" \in Phases
    BY <1>3 DEF ReserveThrows, Phases
  <2>2. QED
    BY <1>3, <2>1, ReserveThrowsFacts, PhaseChange DEF RollbackCovered, CanRelease
<1>4. CASE AllReserved
  <2>1. UNCHANGED stock /\ "charging" \in Phases
    BY <1>4 DEF AllReserved, Phases
  <2>2. QED
    BY <1>4, <2>1, AllReservedFacts, PhaseChange DEF RollbackCovered, CanRelease
<1>5. CASE Charge
  <2>1. UNCHANGED stock /\ "ordering" \in Phases
    BY <1>5 DEF Charge, Phases
  <2>2. QED
    BY <1>5, <2>1, ChargeFacts, PhaseChange DEF RollbackCovered, CanRelease
<1>6. CASE ChargeThrows
  <2>1. UNCHANGED stock /\ "rollback" \in Phases
    BY <1>6 DEF ChargeThrows, Phases
  <2>2. QED
    BY <1>6, <2>1, ChargeThrowsFacts, PhaseChange DEF RollbackCovered, CanRelease
<1>7. ASSUME NEW t \in Tenants, NEW provider \in RequestedProviders,
             NEW lines \in CartLines(t), BeginCheckout(t, lines, provider)
      PROVE  RollbackCovered'
  <2>1. job'.held = 0
    BY <1>7 DEF BeginCheckout
  <2>2. QED
    BY <2>1 DEF RollbackCovered
<1>8. CASE PlaceOrder \/ ReportFailure
  BY <1>8 DEF PlaceOrder, ReportFailure, RollbackCovered
<1>9. CASE Other
  BY <1>9 DEF Other, RollbackCovered
<1>10. CASE UNCHANGED vars
  BY <1>10 DEF vars, RollbackCovered, CanRelease
<1>11. QED
  BY <1>1, <1>2, <1>3, <1>4, <1>5, <1>6, <1>7, <1>8, <1>9, <1>10 DEF Next, Step

-----------------------------------------------------------------------------
(* RollbackJustified *)

LEMMA JustifiedStep ==
  ASSUME TypeOK, JobShape, RollbackJustified, [Next]_vars
  PROVE  RollbackJustified'
<1>1. CASE ReserveThrows
  <2>0. PICK n : n = job.held + 1
    OBVIOUS
  <2>1. /\ job # NoJob /\ job.phase = "reserving" /\ n \in 1 .. Len(job.lines)
        /\ job' = [job EXCEPT !.phase = "rollback", !.events = job.events]
        /\ stock[job.lines[n].product].available < job.lines[n].quantity
    BY <1>1, <2>0, ReserveThrowsFacts DEF NextLine
  <2>2. /\ job'.events = job.events /\ job'.lines = job.lines
        /\ \A r : Held(r)' = Held(r)
    BY <2>1, PhaseChange DEF Phases
  <2>3. job.events = << >>
    BY <2>1 DEF JobShape, Busy
  <2>4. \A i \in 1 .. job.held : job.lines[i].product # job.lines[n].product
    <3>1. SUFFICES ASSUME NEW i \in 1 .. job.held
                   PROVE  job.lines[i].product # job.lines[n].product
      OBVIOUS
    <3>2. job.held \in Nat /\ Len(job.lines) \in Nat
      BY <2>1, JobFacts, CartLinesFacts, ShopAssumption DEF ShopAssumption
    <3>3. i \in 1 .. Len(job.lines) /\ i # n
      BY <2>0, <2>1, <3>2
    <3>4. QED
      BY <2>1, <3>3, JobFacts, CartLinesFacts
  <2>5. Held(job.lines[n].product) = 0
    BY <2>1, <2>4, UnitsOfNone DEF Held
  <2>6. stock[job.lines[n].product].available + Held(job.lines[n].product)
          < job.lines[n].quantity
    BY <2>1, <2>5, LineFacts
  <2>7. Short(n)' /\ n \in DOMAIN job'.lines
    <3>1. UNCHANGED stock
      BY <1>1 DEF ReserveThrows
    <3>2. DOMAIN job.lines = 1 .. Len(job.lines)
      BY <2>1, JobFacts, CartLinesFacts
    <3>3. QED
      BY <2>1, <2>2, <2>6, <3>1, <3>2 DEF Short
  <2>8. QED
    BY <2>2, <2>3, <2>7 DEF RollbackJustified
<1>2. CASE ChargeThrows
  <2>1. /\ job # NoJob /\ job.phase = "charging"
        /\ job' = [job EXCEPT !.phase = "rollback", !.events = job.events]
        /\ ~ChargeAccepted /\ UNCHANGED stock
    BY <1>2, ChargeThrowsFacts DEF ChargeThrows
  <2>2. /\ job'.events = job.events /\ job'.lines = job.lines
        /\ ChargeAccepted' <=> ChargeAccepted
        /\ \A r : Held(r)' = Held(r)
    BY <2>1, PhaseChange DEF Phases
  <2>3. job.events = <<"checkout.inventory.reserved">> /\ job.held = Len(job.lines)
    BY <2>1 DEF JobShape, Busy
  <2>4. ASSUME NEW i \in 1 .. Len(job.lines)
        PROVE  ~Short(i)'
    <3>1. Len(job.lines) \in Nat
      BY <2>1, JobFacts, CartLinesFacts
    <3>2. Held(job.lines[i].product) = job.lines[i].quantity
      BY <2>1, <2>3, <3>1, JobFacts, UnitsOfLine DEF Held
    <3>3. stock[job.lines[i].product].available \in Nat /\ job.lines[i].quantity \in Nat
      BY <2>1, LineFacts
    <3>4. ~(stock[job.lines[i].product].available + Held(job.lines[i].product)
              < job.lines[i].quantity)
      BY <3>2, <3>3
    <3>5. QED
      BY <2>1, <2>2, <3>4 DEF Short
  <2>5. DOMAIN job'.lines = 1 .. Len(job.lines)
    BY <2>1, <2>2, JobFacts, CartLinesFacts
  <2>6. QED
    BY <2>1, <2>2, <2>3, <2>4, <2>5 DEF RollbackJustified
<1>3. CASE ReleaseLine
  <2>1. /\ job # NoJob /\ job.phase = "rollback"
        /\ job'.events = job.events /\ job'.lines = job.lines
        /\ job'.tenant = job.tenant /\ job'.provider = job.provider
        /\ job.held \in 1 .. Len(job.lines)
    BY <1>3, ReleaseLineFacts DEF ReleaseLine, Busy
  <2>2. ChargeAccepted' <=> ChargeAccepted
    BY <2>1 DEF ChargeAccepted
  <2>3. ASSUME NEW i \in 1 .. Len(job.lines)
        PROVE  Short(i)' <=> Short(i)
    <3>0. PICK p : p = job.lines[i].product
      OBVIOUS
    <3>1. p \in Products /\ stock[p].available \in Nat /\ LastHeld.quantity \in Nat
      BY <2>1, <3>0, LineFacts DEF LastHeld
    <3>2. Held(p)' \in Nat
      <4>1. job' # NoJob /\ job'.held = job.held - 1
        BY <1>3, ReleaseLineFacts
      <4>2. Held(p)' = UnitsOf(job.lines, job.held - 1, p)
        BY <2>1, <4>1 DEF Held
      <4>3. job.held - 1 \in 0 .. Len(job.lines)
        BY <2>1, JobFacts, CartLinesFacts
      <4>4. QED
        BY <2>1, <4>2, <4>3, JobFacts, UnitsOfType
    <3>3. stock'[p].available + Held(p)' = stock[p].available + Held(p)
      BY <1>3, <3>1, <3>2, ReleaseLineFacts
    <3>4. QED
      BY <2>1, <3>0, <3>3 DEF Short
  <2>4. DOMAIN job.lines = 1 .. Len(job.lines)
    BY <2>1, JobFacts, CartLinesFacts
  <2>5. QED
    BY <2>1, <2>2, <2>3, <2>4 DEF RollbackJustified, Busy
<1>4. CASE ReserveLine
  BY <1>4, ReserveLineFacts DEF RollbackJustified, Busy
<1>5. CASE AllReserved
  BY <1>5, AllReservedFacts, PhaseChange DEF RollbackJustified, Busy, Phases
<1>6. CASE Charge
  BY <1>6, ChargeFacts, PhaseChange DEF RollbackJustified, Busy, Phases
<1>7. ASSUME NEW t \in Tenants, NEW provider \in RequestedProviders,
             NEW lines \in CartLines(t), BeginCheckout(t, lines, provider)
      PROVE  RollbackJustified'
  BY <1>7 DEF BeginCheckout, RollbackJustified, Busy
<1>8. CASE PlaceOrder \/ ReportFailure
  BY <1>8 DEF PlaceOrder, ReportFailure, RollbackJustified, Busy, NoJob
<1>9. CASE Other
  BY <1>9 DEF Other, RollbackJustified, Busy, NoJob
<1>10. CASE UNCHANGED vars
  BY <1>10 DEF vars, RollbackJustified, Busy, Short, Held, ChargeAccepted
<1>11. QED
  BY <1>1, <1>2, <1>3, <1>4, <1>5, <1>6, <1>7, <1>8, <1>9, <1>10 DEF Next, Step

-----------------------------------------------------------------------------
(* The inductive invariant and what follows from it *)

IInv ==
  /\ TypeOK /\ JobShape /\ StockConserved /\ RollbackCovered /\ RollbackJustified

LEMMA IInvInit == Init => IInv
<1>1. ASSUME Init PROVE IInv
  <2>1. job = NoJob /\ stock = InitialStock
    BY <1>1 DEF Init, ShopInit
  <2>2. TypeOK
    BY <1>1, TypeInit
  <2>3. QED
    BY <2>1, <2>2
       DEF IInv, JobShape, StockConserved, RollbackCovered, RollbackJustified, Busy, NoJob
<1>2. QED
  BY <1>1

LEMMA TypeNext ==
  ASSUME TypeOK, JobShape, [Next]_vars
  PROVE  TypeOK'
<1>1. CASE UNCHANGED vars
  BY <1>1 DEF vars, TypeOK
<1>2. QED
  BY <1>1, TypeBegin, TypeStep, TypeSingle DEF Next

LEMMA IInvNext == IInv /\ [Next]_vars => IInv'
BY TypeNext, ShapeStep, ConservedStep, CoveredStep, JustifiedStep DEF IInv

\* In every state the engine reaches, types are kept, stock is conserved, what
\* a running checkout holds can be released, what it announced and charged
\* matches how far it got, and a rollback has its cause: none of these is
\* inductive without the others.
THEOREM Invariance == Spec => []IInv
BY IInvInit, IInvNext, PTL DEF Spec

\* A running checkout announces its reservations only when it holds every line,
\* and its newest intent is for the order it is about to place
\* (checkout.controller.ts).
THEOREM NothingOutOfTurn == Spec => []JobShape
<1>1. IInv => JobShape
  BY DEF IInv
<1>2. QED
  BY <1>1, Invariance, PTL

\* Every variable of the engine's commerce state keeps its type.
THEOREM TypeCorrect == Spec => []TypeOK
<1>1. IInv => TypeOK
  BY DEF IInv
<1>2. QED
  BY <1>1, Invariance, PTL

\* No unit of stock is made or lost, whatever clients reserve and release by
\* hand and however many checkouts fail half way (inventory.service.ts).
THEOREM Conservation == Spec => []StockConserved
<1>1. IInv => StockConserved
  BY DEF IInv
<1>2. QED
  BY <1>1, Invariance, PTL

\* The release calls in the catch block of a checkout never throw
\* (checkout.controller.ts).
THEOREM RollbackNeverStuck == Spec => []RollbackCovered
<1>1. IInv => RollbackCovered
  BY DEF IInv
<1>2. QED
  BY <1>1, Invariance, PTL

\* A checkout rolls back only for want of stock or of an accepted charge, and
\* announces the reservation exactly in the second case.
THEOREM RollbackHasCause == Spec => []RollbackJustified
<1>1. IInv => RollbackJustified
  BY DEF IInv
<1>2. QED
  BY <1>1, Invariance, PTL

-----------------------------------------------------------------------------
(* LedgerAppendOnly *)

LEMMA AppendKeeps ==
  ASSUME NEW S, NEW s \in Seq(S), NEW e \in S
  PROVE  /\ Len(s) <= Len(Append(s, e))
         /\ \A i \in 1 .. Len(s) : Append(s, e)[i] = s[i]
BY AppendProperties, LenProperties

\* Steps that leave both ledgers alone.
LEMMA LedgerSame ==
  ASSUME TypeOK, UNCHANGED <<intents, orders>>
  PROVE  LedgerKept
<1>1. \A t \in Tenants : Len(orders[t]) \in Nat /\ Len(intents[t]) \in Nat
  BY DEF TypeOK
<1>2. QED
  BY <1>1 DEF LedgerKept, SameMoney

LEMMA LedgerOrder ==
  ASSUME TypeOK, NEW t \in Tenants, NEW order \in Order, UNCHANGED intents,
         orders' = [orders EXCEPT ![t] = Append(@, order)]
  PROVE  LedgerKept
<1>1. SUFFICES ASSUME NEW u \in Tenants
               PROVE  /\ Len(orders[u]) <= Len(orders'[u])
                      /\ Len(intents[u]) <= Len(intents'[u])
                      /\ \A i \in 1 .. Len(orders[u]) : orders'[u][i] = orders[u][i]
                      /\ \A i \in 1 .. Len(intents[u]) :
                           SameMoney(intents'[u][i], intents[u][i])
  BY DEF LedgerKept
<1>2. orders[u] \in Seq(Order) /\ Len(orders[u]) \in Nat /\ Len(intents[u]) \in Nat
  BY DEF TypeOK
<1>3. orders'[u] = orders[u] \/ orders'[u] = Append(orders[u], order)
  BY DEF TypeOK
<1>4. QED
  BY <1>2, <1>3, AppendKeeps DEF SameMoney

LEMMA LedgerIntent ==
  ASSUME TypeOK, NEW t \in Tenants, NEW intent \in Intent, UNCHANGED orders,
         intents' = [intents EXCEPT ![t] = Append(@, intent)]
  PROVE  LedgerKept
<1>1. SUFFICES ASSUME NEW u \in Tenants
               PROVE  /\ Len(orders[u]) <= Len(orders'[u])
                      /\ Len(intents[u]) <= Len(intents'[u])
                      /\ \A i \in 1 .. Len(orders[u]) : orders'[u][i] = orders[u][i]
                      /\ \A i \in 1 .. Len(intents[u]) :
                           SameMoney(intents'[u][i], intents[u][i])
  BY DEF LedgerKept
<1>2. intents[u] \in Seq(Intent) /\ Len(orders[u]) \in Nat /\ Len(intents[u]) \in Nat
  BY DEF TypeOK
<1>3. intents'[u] = intents[u] \/ intents'[u] = Append(intents[u], intent)
  BY DEF TypeOK
<1>4. QED
  BY <1>2, <1>3, AppendKeeps DEF SameMoney

LEMMA LedgerSettle ==
  ASSUME TypeOK, NEW t \in Tenants, NEW i \in DOMAIN intents[t], NEW status \in Statuses,
         UNCHANGED orders, intents' = [intents EXCEPT ![t][i].status = status]
  PROVE  LedgerKept
<1>1. SUFFICES ASSUME NEW u \in Tenants
               PROVE  /\ Len(orders[u]) <= Len(orders'[u])
                      /\ Len(intents[u]) <= Len(intents'[u])
                      /\ \A k \in 1 .. Len(orders[u]) : orders'[u][k] = orders[u][k]
                      /\ \A k \in 1 .. Len(intents[u]) :
                           SameMoney(intents'[u][k], intents[u][k])
  BY DEF LedgerKept
<1>2. intents[u] \in Seq(Intent) /\ Len(orders[u]) \in Nat /\ Len(intents[u]) \in Nat
      /\ intents[t] \in Seq(Intent) /\ i \in 1 .. Len(intents[t])
  BY DEF TypeOK
<1>3. CASE u # t
  <2>1. intents'[u] = intents[u]
    BY <1>3 DEF TypeOK
  <2>2. QED
    BY <1>2, <2>1 DEF SameMoney
<1>4. CASE u = t
  <2>1. PICK s \in Intent : s = [intents[t][i] EXCEPT !.status = status]
                            /\ SameMoney(s, intents[t][i])
    <3>1. intents[t][i] \in Intent
      BY <1>2, ElementOfSeq
    <3>2. PICK a \in Intent : a = intents[t][i]
      BY <3>1
    <3>3. [a EXCEPT !.status = status] \in Intent
          /\ SameMoney([a EXCEPT !.status = status], a)
      BY SettledType DEF SameMoney, Intent
    <3>4. QED
      BY <3>2, <3>3
  <2>2. intents'[t] = [intents[t] EXCEPT ![i] = s]
    BY <2>1 DEF TypeOK
  <2>3. /\ Len(intents'[t]) = Len(intents[t])
        /\ \A k \in 1 .. Len(intents[t]) : intents'[t][k] = IF k = i THEN s ELSE intents[t][k]
    BY <1>2, <2>2, ExceptSeq
  <2>4. QED
    BY <1>2, <1>4, <2>1, <2>3 DEF SameMoney
<1>5. QED
  BY <1>3, <1>4

LEMMA LedgerStep ==
  ASSUME TypeOK, [Next]_vars
  PROVE  LedgerKept
<1>1. ASSUME NEW t \in Tenants, CreateOrder(t) PROVE LedgerKept
  <2>1. NewOrder(t, DefaultCart[t]) \in Order
    BY NewOrderType, ShopAssumption DEF ShopAssumption
  <2>2. QED
    BY <1>1, <2>1, LedgerOrder DEF CreateOrder
<1>2. ASSUME NEW t \in Tenants, NEW provider \in RequestedProviders,
             NEW a \in RequestAmounts, NEW c \in RequestCurrencies,
             CreateIntent(t, provider, a, c)
      PROVE  LedgerKept
  <2>1. NewIntent(t, provider, a, c) \in Intent
    BY <1>2, NewIntentType DEF CreateIntent, Currencies
  <2>2. QED
    BY <1>2, <2>1, LedgerIntent DEF CreateIntent
<1>3. ASSUME NEW t \in Tenants, NEW i \in DOMAIN intents[t],
             AuthorizeIntent(t, i) \/ CaptureIntent(t, i) \/ RefundIntent(t, i)
      PROVE  LedgerKept
  BY <1>3, LedgerSettle
     DEF AuthorizeIntent, CaptureIntent, RefundIntent, Settle, Statuses
<1>4. CASE Other
  <2>1. ASSUME NEW p \in Products, NEW q \in Quantities, Reserve(p, q) \/ Release(p, q)
        PROVE  LedgerKept
    BY <2>1, LedgerSame DEF Reserve, Release
  <2>2. ASSUME RejectRequest PROVE LedgerKept
    BY <2>2, LedgerSame DEF RejectRequest
  <2>3. QED
    BY <1>1, <1>2, <1>3, <1>4, <2>1, <2>2 DEF Other, SingleRequest
<1>5. CASE Charge
  <2>1. job # NoJob /\ ChargeAccepted
    BY <1>5, BusyJob DEF Charge, Phases
  <2>2. QuoteTotal(job.lines) \in Totals /\ Currency[job.tenant] \in Currencies
    BY <2>1, JobFacts DEF Totals, Currencies
  <2>3. NewIntent(job.tenant, job.provider, QuoteTotal(job.lines),
                  Currency[job.tenant]) \in Intent
    BY <2>1, <2>2, JobFacts, NewIntentType DEF ChargeAccepted
  <2>4. QED
    BY <1>5, <2>1, <2>3, JobFacts, LedgerIntent DEF Charge
<1>6. CASE PlaceOrder
  <2>1. job # NoJob
    BY <1>6, BusyJob DEF PlaceOrder, Phases
  <2>2. NewOrder(job.tenant, job.lines) \in Order
    BY <2>1, JobFacts, NewOrderType
  <2>3. QED
    BY <1>6, <2>1, <2>2, JobFacts, LedgerOrder DEF PlaceOrder
<1>7. CASE \E t \in Tenants, provider \in RequestedProviders :
             \E lines \in CartLines(t) : BeginCheckout(t, lines, provider)
  BY <1>7, LedgerSame DEF BeginCheckout
<1>8. CASE ReserveLine \/ ReserveThrows \/ AllReserved \/ ChargeThrows \/ ReleaseLine
           \/ ReportFailure
  BY <1>8, LedgerSame
     DEF ReserveLine, ReserveThrows, AllReserved, ChargeThrows, ReleaseLine, ReportFailure
<1>9. CASE UNCHANGED vars
  BY <1>9, LedgerSame DEF vars
<1>10. QED
  BY <1>4, <1>5, <1>6, <1>7, <1>8, <1>9 DEF Next, Step

\* No request drops an order or an intent, alters an order, or changes the
\* money of an intent (order.service.ts, payments.service.ts).
THEOREM LedgerNeverRewritten == Spec => LedgerAppendOnly
<1>1. TypeOK /\ [Next]_vars => [LedgerKept]_vars
  BY LedgerStep
<1>2. QED
  BY <1>1, TypeCorrect, PTL DEF Spec, LedgerAppendOnly

-----------------------------------------------------------------------------
(* EveryOrderCharged *)

\* Between placing and charging, the newest intent has no order yet.
Ahead(t) == IF Busy("ordering") /\ job.tenant = t THEN 1 ELSE 0
ChargedUpTo(t, n) ==
  \A i \in 1 .. n :
    /\ intents[t][i].amount = orders[t][i].total
    /\ intents[t][i].currency = orders[t][i].currency
Paired ==
  \A t \in Tenants :
    /\ Len(intents[t]) = Len(orders[t]) + Ahead(t)
    /\ ChargedUpTo(t, Len(orders[t]))

LEMMA LedgerLengths ==
  ASSUME TypeOK, NEW t \in Tenants
  PROVE  Len(intents[t]) \in Nat /\ Len(orders[t]) \in Nat /\ DOMAIN orders[t] = 1 .. Len(orders[t])
BY DEF TypeOK

\* A step that keeps the lengths and the phase as far as it matters.
LEMMA PairedSame ==
  ASSUME TypeOK, Paired, LedgerKept, UNCHANGED orders,
         \A t \in Tenants : Len(intents'[t]) = Len(intents[t]) /\ Ahead(t)' = Ahead(t)
  PROVE  Paired'
<1>1. SUFFICES ASSUME NEW t \in Tenants
               PROVE  Len(intents'[t]) = Len(orders'[t]) + Ahead(t)'
                      /\ ChargedUpTo(t, Len(orders[t]))'
  BY DEF Paired
<1>2. Len(intents[t]) = Len(orders[t]) + Ahead(t) /\ ChargedUpTo(t, Len(orders[t]))
  BY DEF Paired
<1>3. ChargedUpTo(t, Len(orders[t]))'
  <2>1. Ahead(t) \in {0, 1}
    BY DEF Ahead
  <2>2. \A i \in 1 .. Len(orders[t]) : i \in 1 .. Len(intents[t])
    BY <1>2, <2>1, LedgerLengths
  <2>3. \A i \in 1 .. Len(intents[t]) :
          /\ intents'[t][i].amount = intents[t][i].amount
          /\ intents'[t][i].currency = intents[t][i].currency
    BY DEF LedgerKept, SameMoney
  <2>4. QED
    BY <1>2, <2>2, <2>3 DEF ChargedUpTo
<1>4. QED
  BY <1>2, <1>3

LEMMA PairedStep ==
  ASSUME "order" \notin Traffic, "intent" \notin Traffic, TypeOK, JobShape, Paired, [Next]_vars
  PROVE  Paired'
<1>1. LedgerKept
  BY LedgerStep
<1>2. CASE Charge
  <2>1. job # NoJob /\ job.phase = "charging"
    BY <1>2, BusyJob DEF Charge, Phases, Busy
  <2>2. PICK u \in Tenants : u = job.tenant
    BY <2>1, JobFacts
  <2>3. PICK new : intents' = [intents EXCEPT ![u] = Append(@, new)]
    BY <1>2, <2>2 DEF Charge
  <2>4. ASSUME NEW t \in Tenants
        PROVE  /\ intents[t] \in Seq(Intent)
               /\ Len(intents'[t]) = Len(intents[t]) + (IF t = u THEN 1 ELSE 0)
    BY <2>3, LenProperties DEF TypeOK
  <2>5. job'.phase = "ordering" /\ job'.tenant = u /\ UNCHANGED orders
    <3>1. "ordering" \in Phases /\ UNCHANGED orders
      BY <1>2 DEF Phases, Charge
    <3>2. job'.phase = "ordering" /\ job'.tenant = job.tenant
      BY <1>2, <3>1, ChargeFacts, PhaseChange
    <3>3. QED
      BY <2>2, <3>1, <3>2
  <2>6. ASSUME NEW t \in Tenants
        PROVE  Len(intents'[t]) = Len(orders'[t]) + Ahead(t)' /\ ChargedUpTo(t, Len(orders[t]))'
    <3>1. Ahead(t) = 0 /\ Len(intents[t]) = Len(orders[t]) /\ Ahead(t)' = IF t = u THEN 1 ELSE 0
      BY <2>1, <2>5, LedgerLengths DEF Paired, Ahead, Busy
    <3>2. \A i \in 1 .. Len(orders[t]) :
            /\ intents'[t][i].amount = intents[t][i].amount
            /\ intents'[t][i].currency = intents[t][i].currency
      BY <1>1, <3>1 DEF LedgerKept, SameMoney
    <3>3. ChargedUpTo(t, Len(orders[t]))
      BY DEF Paired
    <3>4. ChargedUpTo(t, Len(orders[t]))'
      BY <2>5, <3>2, <3>3 DEF ChargedUpTo
    <3>5. Len(intents'[t]) = Len(orders'[t]) + Ahead(t)'
      BY <2>4, <2>5, <3>1, LedgerLengths
    <3>6. QED
      BY <3>4, <3>5
  <2>7. QED
    BY <2>5, <2>6 DEF Paired
<1>3. CASE PlaceOrder
  <2>1. job # NoJob /\ Busy("ordering") /\ job' = NoJob /\ UNCHANGED intents
    BY <1>3, BusyJob DEF PlaceOrder, Phases
  <2>2. PICK u \in Tenants : u = job.tenant
    BY <2>1, JobFacts
  <2>3. NewOrder(u, job.lines) \in Order
    BY <2>1, <2>2, JobFacts, NewOrderType
  <2>4. PICK order \in Order : order = NewOrder(u, job.lines)
    BY <2>3
  <2>5. orders' = [orders EXCEPT ![u] = Append(@, order)]
    BY <1>3, <2>2, <2>4 DEF PlaceOrder
  <2>6. ~Busy("ordering")'
    BY <2>1 DEF Busy, NoJob
  <2>7. order.total = QuoteTotal(job.lines) /\ order.currency = Currency[u]
    BY <2>4 DEF NewOrder
  <2>8. /\ intents[u][Len(intents[u])].amount = order.total
        /\ intents[u][Len(intents[u])].currency = order.currency
    BY <2>1, <2>2, <2>7 DEF JobShape, NewIntent
  <2>9. ASSUME NEW t \in Tenants
        PROVE  Len(intents'[t]) = Len(orders'[t]) + Ahead(t)' /\ ChargedUpTo(t, Len(orders[t]))'
    <3>1. Ahead(t)' = 0
      BY <2>6 DEF Ahead
    <3>2. CASE t # u
      <4>1. orders'[t] = orders[t] /\ Ahead(t) = 0
        BY <2>2, <2>5, <3>2 DEF TypeOK, Ahead
      <4>2. QED
        BY <2>1, <3>1, <4>1 DEF Paired, ChargedUpTo
    <3>3. CASE t = u
      <4>1. Len(intents[u]) = Len(orders[u]) + 1
        BY <2>1, <2>2 DEF Paired, Ahead
      <4>2. orders[u] \in Seq(Order) /\ orders'[u] = Append(orders[u], order)
        BY <2>5 DEF TypeOK
      <4>3. /\ Len(orders'[u]) = Len(orders[u]) + 1 /\ orders'[u][Len(orders[u]) + 1] = order
            /\ \A i \in 1 .. Len(orders[u]) : orders'[u][i] = orders[u][i]
        BY <4>2, AppendProperties
      <4>4. \A i \in 1 .. Len(orders'[u]) : i \in 1 .. Len(orders[u]) \/ i = Len(orders[u]) + 1
        BY <4>3, LedgerLengths
      <4>5. ChargedUpTo(u, Len(orders[u]))
        BY DEF Paired
      <4>6. ChargedUpTo(u, Len(orders[u]))'
        BY <2>1, <2>8, <4>1, <4>3, <4>4, <4>5 DEF ChargedUpTo
      <4>7. QED
        BY <2>1, <3>1, <3>3, <4>1, <4>3, <4>6, LedgerLengths
    <3>4. QED
      BY <3>2, <3>3
  <2>10. QED
    BY <2>9 DEF Paired
<1>4. ASSUME NEW t \in Tenants, NEW i \in DOMAIN intents[t], NEW status, NEW event,
             Settle(t, i, status, event)
      PROVE  \A u \in Tenants : Len(intents'[u]) = Len(intents[u])
  <2>1. SUFFICES ASSUME NEW u \in Tenants PROVE Len(intents'[u]) = Len(intents[u])
    OBVIOUS
  <2>2. intents[u] \in Seq(Intent) /\ intents[t] \in Seq(Intent) /\ i \in 1 .. Len(intents[t])
    BY DEF TypeOK
  <2>3. PICK new : intents'[t] = [intents[t] EXCEPT ![i] = new]
    BY <1>4 DEF Settle, TypeOK
  <2>4. u # t => intents'[u] = intents[u]
    BY <1>4 DEF Settle, TypeOK
  <2>5. Len(intents'[t]) = Len(intents[t])
    BY <2>2, <2>3
  <2>6. QED
    BY <2>4, <2>5
<1>5. CASE Other
  <2>1. UNCHANGED <<job, orders>>
    BY <1>5 DEF Other, SingleRequest, Reserve, Release, CreateOrder, CreateIntent,
                AuthorizeIntent, CaptureIntent, RefundIntent, Settle, RejectRequest
  <2>2. \A t \in Tenants : Len(intents'[t]) = Len(intents[t])
    BY <1>4, <1>5 DEF Other, SingleRequest, Reserve, Release, CreateOrder, CreateIntent,
                      AuthorizeIntent, CaptureIntent, RefundIntent, RejectRequest
  <2>3. QED
    BY <1>1, <2>1, <2>2, PairedSame DEF Ahead, Busy
<1>6. CASE \E t \in Tenants, provider \in RequestedProviders :
             \E lines \in CartLines(t) : BeginCheckout(t, lines, provider)
  <2>1. UNCHANGED <<intents, orders>> /\ ~Busy("ordering") /\ ~Busy("ordering")'
    BY <1>6 DEF BeginCheckout, Busy, NoJob
  <2>2. QED
    BY <1>1, <2>1, PairedSame DEF Ahead
<1>7. CASE ReserveLine \/ ReserveThrows \/ AllReserved \/ ChargeThrows \/ ReleaseLine
           \/ ReportFailure
  <2>1. UNCHANGED <<intents, orders>> /\ ~Busy("ordering")
    BY <1>7 DEF ReserveLine, ReserveThrows, AllReserved, ChargeThrows, ReleaseLine,
                ReportFailure, Busy
  <2>2. ~Busy("ordering")'
    <3>0. {"rollback", "charging"} \subseteq Phases
      BY DEF Phases
    <3>1. CASE ReserveLine
      BY <3>1, ReserveLineFacts DEF Busy
    <3>2. CASE ReleaseLine
      BY <3>2, ReleaseLineFacts DEF Busy
    <3>3. CASE ReserveThrows
      BY <3>3, <3>0, ReserveThrowsFacts, PhaseChange DEF Busy
    <3>4. CASE AllReserved
      BY <3>4, <3>0, AllReservedFacts, PhaseChange DEF Busy
    <3>5. CASE ChargeThrows
      BY <3>5, <3>0, ChargeThrowsFacts, PhaseChange DEF Busy
    <3>6. CASE ReportFailure
      BY <3>6 DEF ReportFailure, Busy, NoJob
    <3>7. QED
      BY <1>7, <3>1, <3>2, <3>3, <3>4, <3>5, <3>6
  <2>3. QED
    BY <1>1, <2>1, <2>2, PairedSame DEF Ahead
<1>8. CASE UNCHANGED vars
  BY <1>1, <1>8, PairedSame DEF vars, Ahead, Busy
<1>9. QED
  BY <1>2, <1>3, <1>5, <1>6, <1>7, <1>8 DEF Next, Step

\* When clients neither order the fixture cart nor create intents by hand, the
\* i-th order of a tenant is charged by its i-th intent
\* (checkout.controller.ts).
THEOREM OrdersCharged ==
  ASSUME "order" \notin Traffic, "intent" \notin Traffic
  PROVE  Spec => []EveryOrderCharged
<1>1. Init => Paired
  BY DEF Init, ShopInit, Paired, Ahead, ChargedUpTo, Busy, NoJob
<1>2. IInv /\ Paired /\ [Next]_vars => Paired'
  BY PairedStep DEF IInv
<1>3. IInv /\ Paired => EveryOrderCharged
  <2>1. SUFFICES ASSUME IInv, Paired PROVE EveryOrderCharged
    OBVIOUS
  <2>2. TypeOK
    BY <2>1 DEF IInv
  <2>3. job = NoJob => \A t \in Tenants : Ahead(t) = 0
    BY DEF Ahead, Busy, NoJob
  <2>4. \A t \in Tenants : Ahead(t) \in {0, 1}
    BY DEF Ahead
  <2>5. ASSUME NEW t \in Tenants
        PROVE  /\ Len(orders[t]) <= Len(intents[t])
               /\ job = NoJob => Len(orders[t]) = Len(intents[t])
               /\ \A i \in DOMAIN orders[t] :
                    /\ intents[t][i].amount = orders[t][i].total
                    /\ intents[t][i].currency = orders[t][i].currency
    <3>1. Len(intents[t]) = Len(orders[t]) + Ahead(t) /\ ChargedUpTo(t, Len(orders[t]))
      BY <2>1 DEF Paired
    <3>2. Len(intents[t]) \in Nat /\ Len(orders[t]) \in Nat /\ DOMAIN orders[t] = 1 .. Len(orders[t])
      BY <2>2, LedgerLengths
    <3>3. Len(orders[t]) <= Len(intents[t])
      BY <2>4, <3>1, <3>2
    <3>4. job = NoJob => Len(orders[t]) = Len(intents[t])
      BY <2>3, <3>1, <3>2
    <3>5. \A i \in DOMAIN orders[t] :
            /\ intents[t][i].amount = orders[t][i].total
            /\ intents[t][i].currency = orders[t][i].currency
      BY <3>1, <3>2 DEF ChargedUpTo
    <3>6. QED
      BY <3>3, <3>4, <3>5
  <2>6. QED
    BY <2>5 DEF EveryOrderCharged
<1>4. QED
  BY <1>1, <1>2, <1>3, Invariance, PTL DEF Spec

-----------------------------------------------------------------------------
(* OrdersBacked *)

UnitsIn(o, p) == UnitsOf(o.lines, Len(o.lines), p)
UnitsListed(s, p) == [i \in 1 .. Len(s) |-> UnitsIn(s[i], p)]

LEMMA UnitsInType ==
  ASSUME NEW o \in Order, NEW p
  PROVE  UnitsIn(o, p) \in Nat
<1>1. PICK t \in Tenants : o.lines \in CartLines(t)
  BY DEF Order
<1>2. Len(o.lines) \in 0 .. Len(o.lines)
  BY <1>1, CartLinesFacts
<1>3. QED
  BY <1>1, <1>2, UnitsOfType DEF UnitsIn

\* The fold over the orders is the sum of their units.
LEMMA FoldOfUnits ==
  ASSUME NEW s \in Seq(Order), NEW p
  PROVE  UnitsSold(s, p) = PartialSum(UnitsListed(s, p), Len(s))
<1>. DEFINE a == UnitsListed(s, p)
            it == CHOOSE iter : iter = [S \in SUBSET DOMAIN s |->
                    IF S = {} THEN 0
                    ELSE LET x == Max(S)
                         IN  iter[S \ {x}] + UnitsOf(s[x].lines, Len(s[x].lines), p)]
<1>1. UnitsSold(s, p) = it[DOMAIN s]
  BY DEF UnitsSold, FoldLeft, MapThenFoldSet
<1>2. Len(s) \in Nat /\ DOMAIN s = 1 .. Len(s) /\ \A i \in 1 .. Len(s) : s[i] \in Order
  BY LenProperties, ElementOfSeq
<1>3. /\ \A i \in 1 .. Len(s) : a[i] \in Int
      /\ \A i \in 1 .. Len(s) : a[i] = UnitsOf(s[i].lines, Len(s[i].lines), p)
  BY <1>2, UnitsInType DEF UnitsListed, UnitsIn
<1>4. \A S \in SUBSET DOMAIN s : S # {} => Max(S) \in 1 .. Len(s)
  BY <1>2, Largest
<1>. HIDE DEF a
<1>5. PICK iter : Adds(iter, a, Len(s))
  BY <1>2, <1>3, AddsExist
<1>6. iter = [S \in SUBSET DOMAIN s |->
               IF S = {} THEN 0
               ELSE LET x == Max(S)
                    IN  iter[S \ {x}] + UnitsOf(s[x].lines, Len(s[x].lines), p)]
  BY <1>2, <1>3, <1>4, <1>5 DEF Adds
<1>7. it = [S \in SUBSET DOMAIN s |->
             IF S = {} THEN 0
             ELSE LET x == Max(S)
                  IN  it[S \ {x}] + UnitsOf(s[x].lines, Len(s[x].lines), p)]
  BY <1>6
<1>. HIDE DEF it
<1>8. Adds(it, a, Len(s))
  BY <1>2, <1>3, <1>4, <1>7 DEF Adds
<1>9. it[1 .. Len(s)] = PartialSum(a, Len(s))
  BY <1>2, <1>3, <1>8, AddsUp
<1>10. QED
  BY <1>1, <1>2, <1>9 DEF a

LEMMA UnitsSoldFacts ==
  ASSUME NEW p
  PROVE  /\ UnitsSold(<< >>, p) = 0
         /\ \A s \in Seq(Order) : UnitsSold(s, p) \in Int
         /\ \A s \in Seq(Order), o \in Order :
              UnitsSold(Append(s, o), p) = UnitsSold(s, p) + UnitsIn(o, p)
<1>1. UnitsSold(<< >>, p) = 0
  <2>1. << >> \in Seq(Order) /\ Len(<< >>) = 0
    BY EmptySeq
  <2>2. UnitsSold(<< >>, p) = PartialSum(UnitsListed(<< >>, p), 0)
    BY <2>1, FoldOfUnits
  <2>3. PartialSum(UnitsListed(<< >>, p), 0) = 0
    BY PartialSumFacts
  <2>4. QED
    BY <2>2, <2>3
<1>2. ASSUME NEW s \in Seq(Order)
      PROVE  /\ Len(s) \in Nat /\ \A i \in 1 .. Len(s) : UnitsListed(s, p)[i] \in Int
             /\ \A i \in 1 .. Len(s) : UnitsListed(s, p)[i] = UnitsIn(s[i], p)
             /\ UnitsSold(s, p) = PartialSum(UnitsListed(s, p), Len(s))
             /\ UnitsSold(s, p) \in Int
  <2>1. Len(s) \in Nat /\ \A i \in 1 .. Len(s) : s[i] \in Order
    BY LenProperties, ElementOfSeq
  <2>2. /\ \A i \in 1 .. Len(s) : UnitsListed(s, p)[i] \in Int
        /\ \A i \in 1 .. Len(s) : UnitsListed(s, p)[i] = UnitsIn(s[i], p)
    BY <2>1, UnitsInType DEF UnitsListed
  <2>3. PartialSum(UnitsListed(s, p), Len(s)) \in Int
    BY <2>1, <2>2, PartialSumFacts
  <2>4. QED
    BY <2>1, <2>2, <2>3, FoldOfUnits
<1>3. ASSUME NEW s \in Seq(Order), NEW o \in Order
      PROVE  UnitsSold(Append(s, o), p) = UnitsSold(s, p) + UnitsIn(o, p)
  <2>. DEFINE r == Append(s, o)
              n == Len(s)
  <2>1. /\ r \in Seq(Order) /\ Len(r) = n + 1 /\ r[n + 1] = o /\ n \in Nat
        /\ \A i \in 1 .. n : r[i] = s[i]
    BY AppendProperties, LenProperties
  <2>. HIDE DEF r, n
  <2>2. /\ \A i \in 1 .. n + 1 : UnitsListed(r, p)[i] \in Int
        /\ \A i \in 1 .. n + 1 : UnitsListed(r, p)[i] = UnitsIn(r[i], p)
        /\ UnitsSold(r, p) = PartialSum(UnitsListed(r, p), n + 1)
    BY <1>2, <2>1
  <2>3. /\ \A i \in 1 .. n : UnitsListed(s, p)[i] \in Int
        /\ \A i \in 1 .. n : UnitsListed(s, p)[i] = UnitsIn(s[i], p)
        /\ UnitsSold(s, p) = PartialSum(UnitsListed(s, p), n)
    BY <1>2 DEF n
  <2>4. \A i \in 1 .. n : UnitsListed(r, p)[i] = UnitsListed(s, p)[i]
    BY <2>1, <2>2, <2>3
  <2>5. PartialSum(UnitsListed(r, p), n) = PartialSum(UnitsListed(s, p), n)
    BY <2>1, <2>3, <2>4, PartialSumSame
  <2>6. n + 1 \in 1 .. n + 1 /\ n + 1 \in Nat /\ (n + 1) - 1 = n
    BY <2>1
  <2>7. PartialSum(UnitsListed(r, p), n + 1)
          = PartialSum(UnitsListed(r, p), n) + UnitsListed(r, p)[n + 1]
    BY <2>2, <2>6, PartialSumFacts
  <2>8. UnitsListed(r, p)[n + 1] = UnitsIn(o, p)
    BY <2>1, <2>2, <2>6
  <2>9. QED
    BY <2>2, <2>3, <2>5, <2>7, <2>8 DEF r
<1>4. QED
  BY <1>1, <1>2, <1>3

\* What OrdersBacked says of one row.
Backed(p) == UnitsOrdered(p) + Held(p) <= stock[p].reserved - InitialStock[p].reserved

LEMMA BackedTypes ==
  ASSUME TypeOK, JobShape, NEW p \in Products
  PROVE  /\ TenantOf[p] \in Tenants /\ orders[TenantOf[p]] \in Seq(Order)
         /\ UnitsOrdered(p) = UnitsSold(orders[TenantOf[p]], p) /\ UnitsOrdered(p) \in Int
         /\ Held(p) \in Nat /\ stock[p].reserved \in Nat /\ InitialStock[p].reserved \in Nat
<1>1. TenantOf[p] \in Tenants /\ orders[TenantOf[p]] \in Seq(Order)
  BY ShopAssumption DEF TypeOK
<1>2. UnitsOrdered(p) = UnitsSold(orders[TenantOf[p]], p) /\ UnitsOrdered(p) \in Int
  BY <1>1, UnitsSoldFacts DEF UnitsOrdered
<1>3. Held(p) \in Nat
  <2>1. CASE job = NoJob
    BY <2>1 DEF Held
  <2>2. CASE job # NoJob
    <3>1. job.tenant \in Tenants /\ job.lines \in CartLines(job.tenant) /\ job.held \in Nat
      BY <2>2, JobFacts, ShopAssumption
    <3>2. job.held \in 0 .. Len(job.lines)
      BY <2>2, <3>1, CartLinesFacts DEF JobShape
    <3>3. QED
      BY <2>2, <3>1, <3>2, UnitsOfType DEF Held
  <2>3. QED
    BY <2>1, <2>2
<1>4. stock[p].reserved \in Nat /\ InitialStock[p].reserved \in Nat
  BY StockType, ShopAssumption DEF StockLevel
<1>5. QED
  BY <1>1, <1>2, <1>3, <1>4

\* A step that places no order and moves the units of a row with its claim.
LEMMA BackedSame ==
  ASSUME TypeOK, JobShape, UNCHANGED orders, NEW p \in Products, Backed(p), NEW q \in Int,
         Held(p)' = Held(p) + q, stock'[p].reserved >= stock[p].reserved + q,
         stock'[p].reserved \in Int
  PROVE  Backed(p)'
<1>1. UnitsOrdered(p)' = UnitsOrdered(p)
  BY DEF UnitsOrdered
<1>2. UnitsOrdered(p) \in Int /\ Held(p) \in Nat /\ stock[p].reserved \in Nat
      /\ InitialStock[p].reserved \in Nat
  BY BackedTypes
<1>3. UnitsOrdered(p)' + Held(p)' <= stock'[p].reserved - InitialStock[p].reserved
  BY <1>1, <1>2 DEF Backed
<1>4. QED
  BY <1>3 DEF Backed

LEMMA BackedStep ==
  ASSUME "order" \notin Traffic, "release" \notin Traffic,
         TypeOK, JobShape, TypeOK', [Next]_vars, NEW p \in Products, Backed(p)
  PROVE  Backed(p)'
<1>1. /\ stock[p].reserved \in Nat /\ stock'[p].reserved \in Nat /\ Held(p) \in Nat
  BY BackedTypes DEF TypeOK, StockLevel
<1>2. CASE UNCHANGED <<stock, orders>> /\ Held(p)' = Held(p)
  <2>1. Held(p)' = Held(p) + 0 /\ stock'[p].reserved >= stock[p].reserved + 0
    BY <1>1, <1>2
  <2>2. QED
    BY <1>1, <1>2, <2>1, BackedSame
<1>3. ASSUME NEW r \in Products, NEW q \in Quantities, Reserve(r, q), UNCHANGED job
      PROVE  Backed(p)'
  <2>1. /\ CanReserve(stock, r, q) /\ stock' = Move(stock, r, q) /\ q \in Nat
        /\ UNCHANGED orders /\ Held(p)' = Held(p) + 0
    BY <1>1, <1>3, QuantityType DEF Reserve, Held
  <2>2. stock'[p].reserved = stock[p].reserved + (IF p = r THEN q ELSE 0)
    BY <2>1, ReserveFacts
  <2>3. stock'[p].reserved >= stock[p].reserved + 0
    BY <1>1, <2>1, <2>2
  <2>4. QED
    BY <1>1, <2>1, <2>3, BackedSame
<1>4. CASE ReserveLine
  <2>1. NextLine.quantity \in Nat /\ UNCHANGED orders
    BY <1>4, ReserveLineFacts, LineFacts DEF NextLine, ReserveLine
  <2>2. PICK q \in Nat : q = IF p = NextLine.product THEN NextLine.quantity ELSE 0
    BY <2>1
  <2>3. stock'[p].reserved = stock[p].reserved + q /\ Held(p)' = Held(p) + q
    BY <1>4, <2>2, ReserveLineFacts
  <2>4. QED
    BY <1>1, <2>1, <2>3, BackedSame
<1>5. CASE ReleaseLine
  <2>1. LastHeld.quantity \in Nat /\ UNCHANGED orders
    BY <1>5, ReleaseLineFacts, LineFacts DEF LastHeld, ReleaseLine
  <2>2. PICK q \in Nat : q = IF p = LastHeld.product THEN LastHeld.quantity ELSE 0
    BY <2>1
  <2>3. stock'[p].reserved = stock[p].reserved - q /\ Held(p) = Held(p)' + q
    BY <1>5, <2>2, ReleaseLineFacts
  <2>4. Held(p)' \in Int
    <3>1. /\ job' # NoJob /\ job'.lines = job.lines /\ job'.held = job.held - 1
          /\ job.held \in 1 .. Len(job.lines) /\ job.tenant \in Tenants
          /\ job.lines \in CartLines(job.tenant)
      BY <1>5, ReleaseLineFacts, JobFacts
    <3>2. job.held - 1 \in 0 .. Len(job.lines)
      BY <3>1, CartLinesFacts
    <3>3. Held(p)' = UnitsOf(job.lines, job.held - 1, p)
      BY <3>1 DEF Held
    <3>4. QED
      BY <3>1, <3>2, <3>3, UnitsOfType
  <2>5. Held(p)' = Held(p) + (-q) /\ stock'[p].reserved >= stock[p].reserved + (-q)
    BY <1>1, <2>2, <2>3, <2>4
  <2>6. QED
    BY <1>1, <2>1, <2>5, BackedSame
<1>6. CASE PlaceOrder
  <2>1. job # NoJob /\ Busy("ordering") /\ job' = NoJob /\ UNCHANGED stock
    BY <1>6, BusyJob DEF PlaceOrder, Phases
  <2>2. PICK u \in Tenants : u = job.tenant
    BY <2>1, JobFacts
  <2>3. NewOrder(u, job.lines) \in Order
    BY <2>1, <2>2, JobFacts, NewOrderType
  <2>4. PICK order \in Order : order = NewOrder(u, job.lines)
    BY <2>3
  <2>5. orders' = [orders EXCEPT ![u] = Append(@, order)]
    BY <1>6, <2>2, <2>4 DEF PlaceOrder
  <2>6. Held(p) = UnitsIn(order, p) /\ Held(p)' = 0
    <3>1. job.held = Len(job.lines) /\ order.lines = job.lines
      BY <2>1, <2>4 DEF JobShape, NewOrder
    <3>2. QED
      BY <2>1, <3>1 DEF Held, UnitsIn
  <2>. DEFINE t == TenantOf[p]
  <2>7. UnitsOrdered(p)' = UnitsSold(orders'[t], p)
    BY DEF UnitsOrdered
  <2>8. orders'[t] = IF t = u THEN Append(orders[t], order) ELSE orders[t]
    BY <2>5, BackedTypes DEF TypeOK
  <2>9. UnitsOrdered(p)' = UnitsOrdered(p) + (IF t = u THEN UnitsIn(order, p) ELSE 0)
    <3>1. /\ orders[t] \in Seq(Order) /\ UnitsOrdered(p) = UnitsSold(orders[t], p)
          /\ UnitsSold(orders[t], p) \in Int
      BY BackedTypes
    <3>2. UnitsSold(Append(orders[t], order), p) = UnitsSold(orders[t], p) + UnitsIn(order, p)
      BY <3>1, UnitsSoldFacts
    <3>. HIDE DEF t
    <3>3. QED
      BY <2>7, <2>8, <3>1, <3>2
  <2>. HIDE DEF t
  <2>10. UnitsOrdered(p) + Held(p) <= stock[p].reserved - InitialStock[p].reserved
    BY DEF Backed
  <2>11. UnitsOrdered(p)' + Held(p)' <= stock[p].reserved - InitialStock[p].reserved
    BY <1>1, <2>6, <2>9, <2>10, BackedTypes
  <2>12. QED
    BY <2>1, <2>11 DEF Backed
<1>7. ASSUME NEW t \in Tenants, NEW provider \in RequestedProviders,
             NEW lines \in CartLines(t), BeginCheckout(t, lines, provider)
      PROVE  Backed(p)'
  <2>1. /\ job = NoJob /\ job'.held = 0 /\ job'.phase = "reserving" /\ UNCHANGED <<stock, orders>>
    BY <1>7 DEF BeginCheckout
  <2>2. Held(p) = 0 /\ Held(p)' = 0
    BY <2>1, UnitsOfNone DEF Held, NoJob
  <2>3. QED
    BY <1>2, <2>1, <2>2
<1>8. CASE ReserveThrows \/ AllReserved \/ Charge \/ ChargeThrows
  <2>1. {"charging", "ordering", "rollback"} \subseteq Phases
    BY DEF Phases
  <2>2. Held(p)' = Held(p)
    BY <1>8, <2>1, ReserveThrowsFacts, AllReservedFacts, ChargeFacts, ChargeThrowsFacts, PhaseChange
  <2>3. QED
    BY <1>2, <1>8, <2>2 DEF ReserveThrows, AllReserved, Charge, ChargeThrows
<1>9. CASE ReportFailure
  <2>1. job # NoJob /\ job.held = 0 /\ job' = NoJob /\ UNCHANGED <<stock, orders>>
    BY <1>9, BusyJob DEF ReportFailure, Phases
  <2>2. Held(p) = 0 /\ Held(p)' = 0
    BY <2>1, UnitsOfNone DEF Held
  <2>3. QED
    BY <1>2, <2>1, <2>2
<1>10. CASE Other
  <2>1. UNCHANGED job /\ SingleRequest /\ Held(p)' = Held(p)
    BY <1>10 DEF Other, Held
  <2>2. (\E r \in Products, q \in Quantities : Reserve(r, q)) \/ UNCHANGED <<stock, orders>>
    BY <2>1
    DEF SingleRequest, Release, CreateOrder, CreateIntent, AuthorizeIntent, CaptureIntent,
        RefundIntent, Settle, RejectRequest
  <2>3. QED
    BY <1>2, <1>3, <2>1, <2>2
<1>11. CASE UNCHANGED vars
  BY <1>2, <1>11 DEF vars, Held
<1>12. QED
  BY <1>4, <1>5, <1>6, <1>7, <1>8, <1>9, <1>10, <1>11 DEF Next, Step

\* Checkout never sells a unit twice: when clients neither release stock nor
\* order the fixture cart, what the placed orders and the running checkout claim
\* of a row was reserved since start-up (inventory.service.ts, checkout.controller.ts).
THEOREM OrdersHaveStock ==
  ASSUME "order" \notin Traffic, "release" \notin Traffic
  PROVE  Spec => []OrdersBacked
<1>1. Init => OrdersBacked
  <2>1. SUFFICES ASSUME Init, NEW p \in Products PROVE Backed(p)
    BY DEF OrdersBacked, Backed
  <2>2. TypeOK /\ JobShape
    BY <2>1, IInvInit DEF IInv
  <2>3. UnitsOrdered(p) = 0 /\ Held(p) = 0 /\ stock = InitialStock
    BY <2>1, <2>2, BackedTypes, UnitsSoldFacts DEF Init, ShopInit, Held
  <2>4. QED
    BY <2>2, <2>3, BackedTypes DEF Backed
<1>2. IInv /\ OrdersBacked /\ [Next]_vars => OrdersBacked'
  <2>1. SUFFICES ASSUME IInv, OrdersBacked, [Next]_vars, NEW p \in Products PROVE Backed(p)'
    BY DEF OrdersBacked, Backed
  <2>2. IInv' /\ Backed(p)
    BY <2>1, IInvNext DEF OrdersBacked, Backed
  <2>3. QED
    BY <2>1, <2>2, BackedStep DEF IInv
<1>3. QED
  BY <1>1, <1>2, Invariance, PTL DEF Spec

-----------------------------------------------------------------------------
(* The refinement of AtomicCheckout: the last step of a checkout is the atomic
   one, and every other step of it changes nothing a client can see *)

LEMMA SeenSame ==
  ASSUME \A r \in Products :
           /\ stock'[r].available + Held(r)' = stock[r].available + Held(r)
           /\ stock'[r].reserved - Held(r)' = stock[r].reserved - Held(r)
  PROVE  StockSeen' = StockSeen
BY DEF StockSeen

\* With no checkout running, clients see the state itself.
LEMMA SeenIdle ==
  ASSUME stock \in [Products -> StockLevel], job = NoJob
  PROVE  StockSeen = stock /\ IntentsSeen = intents
<1>1. \A p \in Products : Held(p) = 0
  BY DEF Held
<1>2. \A p \in Products :
        [available |-> stock[p].available + Held(p), reserved |-> stock[p].reserved - Held(p)]
          = stock[p]
  BY <1>1 DEF StockLevel
<1>3. StockSeen = stock
  BY <1>2 DEF StockSeen
<1>4. IntentsSeen = intents
  BY DEF IntentsSeen, Busy, NoJob
<1>5. QED
  BY <1>3, <1>4

LEMMA HeldType ==
  ASSUME TypeOK, JobShape, NEW p \in Products
  PROVE  Held(p) \in Nat
<1>1. CASE job = NoJob
  BY <1>1 DEF Held
<1>2. CASE job # NoJob
  <2>1. job.held \in 0 .. Len(job.lines)
    BY <1>2, JobFacts, CartLinesFacts DEF JobShape
  <2>2. QED
    BY <1>2, <2>1, JobFacts, UnitsOfType DEF Held
<1>3. QED
  BY <1>1, <1>2

\* A line is short exactly when the stock seen does not cover it.
LEMMA SeenLine ==
  ASSUME TypeOK, JobShape, job # NoJob, NEW i \in 1 .. Len(job.lines)
  PROVE  Atomic!CanReserve(StockSeen, job.lines[i].product, job.lines[i].quantity)
           <=> ~Short(i)
<1>0. PICK p : p = job.lines[i].product
  OBVIOUS
<1>1. p \in Products /\ job.lines[i].quantity \in Nat /\ stock[p].available \in Nat
  BY <1>0, LineFacts
<1>2. Held(p) \in Nat
  BY <1>1, HeldType
<1>3. StockSeen[p].available = stock[p].available + Held(p)
  BY <1>1 DEF StockSeen
<1>4. QED
  BY <1>0, <1>1, <1>2, <1>3 DEF Atomic!CanReserve, Short

-----------------------------------------------------------------------------
(* Steps clients do not see *)

LEMMA HiddenSteps ==
  ASSUME IInv, Step, ~PlaceOrder, ~ReportFailure
  PROVE  UNCHANGED <<StockSeen, IntentsSeen, orders, reply, trail>>
<1>. USE DEF IInv
<1>1. CASE ReserveLine
  <2>1. StockSeen' = StockSeen
    <3>1. NextLine.quantity \in Nat
      BY <1>1, ReserveLineFacts, LineFacts DEF NextLine
    <3>2. \A r \in Products : /\ stock[r].available \in Nat /\ stock[r].reserved \in Nat
                              /\ Held(r) \in Nat
      BY StockType, HeldType
    <3>3. QED
      BY <1>1, <3>1, <3>2, ReserveLineFacts, SeenSame
  <2>2. IntentsSeen' = IntentsSeen
    BY <1>1, ReserveLineFacts DEF IntentsSeen, Busy, ReserveLine
  <2>3. QED
    BY <1>1, <2>1, <2>2 DEF ReserveLine
<1>2. CASE ReleaseLine
  <2>1. StockSeen' = StockSeen
    <3>1. LastHeld.quantity \in Nat
      BY <1>2, ReleaseLineFacts, LineFacts DEF LastHeld
    <3>2. \A r \in Products : /\ stock[r].available \in Nat /\ stock[r].reserved \in Nat
                              /\ Held(r) \in Nat
      BY StockType, HeldType
    <3>3. ASSUME NEW r \in Products
          PROVE  Held(r)' = Held(r) - (IF r = LastHeld.product THEN LastHeld.quantity ELSE 0)
      <4>1. job' # NoJob /\ job'.lines = job.lines /\ job'.held = job.held - 1
            /\ job # NoJob /\ job.held - 1 \in 0 .. Len(job.lines)
        BY <1>2, ReleaseLineFacts, JobFacts, CartLinesFacts
      <4>2. Held(r)' = UnitsOf(job.lines, job.held - 1, r)
        BY <4>1 DEF Held
      <4>3. Held(r)' \in Nat
        BY <4>1, <4>2, JobFacts, UnitsOfType
      <4>4. QED
        BY <1>2, <3>1, <4>3, ReleaseLineFacts
    <3>4. QED
      BY <1>2, <3>1, <3>2, <3>3, ReleaseLineFacts, SeenSame
  <2>2. IntentsSeen' = IntentsSeen
    BY <1>2, ReleaseLineFacts DEF IntentsSeen, Busy, ReleaseLine
  <2>3. QED
    BY <1>2, <2>1, <2>2 DEF ReleaseLine
<1>3. CASE ReserveThrows \/ ChargeThrows
  <2>1. /\ job # NoJob /\ job.phase # "ordering"
        /\ job' = [job EXCEPT !.phase = "rollback", !.events = job.events]
    BY <1>3, ReserveThrowsFacts, ChargeThrowsFacts
  <2>2. job'.phase = "rollback" /\ \A r : Held(r)' = Held(r)
    BY <2>1, PhaseChange DEF Phases
  <2>3. UNCHANGED <<stock, intents, orders, reply, trail>>
    BY <1>3 DEF ReserveThrows, ChargeThrows
  <2>4. QED
    BY <2>1, <2>2, <2>3, SeenSame DEF IntentsSeen, Busy
<1>4. CASE AllReserved
  <2>1. /\ job # NoJob /\ job.phase # "ordering"
        /\ job' = [job EXCEPT !.phase = "charging",
                              !.events = <<"checkout.inventory.reserved">>]
    BY <1>4, AllReservedFacts
  <2>2. job'.phase = "charging" /\ \A r : Held(r)' = Held(r)
    BY <2>1, PhaseChange DEF Phases
  <2>3. UNCHANGED <<stock, intents, orders, reply, trail>>
    BY <1>4 DEF AllReserved
  <2>4. QED
    BY <2>1, <2>2, <2>3, SeenSame DEF IntentsSeen, Busy
<1>5. CASE Charge
  <2>. DEFINE intent == NewIntent(job.tenant, job.provider, QuoteTotal(job.lines),
                                  Currency[job.tenant])
  <2>1. /\ job # NoJob /\ job.phase = "charging"
        /\ job' = [job EXCEPT !.phase = "ordering", !.events = job.events]
    BY <1>5, ChargeFacts
  <2>2. /\ job'.phase = "ordering" /\ job'.tenant = job.tenant
        /\ \A r : Held(r)' = Held(r)
    BY <2>1, PhaseChange DEF Phases
  <2>3. /\ UNCHANGED <<stock, orders, reply, trail>>
        /\ intents' = [intents EXCEPT ![job.tenant] = Append(@, intent)]
        /\ ChargeAccepted
    BY <1>5 DEF Charge
  <2>4. job.tenant \in Tenants /\ intents \in [Tenants -> Seq(Intent)]
    BY <2>1, JobFacts DEF TypeOK
  <2>5. intent \in Intent
    <3>1. QuoteTotal(job.lines) \in Totals /\ Currency[job.tenant] \in Currencies
      BY <2>1, JobFacts DEF Totals, Currencies
    <3>2. QED
      BY <2>1, <2>3, <3>1, JobFacts, NewIntentType DEF ChargeAccepted
  <2>6. ASSUME NEW s \in Seq(Intent), NEW e \in Intent
        PROVE  SubSeq(Append(s, e), 1, Len(Append(s, e)) - 1) = s
    <3>1. /\ Append(s, e) \in Seq(Intent) /\ Len(Append(s, e)) = Len(s) + 1
          /\ \A i \in 1 .. Len(s) : Append(s, e)[i] = s[i]
          /\ Len(s) \in Nat
      BY AppendProperties, LenProperties
    <3>2. \A i \in 1 .. Len(s) : Append(s, e)[i] \in Intent
      BY <3>1, ElementOfSeq
    <3>3. /\ SubSeq(Append(s, e), 1, Len(s)) \in Seq(Intent)
          /\ Len(SubSeq(Append(s, e), 1, Len(s))) =
               IF 1 <= Len(s) THEN Len(s) - 1 + 1 ELSE 0
          /\ \A i \in 1 .. Len(s) - 1 + 1 :
               SubSeq(Append(s, e), 1, Len(s))[i] = Append(s, e)[1 + i - 1]
      BY <3>1, <3>2, SubSeqProperties
    <3>4. Len(SubSeq(Append(s, e), 1, Len(s))) = Len(s)
      BY <3>1, <3>3
    <3>5. \A i \in 1 .. Len(s) : SubSeq(Append(s, e), 1, Len(s))[i] = s[i]
      BY <3>1, <3>3
    <3>6. SubSeq(Append(s, e), 1, Len(s)) = s
      BY <3>3, <3>4, <3>5, SeqEqual
    <3>7. QED
      BY <3>1, <3>6
  <2>7. intents'[job.tenant] = Append(intents[job.tenant], intent)
        /\ intents[job.tenant] \in Seq(Intent)
    BY <2>3, <2>4
  <2>8. SubSeq(intents'[job.tenant], 1, Len(intents'[job.tenant]) - 1) = intents[job.tenant]
    <3>. HIDE DEF intent
    <3>1. QED BY <2>5, <2>6, <2>7
  <2>9. IntentsSeen' = [intents' EXCEPT ![job.tenant] =
                          SubSeq(@, 1, Len(@) - 1)]
    BY <2>2 DEF IntentsSeen, Busy
  <2>10. [intents' EXCEPT ![job.tenant] = SubSeq(@, 1, Len(@) - 1)] = intents
    <3>. HIDE DEF intent
    <3>1. QED BY <2>3, <2>4, <2>8
  <2>11. IntentsSeen = intents
    BY <2>1 DEF IntentsSeen, Busy
  <2>12. QED
    BY <2>2, <2>3, <2>9, <2>10, <2>11, SeenSame
<1>6. QED
  BY <1>1, <1>2, <1>3, <1>4, <1>5 DEF Step

-----------------------------------------------------------------------------
(* The step that ends a checkout *)

LEMMA FrontAppend ==
  ASSUME NEW S, NEW s \in Seq(S), Len(s) >= 1
  PROVE  /\ SubSeq(s, 1, Len(s) - 1) \in Seq(S)
         /\ Len(SubSeq(s, 1, Len(s) - 1)) = Len(s) - 1
         /\ Append(SubSeq(s, 1, Len(s) - 1), s[Len(s)]) = s
<1>. DEFINE n == Len(s) - 1
            f == SubSeq(s, 1, n)
<1>1. Len(s) \in Nat /\ n \in Nat /\ 1 \in Int /\ n \in Int /\ s[Len(s)] \in S
      /\ \A i \in 1 .. n : s[i] \in S
  BY LenProperties, ElementOfSeq
<1>2. /\ f \in Seq(S)
      /\ Len(f) = IF 1 <= n THEN n - 1 + 1 ELSE 0
      /\ \A i \in 1 .. n - 1 + 1 : f[i] = s[1 + i - 1]
  BY <1>1, SubSeqProperties
<1>3. Len(f) = n /\ \A i \in 1 .. n : f[i] = s[i]
  <2>. HIDE DEF f, n
  <2>1. Len(f) = n
    BY <1>1, <1>2
  <2>2. \A i \in 1 .. n : f[i] = s[i]
    BY <1>1, <1>2
  <2>3. QED
    BY <2>1, <2>2
<1>4. /\ Append(f, s[Len(s)]) \in Seq(S)
      /\ Len(Append(f, s[Len(s)])) = Len(f) + 1
      /\ \A i \in 1 .. Len(f) : Append(f, s[Len(s)])[i] = f[i]
      /\ Append(f, s[Len(s)])[Len(f) + 1] = s[Len(s)]
  <2>. HIDE DEF f
  <2>1. QED BY <1>1, <1>2, AppendProperties
<1>5. Append(f, s[Len(s)]) = s
  <2>. HIDE DEF f
  <2>1. Len(Append(f, s[Len(s)])) = Len(s)
    BY <1>1, <1>3, <1>4
  <2>2. \A i \in 1 .. Len(s) : Append(f, s[Len(s)])[i] = s[i]
    BY <1>1, <1>3, <1>4
  <2>3. QED
    BY <1>4, <2>1, <2>2, SeqEqual
<1>6. QED
  BY <1>2, <1>3, <1>5

LEMMA AppendEvent ==
  ASSUME NEW S, NEW a \in S, NEW b \in S
  PROVE  Append(<<a>>, b) = <<a, b>>
<1>1. <<a>> \in Seq(S) /\ Len(<<a>>) = 1 /\ <<a>>[1] = a
  OBVIOUS
<1>2. <<a, b>> \in Seq(S) /\ Len(<<a, b>>) = 2 /\ <<a, b>>[1] = a /\ <<a, b>>[2] = b
  OBVIOUS
<1>3. /\ Append(<<a>>, b) \in Seq(S) /\ Len(Append(<<a>>, b)) = 2
      /\ Append(<<a>>, b)[1] = a /\ Append(<<a>>, b)[2] = b
  BY <1>1, AppendProperties
<1>4. \A i \in 1 .. 2 : i = 1 \/ i = 2
  OBVIOUS
<1>5. QED
  BY <1>2, <1>3, <1>4, SeqEqual

LEMMA ConcatEvents ==
  ASSUME NEW S, NEW a \in S, NEW b \in S, NEW c \in S, NEW d \in S
  PROVE  <<a>> \o <<b, c, d>> = <<a, b, c, d>>
<1>. DEFINE s == <<a>>
            r == <<b, c, d>>
            u == <<a, b, c, d>>
<1>1. s \in Seq(S) /\ Len(s) = 1 /\ s[1] = a
  OBVIOUS
<1>2. r \in Seq(S) /\ Len(r) = 3 /\ r[1] = b /\ r[2] = c /\ r[3] = d
  OBVIOUS
<1>3. u \in Seq(S) /\ Len(u) = 4 /\ u[1] = a /\ u[2] = b /\ u[3] = c /\ u[4] = d
  OBVIOUS
<1>. HIDE DEF s, r, u
<1>4. /\ s \o r \in Seq(S) /\ Len(s \o r) = 4
      /\ \A i \in 1 .. 4 : (s \o r)[i] = IF i <= 1 THEN s[i] ELSE r[i - 1]
  <2>1. /\ s \o r \in Seq(S) /\ Len(s \o r) = Len(s) + Len(r)
        /\ \A i \in 1 .. Len(s) + Len(r) :
             (s \o r)[i] = IF i <= Len(s) THEN s[i] ELSE r[i - Len(s)]
    BY <1>1, <1>2, ConcatProperties
  <2>2. Len(s) = 1 /\ Len(s) + Len(r) = 4
    BY <1>1, <1>2
  <2>3. QED
    BY <2>1, <2>2
<1>5. (s \o r)[1] = a /\ (s \o r)[2] = b /\ (s \o r)[3] = c /\ (s \o r)[4] = d
  BY <1>1, <1>2, <1>4
<1>6. \A i \in 1 .. 4 : i = 1 \/ i = 2 \/ i = 3 \/ i = 4
  OBVIOUS
<1>7. s \o r = u
  BY <1>3, <1>4, <1>5, <1>6, SeqEqual
<1>8. QED
  BY <1>7 DEF s, r, u

LEMMA PlaceOrderSeen ==
  ASSUME IInv, PlaceOrder
  PROVE  Atomic!Succeed(job.tenant, job.lines, job.provider)
<1>. USE DEF IInv
<1>. DEFINE t == job.tenant
            intent == NewIntent(t, job.provider, QuoteTotal(job.lines), Currency[t])
<1>1. /\ job # NoJob /\ job.phase = "ordering" /\ t \in Tenants
      /\ job.lines \in CartLines(t) /\ job' = NoJob
      /\ UNCHANGED <<stock, intents>>
  BY BusyJob, JobFacts DEF PlaceOrder, Busy, Phases
<1>2. /\ job.held = Len(job.lines) /\ job.events = <<"checkout.inventory.reserved">>
      /\ Len(orders[t]) < MaxOrders /\ ChargeAccepted
      /\ Len(intents[t]) \in 1 .. MaxIntents
      /\ intents[t][Len(intents[t])] = intent
  BY <1>1 DEF JobShape, Busy
<1>3. \A p \in Products : Held(p) = UnitsOf(job.lines, Len(job.lines), p)
  BY <1>1, <1>2 DEF Held
<1>4. Atomic!Enough(t, job.lines)
  <2>1. DOMAIN job.lines = 1 .. Len(job.lines) /\ Len(job.lines) \in Nat
    BY <1>1, CartLinesFacts
  <2>2. ASSUME NEW i \in 1 .. Len(job.lines)
        PROVE  ~Short(i)
    <3>1. Held(job.lines[i].product) = job.lines[i].quantity
      BY <1>1, <1>2, <2>1, UnitsOfLine DEF Held
    <3>2. QED
      BY <1>1, <3>1, LineFacts DEF Short
  <2>3. QED
    BY <1>1, <2>1, <2>2, SeenLine DEF Atomic!Enough
<1>5. Atomic!Charged(t, job.lines, job.provider)
  BY <1>2 DEF Atomic!Charged, ChargeAccepted, IntentAccepted, Atomic!IntentAccepted,
              ChosenProvider, Atomic!ChosenProvider, QuoteTotal, Atomic!QuoteTotal,
              Subtotal, Atomic!Subtotal

<1>6. StockSeen' = [p \in Products |->
                      [available |-> StockSeen[p].available - UnitsOf(job.lines, Len(job.lines), p),
                       reserved |-> StockSeen[p].reserved + UnitsOf(job.lines, Len(job.lines), p)]]
  <2>1. ASSUME NEW p \in Products
        PROVE  /\ stock'[p].available + Held(p)' =
                    StockSeen[p].available - UnitsOf(job.lines, Len(job.lines), p)
               /\ stock'[p].reserved - Held(p)' =
                    StockSeen[p].reserved + UnitsOf(job.lines, Len(job.lines), p)
    <3>1. stock[p].available \in Nat /\ stock[p].reserved \in Nat /\ Held(p) \in Nat
      BY StockType, HeldType
    <3>2. StockSeen[p].available = stock[p].available + Held(p)
          /\ StockSeen[p].reserved = stock[p].reserved - Held(p)
      BY DEF StockSeen
    <3>3. Held(p)' = 0
      BY <1>1 DEF Held
    <3>4. QED
      BY <1>1, <1>3, <3>1, <3>2, <3>3
  <2>2. QED
    BY <2>1 DEF StockSeen
<1>7. /\ IntentsSeen' = [IntentsSeen EXCEPT ![t] = Append(@, intent)]
      /\ Len(IntentsSeen[t]) < MaxIntents
  <2>. DEFINE front == SubSeq(intents[t], 1, Len(intents[t]) - 1)
  <2>1. intents \in [Tenants -> Seq(Intent)] /\ intents[t] \in Seq(Intent)
    BY <1>1 DEF TypeOK
  <2>2. Len(intents[t]) >= 1 /\ Len(intents[t]) \in Nat /\ MaxIntents \in Nat
        /\ Len(intents[t]) <= MaxIntents
    BY <1>2, <2>1, LenProperties, ShopAssumption DEF ShopAssumption
  <2>3. front \in Seq(Intent) /\ Len(front) = Len(intents[t]) - 1
        /\ Append(front, intents[t][Len(intents[t])]) = intents[t]
    BY <2>1, <2>2, FrontAppend
  <2>4. IntentsSeen = [intents EXCEPT ![t] = front]
    BY <1>1 DEF IntentsSeen, Busy
  <2>5. IntentsSeen' = intents
    BY <1>1 DEF IntentsSeen, Busy, NoJob
  <2>. HIDE DEF front, intent
  <2>6. IntentsSeen[t] = front
    BY <1>1, <2>1, <2>4
  <2>7. [IntentsSeen EXCEPT ![t] = Append(@, intent)] = intents
    BY <1>1, <1>2, <2>1, <2>3, <2>4
  <2>8. QED
    BY <2>2, <2>3, <2>5, <2>6, <2>7
<1>8. orders' = [orders EXCEPT ![t] = Append(@, NewOrder(t, job.lines))]
  BY DEF PlaceOrder
<1>9. reply' = "ok"
      /\ trail' = <<"checkout.inventory.reserved", "payment.intent.created",
                    "order.created", "checkout.completed">>
  <2>1. /\ "checkout.inventory.reserved" \in Events /\ "payment.intent.created" \in Events
        /\ "order.created" \in Events /\ "checkout.completed" \in Events
    BY DEF Events
  <2>2. QED
    BY <1>2, <2>1, ConcatEvents DEF PlaceOrder, Answer
<1>10. /\ NewOrder(t, job.lines) = Atomic!NewOrder(t, job.lines)
       /\ intent = Atomic!NewIntent(t, job.provider, Atomic!QuoteTotal(job.lines), Currency[t])
       /\ \A p : UnitsOf(job.lines, Len(job.lines), p)
                   = Atomic!UnitsOf(job.lines, Len(job.lines), p)
  BY DEF NewOrder, Atomic!NewOrder, NewIntent, Atomic!NewIntent, ChosenProvider,
         Atomic!ChosenProvider, QuoteTotal, Atomic!QuoteTotal, Subtotal, Atomic!Subtotal,
         UnitsOf, Atomic!UnitsOf
<1>11. QED
  BY <1>2, <1>4, <1>5, <1>6, <1>7, <1>8, <1>9, <1>10 DEF Atomic!Succeed, Atomic!Answer

LEMMA ReportFailureSeen ==
  ASSUME IInv, ReportFailure
  PROVE  Atomic!Fail(job.tenant, job.lines, job.provider)
<1>. USE DEF IInv
<1>1. /\ job # NoJob /\ job.phase = "rollback" /\ job.tenant \in Tenants
      /\ job.lines \in CartLines(job.tenant) /\ job' = NoJob /\ job.held = 0
      /\ UNCHANGED <<stock, intents, orders>>
      /\ reply' = "rejected" /\ trail' = Append(job.events, "checkout.failed")
  BY BusyJob, JobFacts DEF ReportFailure, Busy, Phases, Answer
<1>2. StockSeen' = StockSeen
  <2>1. \A p \in Products : Held(p) = 0 /\ Held(p)' = 0
    BY <1>1, UnitsOfNone DEF Held
  <2>2. QED
    BY <1>1, <2>1 DEF StockSeen
<1>3. IntentsSeen' = IntentsSeen
  BY <1>1 DEF IntentsSeen, Busy, NoJob
<1>4. Atomic!Enough(job.tenant, job.lines) <=> \A i \in DOMAIN job.lines : ~Short(i)
  <2>1. DOMAIN job.lines = 1 .. Len(job.lines)
    BY <1>1, CartLinesFacts
  <2>2. QED
    BY <1>1, <2>1, SeenLine DEF Atomic!Enough
<1>5. Atomic!Charged(job.tenant, job.lines, job.provider) <=> ChargeAccepted
  BY DEF Atomic!Charged, ChargeAccepted, IntentAccepted, Atomic!IntentAccepted,
         ChosenProvider, Atomic!ChosenProvider, QuoteTotal, Atomic!QuoteTotal,
         Subtotal, Atomic!Subtotal
<1>6. CASE job.events = << >> /\ \E i \in DOMAIN job.lines : Short(i)
  <2>1. trail' = <<"checkout.failed">>
    BY <1>1, <1>6
  <2>2. QED
    BY <1>1, <1>2, <1>3, <1>4, <1>6, <2>1 DEF Atomic!Fail
<1>7. CASE /\ job.events = <<"checkout.inventory.reserved">>
           /\ ~ChargeAccepted /\ \A i \in DOMAIN job.lines : ~Short(i)
  <2>1. trail' = <<"checkout.inventory.reserved", "checkout.failed">>
    <3>1. "checkout.inventory.reserved" \in Events /\ "checkout.failed" \in Events
      BY DEF Events
    <3>2. QED
      BY <1>1, <1>7, <3>1, AppendEvent
  <2>2. QED
    BY <1>1, <1>2, <1>3, <1>4, <1>5, <1>7, <2>1 DEF Atomic!Fail
<1>8. QED
  BY <1>1, <1>6, <1>7 DEF RollbackJustified, Busy

-----------------------------------------------------------------------------
(* Single requests *)

LEMMA OtherSeen ==
  ASSUME IInv, Other, TypeOK'
  PROVE  Atomic!SingleRequest
<1>1. job = NoJob /\ job' = NoJob
  BY DEF Other
<1>2. StockSeen = stock /\ IntentsSeen = intents
  BY <1>1, SeenIdle DEF IInv, TypeOK
<1>3. StockSeen' = stock' /\ IntentsSeen' = intents'
  <2>1. \A p \in Products : Held(p)' = 0
    BY <1>1 DEF Held
  <2>2. \A p \in Products :
          [available |-> stock'[p].available + Held(p)',
           reserved |-> stock'[p].reserved - Held(p)'] = stock'[p]
    BY <2>1 DEF TypeOK, StockLevel
  <2>3. stock' \in [Products -> StockLevel]
    BY DEF TypeOK
  <2>4. StockSeen' = stock'
    BY <2>2, <2>3 DEF StockSeen
  <2>5. QED
    BY <1>1, <2>4 DEF IntentsSeen, Busy, NoJob
<1>4. ASSUME NEW p \in Products, NEW q \in Quantities, Reserve(p, q)
      PROVE  Atomic!Reserve(p, q)
  BY <1>2, <1>3, <1>4
     DEF Reserve, CanReserve, Move, Answer,
         Atomic!Reserve, Atomic!CanReserve, Atomic!Move, Atomic!Answer
<1>5. ASSUME NEW p \in Products, NEW q \in Quantities, Release(p, q)
      PROVE  Atomic!Release(p, q)
  BY <1>2, <1>3, <1>5
     DEF Release, CanRelease, Move, Answer,
         Atomic!Release, Atomic!CanRelease, Atomic!Move, Atomic!Answer
<1>6. ASSUME NEW t \in Tenants, CreateOrder(t)
      PROVE  Atomic!CreateOrder(t)
  <2>1. NewOrder(t, DefaultCart[t]) = Atomic!NewOrder(t, DefaultCart[t])
    BY DEF NewOrder, Atomic!NewOrder, QuoteTotal, Atomic!QuoteTotal, Subtotal, Atomic!Subtotal
  <2>2. QED
    BY <1>2, <1>3, <1>6, <2>1 DEF CreateOrder, Answer, Atomic!CreateOrder, Atomic!Answer
<1>7. ASSUME NEW t \in Tenants, NEW provider \in RequestedProviders,
             NEW a \in RequestAmounts, NEW c \in RequestCurrencies,
             CreateIntent(t, provider, a, c)
      PROVE  Atomic!CreateIntent(t, provider, a, c)
  <2>1. /\ NewIntent(t, provider, a, c) = Atomic!NewIntent(t, provider, a, c)
        /\ IntentAccepted(t, provider, a, c) <=> Atomic!IntentAccepted(t, provider, a, c)
    BY DEF NewIntent, Atomic!NewIntent, IntentAccepted, Atomic!IntentAccepted,
           ChosenProvider, Atomic!ChosenProvider
  <2>2. QED
    BY <1>2, <1>3, <1>7, <2>1 DEF CreateIntent, Answer, Atomic!CreateIntent, Atomic!Answer
<1>8. ASSUME NEW t \in Tenants, NEW i \in DOMAIN intents[t], NEW s, NEW e, Settle(t, i, s, e)
      PROVE  Atomic!Settle(t, i, s, e)
  BY <1>2, <1>3, <1>8 DEF Settle, Answer, Atomic!Settle, Atomic!Answer
<1>9. ASSUME NEW t \in Tenants, NEW i \in DOMAIN intents[t],
             AuthorizeIntent(t, i) \/ CaptureIntent(t, i) \/ RefundIntent(t, i)
      PROVE  \/ Atomic!AuthorizeIntent(t, i) \/ Atomic!CaptureIntent(t, i)
             \/ Atomic!RefundIntent(t, i)
  BY <1>8, <1>9
     DEF AuthorizeIntent, CaptureIntent, RefundIntent,
         Atomic!AuthorizeIntent, Atomic!CaptureIntent, Atomic!RefundIntent
<1>10. ASSUME RejectRequest
       PROVE  Atomic!RejectRequest
  BY <1>2, <1>3, <1>10 DEF RejectRequest, Answer, Atomic!RejectRequest, Atomic!Answer
<1>11. /\ Quantities = Atomic!Quantities /\ RequestedProviders = Atomic!RequestedProviders
  BY DEF Quantities, Atomic!Quantities, RequestedProviders, Atomic!RequestedProviders
<1>12. QED
  BY <1>2, <1>4, <1>5, <1>6, <1>7, <1>9, <1>10, <1>11
     DEF Other, SingleRequest, Atomic!SingleRequest

-----------------------------------------------------------------------------
(* Refinement *)

LEMMA RefinementInit ==
  Init => Atomic!ShopInit
<1>1. ASSUME Init PROVE Atomic!ShopInit
  <2>1. TypeOK /\ job = NoJob
    BY <1>1, TypeInit DEF Init
  <2>2. StockSeen = stock /\ IntentsSeen = intents
    BY <2>1, SeenIdle DEF TypeOK
  <2>3. QED
    BY <1>1, <2>2 DEF Init, ShopInit, Atomic!ShopInit
<1>2. QED
  BY <1>1

LEMMA RefinementNext ==
  IInv /\ IInv' /\ [Next]_vars => [Atomic!Next]_(Atomic!shopVars)
<1>. SUFFICES ASSUME IInv, IInv', [Next]_vars
              PROVE  [Atomic!Next]_(Atomic!shopVars)
  OBVIOUS
<1>1. RequestedProviders = Atomic!RequestedProviders
      /\ \A t : CartLines(t) = Atomic!CartLines(t)
  BY DEF RequestedProviders, Atomic!RequestedProviders, CartLines, Atomic!CartLines,
         Line, Atomic!Line, Quantities, Atomic!Quantities, Catalog, Atomic!Catalog
<1>2. CASE PlaceOrder
  <2>1. job.tenant \in Tenants /\ job.lines \in CartLines(job.tenant)
        /\ job.provider \in RequestedProviders
    BY <1>2, BusyJob, JobFacts DEF PlaceOrder, Phases, IInv
  <2>2. QED
    BY <1>1, <1>2, <2>1, PlaceOrderSeen DEF Atomic!Next, Atomic!CheckOut
<1>3. CASE ReportFailure
  <2>1. job.tenant \in Tenants /\ job.lines \in CartLines(job.tenant)
        /\ job.provider \in RequestedProviders
    BY <1>3, BusyJob, JobFacts DEF ReportFailure, Phases, IInv
  <2>2. QED
    BY <1>1, <1>3, <2>1, ReportFailureSeen DEF Atomic!Next, Atomic!CheckOut
<1>4. CASE Step /\ ~PlaceOrder /\ ~ReportFailure
  BY <1>4, HiddenSteps DEF Atomic!shopVars
<1>5. CASE Other
  BY <1>5, OtherSeen DEF Atomic!Next, IInv
<1>6. ASSUME NEW t \in Tenants, NEW provider \in RequestedProviders,
             NEW lines \in CartLines(t), BeginCheckout(t, lines, provider)
      PROVE  UNCHANGED Atomic!shopVars
  <2>1. /\ job = NoJob /\ job'.lines = lines /\ job'.held = 0
        /\ job'.phase = "reserving"
        /\ UNCHANGED <<stock, intents, orders, reply, trail>>
    BY <1>6 DEF BeginCheckout
  <2>2. \A r : Held(r) = 0 /\ Held(r)' = 0
    BY <2>1, UnitsOfNone DEF Held
  <2>3. StockSeen' = StockSeen
    BY <2>1, <2>2 DEF StockSeen
  <2>4. IntentsSeen' = IntentsSeen
    BY <2>1 DEF IntentsSeen, Busy, NoJob
  <2>5. QED
    BY <2>1, <2>3, <2>4 DEF Atomic!shopVars
<1>7. CASE UNCHANGED vars
  BY <1>7 DEF vars, Atomic!shopVars, StockSeen, IntentsSeen, Held, Busy
<1>8. QED
  BY <1>2, <1>3, <1>4, <1>5, <1>6, <1>7 DEF Next

\* Clients may think of POST /checkout as one indivisible step that places an
\* order with its reservations and its intent, or leaves the three services as
\* they were.
THEOREM CheckoutIsAtomic == Spec => AtomicSpec
<1>1. IInv /\ IInv' /\ [Next]_vars => [Atomic!Next]_(Atomic!shopVars)
  BY RefinementNext
<1>2. Spec => [](IInv)
  BY Invariance
<1>3. QED
  BY <1>1, <1>2, RefinementInit, PTL DEF Spec, AtomicSpec, Atomic!Spec
=============================================================================
