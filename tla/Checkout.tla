------------------------------ MODULE Checkout ------------------------------
(***************************************************************************)
(* POST /checkout as CheckoutController runs it: a loop that reserves one  *)
(* line after the other, then the payment intent, then the order, and a    *)
(* catch block that releases the lines reserved so far, last one first.    *)
(* Every service call is a step.  The handler is synchronous, so no other  *)
(* request runs while job holds one.  reserve and createIntent may throw.  *)
(***************************************************************************)
EXTENDS Shop

VARIABLE job   \* the checkout being handled, or NoJob

vars == <<stock, intents, orders, reply, trail, job>>

NoJob == [phase |-> "none"]
Phases == {"reserving", "charging", "ordering", "rollback"}

\* held counts the reservations pushed so far: lines 1 .. held are reserved.
\* events is what this request has published so far.
JobOf(t) ==
  [phase : Phases, tenant : {t}, lines : CartLines(t), provider : RequestedProviders,
   held : 0 .. MaxLines, events : Seq(Events)]
Jobs == UNION {JobOf(t) : t \in Tenants}

Busy(phase) == job.phase = phase

Init == ShopInit /\ job = NoJob

-----------------------------------------------------------------------------

\* The cart was found and is not empty; the quote is drawn from its lines.
BeginCheckout(t, lines, provider) ==
  /\ job = NoJob
  /\ Len(orders[t]) < MaxOrders
  /\ Len(intents[t]) < MaxIntents
  /\ job' = [phase |-> "reserving", tenant |-> t, lines |-> lines,
             provider |-> provider, held |-> 0, events |-> << >>]
  /\ UNCHANGED <<stock, intents, orders, reply, trail>>

NextLine == job.lines[job.held + 1]
LastHeld == job.lines[job.held]

\* Faulty... as in Shop: one unit is reserved whatever the line asks for
FaultyReserveLine ==
  /\ Busy("reserving")
  /\ job.held < Len(job.lines)
  /\ CanReserve(stock, NextLine.product, NextLine.quantity)
  /\ stock' = Move(stock, NextLine.product, 1)
  /\ job' = [job EXCEPT !.held = @ + 1]
  /\ UNCHANGED <<intents, orders, reply, trail>>

ReserveLine ==
  /\ Busy("reserving")
  /\ job.held < Len(job.lines)
  /\ CanReserve(stock, NextLine.product, NextLine.quantity)
  /\ stock' = Move(stock, NextLine.product, NextLine.quantity)
  /\ job' = [job EXCEPT !.held = @ + 1]
  /\ UNCHANGED <<intents, orders, reply, trail>>

\* the reservation is pushed before reserve is called
FaultyReserveThrows ==
  /\ Busy("reserving")
  /\ job.held < Len(job.lines)
  /\ ~CanReserve(stock, NextLine.product, NextLine.quantity)
  /\ job' = [job EXCEPT !.phase = "rollback", !.held = @ + 1]
  /\ UNCHANGED <<stock, intents, orders, reply, trail>>

ReserveThrows ==
  /\ Busy("reserving")
  /\ job.held < Len(job.lines)
  /\ ~CanReserve(stock, NextLine.product, NextLine.quantity)
  /\ job' = [job EXCEPT !.phase = "rollback"]
  /\ UNCHANGED <<stock, intents, orders, reply, trail>>

\* the reservations are not announced
FaultyAllReserved ==
  /\ Busy("reserving")
  /\ job.held = Len(job.lines)
  /\ job' = [job EXCEPT !.phase = "charging"]
  /\ UNCHANGED <<stock, intents, orders, reply, trail>>

AllReserved ==
  /\ Busy("reserving")
  /\ job.held = Len(job.lines)
  /\ job' = [job EXCEPT !.phase = "charging",
                        !.events = Append(@, "checkout.inventory.reserved")]
  /\ UNCHANGED <<stock, intents, orders, reply, trail>>

ChargeAccepted ==
  IntentAccepted(job.tenant, job.provider, QuoteTotal(job.lines), Currency[job.tenant])

\* storeIntent forgets the intents stored before
FaultyCharge ==
  /\ Busy("charging")
  /\ ChargeAccepted
  /\ intents' = [intents EXCEPT ![job.tenant] =
       <<NewIntent(job.tenant, job.provider, QuoteTotal(job.lines), Currency[job.tenant])>>]
  /\ job' = [job EXCEPT !.phase = "ordering"]
  /\ UNCHANGED <<stock, orders, reply, trail>>

Charge ==
  /\ Busy("charging")
  /\ ChargeAccepted
  /\ intents' = [intents EXCEPT ![job.tenant] =
       Append(@, NewIntent(job.tenant, job.provider, QuoteTotal(job.lines),
                           Currency[job.tenant]))]
  /\ job' = [job EXCEPT !.phase = "ordering"]
  /\ UNCHANGED <<stock, orders, reply, trail>>

\* a refused payment is swallowed
FaultyChargeThrows ==
  /\ Busy("charging")
  /\ ~ChargeAccepted
  /\ job' = [job EXCEPT !.phase = "ordering"]
  /\ UNCHANGED <<stock, intents, orders, reply, trail>>
\* every tenant but those selling in dollars is refused
FaultyChargeThrowsAbroad ==
  /\ Busy("charging")
  /\ Currency[job.tenant] # "USD"
  /\ job' = [job EXCEPT !.phase = "rollback"]
  /\ UNCHANGED <<stock, intents, orders, reply, trail>>

ChargeThrows ==
  /\ Busy("charging")
  /\ ~ChargeAccepted
  /\ job' = [job EXCEPT !.phase = "rollback"]
  /\ UNCHANGED <<stock, intents, orders, reply, trail>>

PlaceOrder ==
  /\ Busy("ordering")
  /\ orders' = [orders EXCEPT ![job.tenant] =
                  Append(@, NewOrder(job.tenant, job.lines))]
  /\ Answer("ok", job.events \o <<"payment.intent.created", "order.created",
                                  "checkout.completed">>)
  /\ job' = NoJob
  /\ UNCHANGED <<stock, intents>>

\* the same line is released over and over
FaultyReleaseLine ==
  /\ Busy("rollback")
  /\ job.held > 0
  /\ CanRelease(stock, LastHeld.product, LastHeld.quantity)
  /\ stock' = Move(stock, LastHeld.product, -LastHeld.quantity)
  /\ UNCHANGED <<intents, orders, reply, trail, job>>

\* One turn of the loop in the catch block.  release throws when less is
\* reserved than the line asks back; nothing catches that a second time, so
\* the handler would be stuck here.  RollbackCovered says it never happens.
ReleaseLine ==
  /\ Busy("rollback")
  /\ job.held > 0
  /\ CanRelease(stock, LastHeld.product, LastHeld.quantity)
  /\ stock' = Move(stock, LastHeld.product, -LastHeld.quantity)
  /\ job' = [job EXCEPT !.held = @ - 1]
  /\ UNCHANGED <<intents, orders, reply, trail>>

\* the failure is reported with lines still reserved
FaultyReportFailure ==
  /\ Busy("rollback")
  /\ Answer("rejected", Append(job.events, "checkout.failed"))
  /\ job' = NoJob
  /\ UNCHANGED <<stock, intents, orders>>

ReportFailure ==
  /\ Busy("rollback")
  /\ job.held = 0
  /\ Answer("rejected", Append(job.events, "checkout.failed"))
  /\ job' = NoJob
  /\ UNCHANGED <<stock, intents, orders>>

Step ==
  \/ ReserveLine \/ ReserveThrows \/ AllReserved \/ Charge \/ ChargeThrows
  \/ PlaceOrder \/ ReleaseLine \/ ReportFailure

Other == job = NoJob /\ SingleRequest /\ UNCHANGED job

Next ==
  \/ \E t \in Tenants, provider \in RequestedProviders :
       \E lines \in CartLines(t) : BeginCheckout(t, lines, provider)
  \/ Step
  \/ Other

\* A synchronous handler that has begun is run to its end.
Spec == Init /\ [][Next]_vars /\ WF_vars(Step)

-----------------------------------------------------------------------------
(* Properties *)

TypeOK ==
  /\ stock \in [Products -> StockLevel]
  /\ intents \in [Tenants -> Seq(Intent)]
  /\ orders \in [Tenants -> Seq(Order)]
  /\ reply \in {"none", "ok", "rejected"}
  /\ trail \in Seq(Events)
  /\ job \in Jobs \cup {NoJob}

\* Units are never made or lost: whatever is reserved, released and rolled
\* back, available + reserved of a row is what it was at start-up
\* (inventory.service.ts).
StockConserved ==
  \A p \in Products :
    stock[p].available + stock[p].reserved
      = InitialStock[p].available + InitialStock[p].reserved

\* Each reservation pushed by the loop can still be released, so the release
\* calls of the catch block never throw (checkout.controller.ts 181-188).
RollbackCovered ==
  job # NoJob =>
    \A i \in 1 .. job.held :
      CanRelease(stock, job.lines[i].product, job.lines[i].quantity)

\* What a running checkout has announced and charged matches how far it got:
\* nothing is announced before every line is held, nothing is charged before
\* that is announced, and then the newest intent is the one it will be billed.
JobShape ==
  job # NoJob =>
    /\ job.held <= Len(job.lines)
    /\ Busy("reserving") => job.events = << >>
    /\ Busy("charging") \/ Busy("ordering") =>
         /\ job.held = Len(job.lines)
         /\ job.events = <<"checkout.inventory.reserved">>
    /\ Len(orders[job.tenant]) < MaxOrders
    /\ ~Busy("ordering") => Len(intents[job.tenant]) < MaxIntents
    /\ Busy("ordering") =>
         /\ ChargeAccepted
         /\ Len(intents[job.tenant]) \in 1 .. MaxIntents
         /\ intents[job.tenant][Len(intents[job.tenant])] =
              NewIntent(job.tenant, job.provider, QuoteTotal(job.lines),
                        Currency[job.tenant])

\* A rollback runs for the reason the client is told: before anything was
\* published some line was short of the stock that the shelf and this checkout
\* have together, after that no line was and the provider refused.
Held(p) == IF job = NoJob THEN 0 ELSE UnitsOf(job.lines, job.held, p)
Short(i) ==
  stock[job.lines[i].product].available + Held(job.lines[i].product)
    < job.lines[i].quantity
RollbackJustified ==
  Busy("rollback") =>
    \/ job.events = << >> /\ \E i \in DOMAIN job.lines : Short(i)
    \/ /\ job.events = <<"checkout.inventory.reserved">>
       /\ ~ChargeAccepted /\ \A i \in DOMAIN job.lines : ~Short(i)

\* Orders and intents are a ledger: a step may add one at the end and change
\* the status of an intent, never drop an entry or alter its money.
SameMoney(a, b) ==
  a.provider = b.provider /\ a.amount = b.amount /\ a.currency = b.currency
LedgerKept ==
  \A t \in Tenants :
    /\ Len(orders[t]) <= Len(orders'[t]) /\ Len(intents[t]) <= Len(intents'[t])
    /\ \A i \in 1 .. Len(orders[t]) : orders'[t][i] = orders[t][i]
    /\ \A i \in 1 .. Len(intents[t]) : SameMoney(intents'[t][i], intents[t][i])
LedgerAppendOnly == [][LedgerKept]_vars

\* Every checkout is answered.
CheckoutEnds == (job # NoJob) ~> (job = NoJob)

\* Clients see POST /checkout as one step: the specification AtomicCheckout,
\* with the units held by the running checkout put back on the shelf and its
\* intent hidden until the order is placed.
StockSeen ==
  [p \in Products |-> [available |-> stock[p].available + Held(p),
                       reserved |-> stock[p].reserved - Held(p)]]
IntentsSeen ==
  IF Busy("ordering")
  THEN [intents EXCEPT ![job.tenant] = SubSeq(@, 1, Len(@) - 1)]
  ELSE intents
Atomic == INSTANCE AtomicCheckout WITH stock <- StockSeen, intents <- IntentsSeen
AtomicSpec == Atomic!Spec

\* Checkout never sells the same unit twice: the units of a row that placed
\* orders and the running checkout claim were reserved since start-up.  Only
\* with clients that send neither manual releases nor fixture orders.
UnitsSold(placed, p) ==
  FoldLeft(LAMBDA sum, o : sum + UnitsOf(o.lines, Len(o.lines), p), 0, placed)
UnitsOrdered(p) == UnitsSold(orders[TenantOf[p]], p)
OrdersBacked ==
  \A p \in Products :
    UnitsOrdered(p) + Held(p) <= stock[p].reserved - InitialStock[p].reserved

\* With no fixture orders and no intents created by hand, the i-th order of a
\* tenant is charged by its i-th intent, for the same total and currency, and
\* between requests no intent is left without an order.
EveryOrderCharged ==
  \A t \in Tenants :
    /\ Len(orders[t]) <= Len(intents[t])
    /\ job = NoJob => Len(orders[t]) = Len(intents[t])
    /\ \A i \in DOMAIN orders[t] :
         /\ intents[t][i].amount = orders[t][i].total
         /\ intents[t][i].currency = orders[t][i].currency

-----------------------------------------------------------------------------
(* What the documentation says and the code does not do *)

\* "Order creation on successful payment" (FEATURE_CHECKLIST.md): an order of
\* a checkout stands for a payment that went through.
OrderAfterPayment ==
  \A t \in Tenants : \A i \in DOMAIN orders[t] :
    intents[t][i].status \in {"authorized", "captured", "refunded"}

\* A tenant's payment configuration lists the currencies its provider takes
\* (payments.service.ts): a checkout that leaves the provider to it, in one of
\* them, is not refused by the payment service.
DefaultProviderCharges ==
  (/\ Busy("rollback")
   /\ job.provider = NoProvider
   /\ Currency[job.tenant] \in ConfiguredCurrencies[job.tenant])
    => job.events = << >>
=============================================================================
