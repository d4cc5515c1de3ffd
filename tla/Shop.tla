------------------------------- MODULE Shop -------------------------------
(***************************************************************************)
(* The commerce state of the engine and the requests that touch it in one  *)
(* service call: inventory, payment intents and orders, each kept by one   *)
(* in-memory service per tenant.  Checkout, which needs all three services *)
(* in several calls, is added by the modules that extend this one.         *)
(*                                                                         *)
(* A product stands for one row of one tenant's stock table, so stock is   *)
(* indexed by product alone and TenantOf says whose row it is.  Intents    *)
(* and orders are kept oldest first and identified by their position: the  *)
(* code prepends them and draws a random id.                               *)
(***************************************************************************)
EXTENDS Integers, Sequences, SequencesExt

CONSTANTS
  Tenants,            \* tenant ids
  Products,           \* rows of the stock tables, all tenants together
  TenantOf,           \* the tenant a row belongs to
  Price,              \* unit price, in the smallest unit of the currency
  InitialStock,       \* the [available, reserved] a row starts with
  LowThreshold,       \* lowStockThreshold of a row
  Currency,           \* the configured currency of a tenant
  DefaultCart,        \* the fixture cart behind POST /orders
  Providers,          \* registered payment adapters
  AdapterCurrencies,  \* supportedCurrencies of an adapter
  DefaultProvider,    \* PROVIDER_BY_TENANT: the provider a tenant uses
  ConfiguredCurrencies, \* and the supportedCurrencies it lists, never read
  NoProvider,         \* a request that names no provider
  UnknownProvider,    \* a request that names one that is not registered
  RequestAmounts,     \* bodies of POST /payments/intents: amounts
  RequestCurrencies,  \* and currencies
  MaxQuantity,        \* bound: units in one cart line or stock request
  MaxLines,           \* bound: lines in one cart
  MaxOrders,          \* bound: orders per tenant
  MaxIntents,         \* bound: intents per tenant
  Traffic             \* the kinds of single requests clients send

Kinds == {"reserve", "release", "order", "intent", "settle"}
Quantities == 1 .. MaxQuantity
Line == [product : Products, quantity : Quantities]
Catalog(t) == {p \in Products : TenantOf[p] = t}

\* What the cart hands to a checkout: some lines, no product on two of them,
\* all from the tenant's catalogue.
CartLines(t) ==
  {ls \in UNION {[1 .. n -> Line] : n \in 1 .. MaxLines} :
     /\ \A i \in DOMAIN ls : ls[i].product \in Catalog(t)
     /\ \A i, j \in DOMAIN ls : ls[i].product = ls[j].product => i = j}

\* The units of row p on the first n lines: no row is on two of them.
UnitsOf(lines, n, p) ==
  IF \E i \in 1 .. n : lines[i].product = p
  THEN lines[CHOOSE i \in 1 .. n : lines[i].product = p].quantity
  ELSE 0

StockLevel == [available : Nat, reserved : Nat]

ASSUME ShopAssumption ==
  /\ MaxQuantity \in Nat /\ MaxLines \in Nat
  /\ MaxOrders \in Nat /\ MaxIntents \in Nat
  /\ TenantOf \in [Products -> Tenants]
  /\ Price \in [Products -> Nat]
  /\ InitialStock \in [Products -> StockLevel]
  /\ LowThreshold \in [Products -> Nat]
  /\ \A t \in Tenants : DefaultCart[t] \in CartLines(t)
  /\ \A t \in Tenants : DefaultProvider[t] \in Providers
  /\ NoProvider \notin Providers /\ UnknownProvider \notin Providers
  /\ NoProvider # UnknownProvider
  /\ Traffic \subseteq Kinds

VARIABLES
  stock,    \* stockByTenant: [available, reserved] of every row
  intents,  \* intentsByTenant
  orders,   \* ordersByTenant
  reply,    \* how the last finished request was answered
  trail     \* the events the last finished request published, in order

-----------------------------------------------------------------------------
(* Quotes *)

Subtotal(lines) ==
  LET sum[n \in 0 .. Len(lines)] ==
        IF n = 0 THEN 0
        ELSE sum[n - 1] + Price[lines[n].product] * lines[n].quantity
  IN  sum[Len(lines)]

\* Ten percent off, then 7.5% tax on the rest, both rounded down.
QuoteTotal(lines) ==
  LET taxable == Subtotal(lines) - (Subtotal(lines) \div 10)
  IN  taxable + (taxable * 75) \div 1000

Totals == UNION {{QuoteTotal(ls) : ls \in CartLines(t)} : t \in Tenants}
Currencies == {Currency[t] : t \in Tenants} \cup RequestCurrencies

-----------------------------------------------------------------------------
(* The three services *)

\* Definitions named Faulty... are variants with a bug the code could have had.
\* No specification uses one: each stands in for the definition after it when
\* the properties themselves are tested.

\* the reserved counter is forgotten
FaultyMove(s, p, q) == [s EXCEPT ![p].available = @ - q]

\* q units of row p go from available to reserved (q < 0: come back).
Move(s, p, q) ==
  [s EXCEPT ![p] = [available |-> @.available - q, reserved |-> @.reserved + q]]

\* any stock at all will do
FaultyCanReserve(s, p, q) == s[p].available > 0
\* the last unit cannot be sold
FaultyCanReserveStrictly(s, p, q) == s[p].available > q
CanReserve(s, p, q) == s[p].available >= q
CanRelease(s, p, q) == s[p].reserved >= q

RequestedProviders == Providers \cup {NoProvider, UnknownProvider}
ChosenProvider(t, provider) ==
  IF provider = NoProvider THEN DefaultProvider[t] ELSE provider

\* createIntent throws unless the amount is positive, the provider is
\* registered and its adapter supports the currency.
IntentAccepted(t, provider, amount, currency) ==
  /\ amount > 0
  /\ ChosenProvider(t, provider) \in Providers
  /\ currency \in AdapterCurrencies[ChosenProvider(t, provider)]

NewIntent(t, provider, amount, currency) ==
  [provider |-> ChosenProvider(t, provider), amount |-> amount,
   currency |-> currency, status |-> "pending"]

NewOrder(t, lines) ==
  [lines |-> lines, total |-> QuoteTotal(lines), currency |-> Currency[t],
   status |-> "confirmed"]

Statuses == {"pending", "authorized", "captured", "refunded"}
Intent == [provider : Providers, amount : Totals \cup RequestAmounts,
           currency : Currencies, status : Statuses]
Order == [lines : UNION {CartLines(t) : t \in Tenants}, total : Totals,
          currency : Currencies, status : {"confirmed"}]
Events == {"inventory.low", "inventory.reserved", "inventory.released",
           "payment.intent.created", "payment.intent.authorized",
           "payment.intent.captured", "payment.intent.refunded",
           "order.created", "checkout.inventory.reserved",
           "checkout.completed", "checkout.failed"}

ShopInit ==
  /\ stock = InitialStock
  /\ intents = [t \in Tenants |-> << >>]
  /\ orders = [t \in Tenants |-> << >>]
  /\ reply = "none"
  /\ trail = << >>

Answer(r, published) == reply' = r /\ trail' = published

-----------------------------------------------------------------------------
(* Requests of one service call *)

\* POST /inventory/reserve/:productId
Reserve(p, q) ==
  /\ "reserve" \in Traffic
  /\ CanReserve(stock, p, q)
  /\ stock' = Move(stock, p, q)
  /\ Answer("ok", IF stock'[p].available <= LowThreshold[p]
                  THEN <<"inventory.low", "inventory.reserved">>
                  ELSE <<"inventory.reserved">>)
  /\ UNCHANGED <<intents, orders>>

\* POST /inventory/release/:productId
Release(p, q) ==
  /\ "release" \in Traffic
  /\ CanRelease(stock, p, q)
  /\ stock' = Move(stock, p, -q)
  /\ Answer("ok", <<"inventory.released">>)
  /\ UNCHANGED <<intents, orders>>

\* POST /orders: an order for the fixture cart, with no stock and no payment.
CreateOrder(t) ==
  /\ "order" \in Traffic
  /\ Len(orders[t]) < MaxOrders
  /\ orders' = [orders EXCEPT ![t] = Append(@, NewOrder(t, DefaultCart[t]))]
  /\ Answer("ok", <<"order.created">>)
  /\ UNCHANGED <<stock, intents>>

\* POST /payments/intents
CreateIntent(t, provider, amount, currency) ==
  /\ "intent" \in Traffic
  /\ Len(intents[t]) < MaxIntents
  /\ IntentAccepted(t, provider, amount, currency)
  /\ intents' = [intents EXCEPT ![t] =
                   Append(@, NewIntent(t, provider, amount, currency))]
  /\ Answer("ok", <<"payment.intent.created">>)
  /\ UNCHANGED <<stock, orders>>

\* POST /payments/intents/:intentId/{authorize,capture,refund}: the mock
\* adapter answers with the status asked for, whatever the status before.
Settle(t, i, status, event) ==
  /\ "settle" \in Traffic
  /\ intents' = [intents EXCEPT ![t][i].status = status]
  /\ Answer("ok", <<event>>)
  /\ UNCHANGED <<stock, orders>>

AuthorizeIntent(t, i) == Settle(t, i, "authorized", "payment.intent.authorized")
CaptureIntent(t, i) == Settle(t, i, "captured", "payment.intent.captured")
RefundIntent(t, i) == Settle(t, i, "refunded", "payment.intent.refunded")

\* Any request refused before it changed anything: an unknown cart, product or
\* intent, an empty cart, a quantity or an amount that is not positive, too
\* little stock, a currency the adapter lacks.
RejectRequest ==
  /\ Answer("rejected", << >>)
  /\ UNCHANGED <<stock, intents, orders>>

SingleRequest ==
  \/ \E p \in Products, q \in Quantities : Reserve(p, q) \/ Release(p, q)
  \/ \E t \in Tenants :
       \/ CreateOrder(t)
       \/ \E provider \in RequestedProviders, a \in RequestAmounts, c \in RequestCurrencies :
            CreateIntent(t, provider, a, c)
       \/ \E i \in DOMAIN intents[t] :
            AuthorizeIntent(t, i) \/ CaptureIntent(t, i) \/ RefundIntent(t, i)
  \/ RejectRequest
=============================================================================
