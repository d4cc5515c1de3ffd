# Oja: models, checks and proofs

Oja is a multi-tenant commerce backend: a Go gateway in front of a TypeScript
engine (NestJS) whose plugins keep their state in memory, tenant by tenant. This
directory holds TLA+ modules that model the engine's core, the rate limiter of
the gateway and the migrations of the database, TLC configurations that check
them on small instances, and theorems that TLAPS proves for every instance.
Paths are those of the repository, below `src/`.

## 1. Inventory of the system

Every engine handler is a synchronous function on one JavaScript thread: it
runs to its end before the next request starts. Only the tenant middleware
awaits (a database lookup), before the handler. So requests interleave, steps
of one handler do not; what is hard is what a handler leaves behind when one of
its calls throws, and what a long sequence of legal requests adds up to. The
engine persists nothing: a restart empties its state, so it has no recovery.
Around it run three things that are concurrent: the goroutines of the gateway,
which share counters in Redis; the migration scripts of deployments, which share
a database; and the engine's own lookups of API keys in that database.

| Component | State | Operations | Hard part, and what makes it correct |
|---|---|---|---|
| Checkout (`plugins/checkout`) | none of its own; locals of the handler | quote; POST /checkout: reserve each line, create intent, create order, or roll back | a call in the middle throws. Clients see all or nothing; the rollback itself never throws; it runs only for its reason |
| Inventory (`plugins/inventory`) | available/reserved per product | reserve, release (by request and from checkout) | units are conserved; no unit is sold twice |
| Payments (`plugins/payments`) | list of intents | create, authorize, capture, refund | unguarded transitions; the money of an intent never changes; every order is charged |
| Orders (`plugins/orders`) | list of orders | from a checkout, from the fixture cart | orders are never rewritten; backed by stock and by an intent |
| Cart (`plugins/cart`) | list of carts with owner and lines | create or merge, add, update, remove | merging by customer *or* session, item by item, failing half way: one cart per owner, one line per product |
| Catalog (`plugins/catalog`) | fixed tables | read | - |
| Discounts (`plugins/discounts`) | rules | evaluate | the sum of several rules is capped; not used by checkout |
| Webhooks (`platform/webhooks`) | registrations, log of 100 deliveries | register, remove, test, fan-out of events, manual retry | the log is the retry queue and drops its oldest entries; back-off, limit of attempts, removal while waiting |
| Event bus (`services/event-bus`) | last 100 events, subscribers | publish (synchronous) | order of events; a subscriber that throws throws into the publisher |
| Audit log (`services/audit-log`) | last 500 entries of all tenants | record, list | one tenant's entries push out another's |
| Notifications (`platform/notifications`) | last 100 e-mails per tenant | send | the e-mail, its event and its audit entry go to three logs with limits of their own |
| Plugin registry (`services/plugin-registry`) | the registry, validated at start-up | validate, resolve enabled plugins | two recursions, one relying on the other; exactly the plugins needed, in order |
| Plugin context (`services`) | none | emit events | the event carries the tenant of the request |
| Tenant config (`services/tenant-config`) | configurations read once at start-up | load, look up with a default | they go stale; all requests must still agree |
| Tenant middleware (`middleware`) | fixture API keys | resolve the tenant of a request | header, then database (awaited), then fixture; keys change meanwhile |
| Storefront, admin, health | none | read-only views | - |
| Gateway rate limiter (`gateway/internal/ratelimit`) | counters in Redis | choose the window, INCR, EXPIRE | the steps interleave and fail one by one; the limit holds, nobody is refused without cause, counters go away |
| Gateway authentication and proxy (`gateway`) | none | look up the key, set headers, forward | - |
| Migrations (`db`, `scripts/db-migrate.sh`) | schema_migrations | apply each file, then record it | a crash between the two; two deployments at once |
| Worker (`worker`) | none | prints a line | - |

They interact by direct calls (checkout calls cart, inventory, payments and
orders; orders calls checkout for quotes; cart calls catalog) and through the
bus (controllers publish; webhooks and the audit log are the `'*'` subscribers
attached in `main.ts`). The engine calls two functions in the database that the
migrations create: one when it starts, one for each request with an API key.

The hazards found in the code, each at its line, with the properties that cover
it or the reason none does, are in `PROJECT.json`.

## 2. Modules

| Module | What it is |
|---|---|
| `Shop` | inventory, intents and orders and every request of one service call; quotes |
| `AtomicCheckout` | abstract specification: `Shop` plus POST /checkout in one step |
| `Checkout` | `Shop` plus POST /checkout call by call, with its rollback; properties |
| `MCCheckout` | instance of `Checkout` for TLC (tables of the engine, small stock) |
| `CheckoutProofs` | invariants and action property of `Checkout`, and that it implements `AtomicCheckout`, proved |
| `Cart` | the carts of one tenant, POST /carts item by item; properties |
| `CartProofs` | all properties of `Cart` that hold, proved |
| `Webhooks` | registrations, fan-out, delivery log and retries of one tenant; properties |
| `Platform` | `Webhooks` composed with the event bus, the audit log and the e-mails; properties |
| `PlatformProofs` | all properties of `Webhooks`, that `Platform` implements it, and all properties of `Platform`, proved |
| `RateLimit` | the window counters of the gateway in Redis; properties |
| `RateLimitProofs` | all safety properties of `RateLimit`, proved |
| `Migrations` | the migration script, run by several deployments; properties |
| `Tenancy` | `Migrations` composed with the engine process, its configurations and the tenant middleware; properties |
| `MCTenancy` | instance of `Tenancy` for TLC |
| `TenancyProofs` | all properties of `Migrations` and `Tenancy`, proved |
| `Plugins`, `MCPlugins` | validation and resolution of the plugin registry, iteration by iteration of their two searches, against definitions without recursion |
| `PluginsProofs` | both properties of `Plugins`, proved |
| `Discounts`, `MCDiscounts` | evaluation of the discount rules, with the tables of the code |
| `DiscountsProofs` | the property of `Discounts`, proved |
| `Sums` | lemmas of several proofs: least elements, induction, the largest member of a set, sums and folds over sequences |

### State and actions

**Shop.** `stock` is `stockByTenant` (a product is a row of one tenant's table,
`TenantOf` says whose), `intents` and `orders` are `intentsByTenant` and
`ordersByTenant`, oldest first, where the code prepends. `reply` and `trail` are
how the last finished request was answered and which events it published, in
order. There is one action per endpoint: `Reserve`, `Release`, `CreateOrder`,
`CreateIntent`, `AuthorizeIntent`, `CaptureIntent`, `RefundIntent`; all requests
refused before they change anything are `RejectRequest`. `Traffic` says which
kinds of requests clients send, so that runs can restrict the environment by
name.

**Checkout.** `job` holds the locals of the running handler: the lines of the
quote, how many reservations were pushed (`held`), the events published so far
and the phase: `reserving` (the loop), `charging` (createIntent), `ordering`
(createOrderFromQuote and the events after it), `rollback` (the catch block).
The two calls that can throw have an action each for success and for failure
(`ReserveLine`/`ReserveThrows`, `Charge`/`ChargeThrows`). The catch block is
`ReleaseLine`, one turn of its loop, and `ReportFailure`. A release that threw
would leave the handler with no step to take: `RollbackCovered` and
`CheckoutEnds` say that this never happens. Other requests run only while there
is no job. The cart comes as any sequence of lines that `Cart` may produce
(`CartLines`: catalogue products, no product twice, which `Cart` guarantees by
`TypeOK` and `DistinctLines`); it is read once, before the first step.

**Cart.** A cart is its owner and its lines; `job` holds the locals of a running
createCart: the cart found (`target`, 0 for a new one), the items still to add,
and the lines of a cart not yet stored. `AddThrows` is the failure in the middle:
a new cart is lost, a merge keeps what was added. `status` is always `active` in
the code and `expiresAt` is never read, so both are left out.

**Webhooks.** `log` is `deliveriesByTenant`, newest first, cut at `LogLimit`
(100). `wait` is the time left until `nextRetryAt` in units of
`BASE_RETRY_DELAY_MS`; `Tick` lets a unit pass. `age` is a history variable: how
long a delivery has been failing. The loop of `handleEvent` is a step per
registration (`Visit`), the loop of `retryDueDeliveries` maps `Retried` over the
log, as its turns do not depend on each other. Delivery itself is simulated by
the code (`failureMode`), and so it is here. `failureMode` and `enabled` are
never changed by any request: the branch of `retryDueDeliveries` that delivers
at last is in the model (`Attempted`) and `StatusCoherent` says it is never
taken.

**Platform** extends `Webhooks`. `history` is the bus's history, `audit` the
entries of the audit log, `mails` how many e-mails of the tenant are stored (they
are all alike). A publication is `Emit` or `SendMail` (history), then `Deliver`
once per registration (the first subscriber of `main.ts`), then `AuditEvent` (the
second). Requests of the webhooks controller are the actions of `Webhooks`
together with the entry the controller records afterwards; `RecordMail` is what
the e-mail controller does after its event went round (`owed`). Bus and audit log
are shared by all tenants: the others appear as `OthersEmit` and
`OthersAdminister`, which push entries into the same capped logs. The plugins'
own state is left out here; which events they publish is in `Shop` and
`Checkout` (`trail`).

**RateLimit.** A key of Redis is the number of its window. A request chooses its
key (`Arrive`), sends INCR (`Count`) and, if it saw 1, EXPIRE (`SetExpiry`); each
call may fail before it is carried out (`...Fails`: also a client gone or a
gateway that stops) or after (`...Unheard`: the answer is lost, and the Redis
client sends the command again, up to `MaxSends` times each). So INCR may count a
request twice, and an EXPIRE sent again may find its key gone or made anew. `Tick` lets time pass for the
gateway's clock and Redis's, and drops expired keys. `passed` and `spoilt` are
history variables. External here are Redis (INCR, EXPIRE and expiry) and its
client (a command sent again).

**Migrations.** `objects` counts the statements of each file the database has
seen, `recorded` is `schema_migrations`, and a script is where it stands in the
loop of `db-migrate.sh`. `Check`, `Apply` (a statement) and `Record` are the psql
calls, `ApplyFails` and the second case of `Record` the errors on which
`set -e` and `ON_ERROR_STOP` end the script, `Crash` kills it anywhere. The
first file cannot be applied twice (plain CREATE TABLE), the others can (CREATE
OR REPLACE). `alone` is a history variable.

**Tenancy** extends `Migrations`. `StartEngine`, `LoadConfigs` and `StopEngine` are
the life of the engine process, `loaded` is `tenantConfigs`. A request comes with
a tenant header or with a key; the awaited lookup is `LookUp` or `LookUpFails`,
and `Resume` the rest of the middleware and the handler's reading of the
configuration. `SetConfig` and `SetOwner` are administrators changing rows.
`seen` is a history variable: the owners a key has had since its request came.

**Plugins** takes any registry, `dependencies` being what its plugins depend on.
The constructor's validation and `listForTenant` are both a loop over the
registry (`next`) that calls a function calling itself; `calls` are the calls in
progress, each with the place of its own loop, and `finished` the plugins whose
call has ended (`visited` of the one search, `resolved` of the other). A step is
one iteration of a loop: `ValidateRegistry` and `ResolvePlugins` of the outer one,
`ValidateDependency` and `ResolveDependency` of the innermost call, `Finish` the
end of a call. `visiting` is the set of plugins with a call in progress. Nothing
interleaves with a search; the steps are there because what is hard is what one
call leaves to the next. `RefusedExactly` and `ListingExact` say without
recursion what the searches are for.

**Discounts** has one action, an evaluation; `Discount` is the sum of the rules'
amounts (`Amounts`) and its cap.

Definitions named `Faulty...` are variants of the definition that follows them
with a bug the code could plausibly have had. No specification uses them: they
replace that definition when a property is tested for being able to fail.

## 3. Runs

| Run | Instance | Shows |
|---|---|---|
| `checkout` | 1 tenant, 2 products, carts of up to 2 lines of up to 2 units, 1 order, 2 intents, all traffic | types; stock conserved; rollback always possible and complete; ledger append-only; every checkout is answered; refinement of `AtomicCheckout` |
| `orders` | 2 tenants with their own currency and provider, 3 products, up to 2 orders and 2 intents of each tenant, checkouts and reservations | no unit is sold twice, the i-th order is charged by the i-th intent, a rollback has a cause, and a checkout stays within its tenant |
| `carts` | 2 carts, 1 session, 2 customers, 2 products and one unknown | types, one line per product, one cart per owner, creations only add, repeated creations merge |
| `webhooks` | 2 registrations, 2 event types, log of 3, 3 attempts | types, status and schedule agree, back-off, exact fan-out, history kept, removal respected |
| `platform` | 2 registrations, 2 event types, log of 1, 2 attempts, history of 2, audit log of 3, 2 e-mails | history, audit log, e-mails and registrations agree whichever limit cuts first; deliveries have a cause |
| `rate_limit` | 3 requests, limit 2, windows 0 and 1 of 2 units, 2 sends | the limit holds, refusals have a cause, timeless counters come from a fault, requests are answered, counters expire |
| `deployment` | 2 scripts, 3 files (the first of 2 statements), 3 runs, 1 crash; 1 tenant of the file and 1 of the database, 1 key, 2 requests, 2 starts, 3 changes | what is recorded is complete, failures have a reason, a serving engine finds its functions, lookups are fair, one configuration per tenant |
| `plugins` | all registries of 3 plugins with up to 2 dependencies out of 4 ids, all sets of enabled plugins | a registry is refused exactly when it has to be; otherwise a tenant gets exactly what it needs, in order, and no search goes round in a circle |
| `discounts` | the rules of the tables, subtotals around the floors and caps, 3 codes | totals are within bounds, monotone and independent of the order of rules |
| `order_after_payment` | violation | an order is confirmed while its payment is pending |
| `default_provider` | violation | the euro tenant's default provider refuses euros |
| `cart_merge_owner` | violation | a shared session merges one customer's items into another's cart |

### Bounds and why they are enough

*Checkout.* `MaxQuantity`, `MaxLines`: two units and two lines give a checkout
that fails at its first line, at its second with the first held, and one that
takes the last unit; a third line repeats the loop. Stock starts at 1 to 3 units,
one of them reserved already as in the engine's tables, so that it runs out.
`MaxOrders`, `MaxIntents` cap the ledgers in the guards; two orders compete in
`orders`. That run restricts traffic because the code has endpoints that bypass
checkout: a manual release takes stock from confirmed orders, POST /orders
creates orders with neither stock nor payment, and POST /payments/intents
creates intents with no order.

*Cart.* Two carts, two customers and a shared session are the least with which
two owners' carts can meet; `MaxQuantity` stops additions to a line, in
`BeginCreate` and `AddItem` only.

*Webhooks and Platform.* `LogLimit` = 3 makes waiting deliveries fall out of the
log; two registrations are enough for one to be removed, to fail and to be
skipped while the other is not. `MaxAttempts` is the code's 3, in `platform` 2,
as retries do not concern the other logs. There the history holds less than the
audit log, as in the code, and both are cut in every run of a few requests.

*RateLimit.* Three requests exceed the limit of two by one; two units of time per
window let a call be delayed within its window, into the next, and past the
expiry of its key. No request arrives after `LastWindow`; time goes on until the
keys are gone.

*Tenancy.* Two scripts race at every step, a third run comes after one that
failed, and one crash suffices for every place to be killed in. A start with and
one without a database, and three changes: a tenant, its key, and one of the two
changed again while a request looks it up. All of it is used up in the end, so
this run stops (`CHECK_DEADLOCK FALSE`); so do `rate_limit`, when all requests
are answered and the keys gone, and `plugins`, with a registry that is refused.
Scripts and requests are interchangeable and no liveness is checked, so the run
uses their symmetry.

*Plugins* needs three plugins for a circle that the first plugin leads to
without being on it, and for two plugins that share a dependency; *Discounts*
evaluates the points at which a floor jumps or the cap ends.

### Fairness

`CheckoutEnds` holds under weak fairness of the steps of a handler that has begun:
a synchronous handler is run to its end by the JavaScript engine.
`RequestsAnswered` and `CountersExpire` hold under weak fairness of `Tick` and of
the steps of each request: time passes, and a goroutine goes on until its calls
return or fail (the Redis client has timeouts and gives up after `MaxSends`).
That a call succeeds is not assumed. Nothing is assumed of clients. The webhooks
have no liveness property on purpose: retries happen only when an administrator
asks for them, and a full log drops deliveries that still wait. The other modules
state none: a script that is killed is not started again by the code.

## 4. Proofs

All theorems hold for every value of the constants that satisfies the named
assumptions (`ShopAssumption`, `CartAssumption`, `WebhookAssumption`,
`PlatformAssumption`, `RateLimitAssumption`, `MigrationsAssumption`,
`TenancyAssumption`, `PluginsAssumption`, `DiscountsAssumption`), that is for
any number of tenants, products, lines, requests, scripts, registrations,
plugins and rules, any prices and any limits. `OnePercentage` says of the
discount rules what the tables of the service have and `DiscountsFair` needs:
one percentage per tenant at the most. `PowersAssumption` states three facts
about the powers of two behind the back-off; they are plain arithmetic, which
the provers do not know, and TLC evaluates them for the constants of each run.

*Checkout.* `StockConserved` is inductive given types; `RollbackCovered` is not:
that the lines held can be released follows only if no product is on two of the
lines, if `held` counts them exactly, and if the handler cannot be interrupted.
The inductive invariant is

    IInv == TypeOK /\ JobShape /\ StockConserved /\ RollbackCovered /\ RollbackJustified

where `JobShape` ties the events published and the newest intent to the phase,
and `RollbackJustified` needs it in order to tell a rollback before the
announcement (stock) from one after it (payment). All five are also checked by
TLC. `CheckoutProofs` proves each conjunct as a theorem, and `LedgerAppendOnly`
from the type invariant step by step. `EveryOrderCharged` is proved for clients
that send neither fixture orders nor intents by hand, as it is checked: `Paired`
adds that a checkout between charging and ordering is one intent ahead.
`OrdersBacked` is proved for clients that neither order the fixture cart nor
release stock by hand: row by row, what the placed orders and the running
checkout claim is at most what has been reserved since start-up. The units of
the orders are a fold; `Sums` turns it into a sum that a new order adds one term
to, and as the handler's lines are those of the order it places, what it holds
becomes what is ordered.

*Refinement.* `CheckoutProofs` proves `Spec => AtomicSpec`: the units held by
a running checkout are put back on the shelf (`StockSeen`) and its intent is
hidden until the order is placed (`IntentsSeen`). Every step but the last of a
handler then maps to a stutter, `PlaceOrder` to `Succeed`, `ReportFailure` to
`Fail` (by `RollbackJustified`, its guard), and single requests to themselves.

*Cart.* The invariant adds `TargetHolds` to types, `DistinctLines` and
`OwnerUnique`: while a creation runs, its target is still what
`findActiveCartForOwner` would answer. From it a new cart is stored only when no
cart shares its customer or session, which keeps `OwnerUnique`, and a repeated
creation finds the cart just filled (`RepeatMerges`). Lemmas state what adding
to, setting and removing a line does to a sequence of lines.

*Webhooks.* `StatusCoherent` needs more than itself: that a failing hook goes on
failing until it is removed follows from ids being used once (`DistinctHooks`)
and from every delivery being of a hook made before. `ExhaustedSlowly` needs the
relation kept while a delivery is still failing (`Spaced`): the time spent plus
the time to wait is at least the sum of the delays so far, 2 * Backoff(n) - 1.
The invariant is types, `DistinctHooks` and, for each delivery, `Sound`.
`FanOutExact` is inductive on top of it: with ids used once, a visit adds one id
to those that asked, and one delivery in front. A lemma
for each helper (`Store`, `RemoveAt`, `Retried`, `Older`) says what it does to a
log or to a delivery; each action either pushes one sound delivery or keeps all
in place, from which `HistoryKept` follows. `RemovedIsSilent` compares
cardinalities: the places of a hook's deliveries are mapped into those they came
from.

*Platform.* `RunsWebhooks` shows that every step of the composition is a step of
`Webhooks` or leaves the webhooks alone, so what is proved of `Webhooks` holds
here too. The inductive invariant `PInv` adds `HistoryCurrent` (the event going
round is the last of the history, from which `DeliveriesExplained` follows for
every visit) and `MailUnderWay` (the e-mail a request owes an entry for is the
event going round, and once it has gone round its entry is on top), without
which `MailPaired` is not inductive. `WebhooksReplayed` is kept because a new
entry only moves the others one place back (`OtherEntryReplayed`) or is the last
word on its registration (`OwnEntryReplayed`), also when the limit cuts one off.
`SameStory` compares two logs cut at different lengths, so it counts: an entry is
matched with the event as many places back in the history as there are entries
of events down to it. A new entry moves all ranks by one or none (`RankPushed`),
and so does a new event the history; nothing is lost from the log before it is
full (`StoryPushed`, `StoryRemembered`).

*RateLimit.* `BudgetPerWindow` rests on `Accounted` (the counter of the current
window covers the units taken), which rests on `OutlivesWindow` (the key lives
at least as long as what is left of its window), on `OneFirst` (while
the window lasts, the request that made the key is the only one about to give it
an expiry; later a key may expire while its EXPIRE is sent again) and on
`FutureUntouched` (no call for a window comes before it). `RefusedOnlyWhenFull`
follows from `Accounted`.

*Migrations and Tenancy.* `SchemaInv` says that files are applied in order, that
what a script has passed is in the database (`Placed`), that nobody interferes
with a lone script (`Undisturbed`), and that without a crash there is always a
script that nothing can stop (`SomebodyViable`): the one that created the tables,
or the one that is next to record. The engine's part adds that requests exist
only in a serving engine, that the owner found is among the owners seen
(`LookupSeen`) and that all that was served came from what was loaded
(`GivenLoaded`). `TenancyProofs` cites `MigrateInv` for the steps of the scripts.

*Plugins.* The invariant is that of a depth-first search. The calls in progress
are a path along dependencies, through plugins that have not ended, none of them
twice; what a call's loop has passed has ended or is the next call (`Path`); what
has ended is in order, each plugin after all it depends on (`Ordered`); what the
outer loop has passed has ended or is being searched (`Passed`); and a request
comes only to plugins that any sufficient set contains (`Needed`). A registry is
refused at a dependency that is missing, or at one with a call in progress: from
there to the last call the path closes a circle (`Circle`). When validation ends,
all plugins are in one order, so every set of them has one that comes first and
depends on none of the others (`OrderHasNoCircle`). `ListingExact` needs this
verdict: resolution itself does not look for circles, and comes to no plugin twice
only because validation found none (`NotTwice`).

*Discounts.* The amounts are a sum over the rules. A coupon and a fixed rule add the
same at any subtotal, a percentage adds a floor that moves by at most one when
the subtotal does by one (`Floor`). As only one rule of a tenant is a percentage,
one more cent of subtotal never lowers the total (`AmountsOfCent`); with two of
them both floors may move at once, and it would. That the order of the rules
does not matter is a fact about sums (`PartialSumReversed`).

*Sums.* The induction theorems of the library take an operator as parameter,
which the provers cannot instantiate. `Sums` does without: the set of numbers at
which a fact fails has a least element, if any (`Least`, `Induction`). On this
rest the sum of the first terms of a sequence (`PartialSum`) and that a left fold
which adds a term each time is that sum (`AddsUp`).

Every safety property and every action property of a passing run is a theorem.
Only model-checked are the liveness properties `CheckoutEnds`,
`RequestsAnswered` and `CountersExpire`, as fairness and ENABLED are out of the
provers' reach. No property is about the arithmetic of a quote
(`Subtotal`, `QuoteTotal`), only about intents and orders having the same total.

## 5. Where the code and its documents differ

- `FEATURE_CHECKLIST.md:84` promises orders on successful payment; orders are
  confirmed while the intent is pending (run `order_after_payment`).
- `payments.service.ts:44` lists EUR for a provider whose adapter does not take
  it; each default checkout of that tenant fails (run `default_provider`).
- `FEATURE_CHECKLIST.md:69` promises merging into the existing cart of the
  owner; a shared session merges into another customer's (run
  `cart_merge_owner`).

## 6. Not modelled, and what is left

Left out as data: names, ids, timestamps, signatures, HTTP wording, and fractions
(the code accepts any positive number as a quantity; the models use integers, so
nothing is said of sums of floating-point counters).

- Storefront, admin and health endpoints are views of the services' state and
  change nothing; so are all GET endpoints.
- The gateway's authentication and proxy keep no state: a lookup (in the database,
  or in a file read at start-up), two headers and a reverse proxy. What they send
  on are the requests of `ArriveWithTenant`.
- Of the start-up, the parsing of `.env` and the search for the fixture files are
  left out; the models begin with the files that were found.
- The branch of the e-mail service for an adapter that fails cannot be reached:
  the only adapter always succeeds.
- Creating the database and the table `schema_migrations` (both IF NOT EXISTS,
  both with a race inside PostgreSQL) and the seed are left out: `Migrations`
  starts with the table there.
- The branches of the limiter that never come to a counter (limit switched off, no
  tenant header) are left out, and a psql call that fails to connect is a `Crash`.
- The worker is a stub.

Left to do: a composition of `Cart` with `Checkout` (the cart read by a checkout is
now any cart `Cart` may produce, as checkout does not change it); limits of
several gateways with clocks that differ.
