--------------------------- MODULE AtomicCheckout ---------------------------
(***************************************************************************)
(* What a client of the engine may rely on: POST /checkout happens in one  *)
(* step, and either reserves every line, creates the payment intent and    *)
(* places the order, or leaves stock, intents and orders as they were.  It *)
(* fails exactly when some line lacks stock or the provider refuses.       *)
(***************************************************************************)
EXTENDS Shop

shopVars == <<stock, intents, orders, reply, trail>>

Enough(t, lines) ==
  \A i \in DOMAIN lines : CanReserve(stock, lines[i].product, lines[i].quantity)

Charged(t, lines, provider) ==
  IntentAccepted(t, provider, QuoteTotal(lines), Currency[t])

Succeed(t, lines, provider) ==
  /\ Len(orders[t]) < MaxOrders
  /\ Len(intents[t]) < MaxIntents
  /\ Enough(t, lines)
  /\ Charged(t, lines, provider)
  /\ stock' = [p \in Products |->
                 [available |-> stock[p].available - UnitsOf(lines, Len(lines), p),
                  reserved |-> stock[p].reserved + UnitsOf(lines, Len(lines), p)]]
  /\ intents' = [intents EXCEPT ![t] =
                   Append(@, NewIntent(t, provider, QuoteTotal(lines), Currency[t]))]
  /\ orders' = [orders EXCEPT ![t] = Append(@, NewOrder(t, lines))]
  /\ Answer("ok", <<"checkout.inventory.reserved", "payment.intent.created",
                    "order.created", "checkout.completed">>)

Fail(t, lines, provider) ==
  /\ \/ ~Enough(t, lines) /\ trail' = <<"checkout.failed">>
     \/ /\ Enough(t, lines) /\ ~Charged(t, lines, provider)
        /\ trail' = <<"checkout.inventory.reserved", "checkout.failed">>
  /\ reply' = "rejected"
  /\ UNCHANGED <<stock, intents, orders>>

CheckOut(t, lines, provider) ==
  Succeed(t, lines, provider) \/ Fail(t, lines, provider)

Next ==
  \/ SingleRequest
  \/ \E t \in Tenants, provider \in RequestedProviders :
       \E lines \in CartLines(t) : CheckOut(t, lines, provider)

Spec == ShopInit /\ [][Next]_shopVars
=============================================================================
