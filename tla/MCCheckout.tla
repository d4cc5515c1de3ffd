----------------------------- MODULE MCCheckout -----------------------------
(***************************************************************************)
(* Instances of Checkout for TLC.  Prices, adapters and tenants are those  *)
(* of the engine's tables; stock is cut down until it runs out.            *)
(***************************************************************************)
EXTENDS Checkout

CONSTANTS acme, beta, hoodie, sticker, notebook, stripe, paystack

MCTenantOf == [p \in Products |-> IF p = notebook THEN beta ELSE acme]
MCPrice ==
  [p \in Products |-> CASE p = hoodie -> 4200 [] p = sticker -> 900 [] p = notebook -> 3200]
MCInitialStock ==
  [p \in Products |-> CASE p = hoodie -> [available |-> 1, reserved |-> 1]
                        [] p = sticker -> [available |-> 3, reserved |-> 0]
                        [] p = notebook -> [available |-> 2, reserved |-> 1]]
MCLowThreshold == [p \in Products |-> 1]
MCCurrency == [t \in Tenants |-> IF t = beta THEN "EUR" ELSE "USD"]
MCDefaultCart ==
  [t \in Tenants |-> IF t = beta
                     THEN <<[product |-> notebook, quantity |-> 1]>>
                     ELSE <<[product |-> hoodie, quantity |-> 1]>>]
MCAdapterCurrencies ==
  [p \in Providers |-> IF p = stripe THEN {"USD", "EUR"} ELSE {"NGN", "USD"}]
MCDefaultProvider == [t \in Tenants |-> IF t = beta THEN paystack ELSE stripe]
MCConfiguredCurrencies ==
  [t \in Tenants |-> IF t = beta THEN {"EUR", "USD"} ELSE {"USD"}]
MCRequestAmounts == {50}
MCRequestCurrencies == {"NGN"}

AllTraffic == Kinds
\* Clients that neither release stock, place fixture orders nor create intents
\* by hand.
CheckoutsAndReservations == {"reserve"}
CheckoutOnly == {}

=============================================================================
