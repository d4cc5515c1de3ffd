SPECIFICATION Spec
CONSTANTS
  Tenants = {acme, beta}
  Products = {hoodie, sticker, notebook}
  Providers = {stripe, paystack}
  acme = acme
  beta = beta
  hoodie = hoodie
  sticker = sticker
  notebook = notebook
  stripe = stripe
  paystack = paystack
  NoProvider = NoProvider
  UnknownProvider = UnknownProvider
  TenantOf <- MCTenantOf
  Price <- MCPrice
  InitialStock <- MCInitialStock
  LowThreshold <- MCLowThreshold
  Currency <- MCCurrency
  DefaultCart <- MCDefaultCart
  AdapterCurrencies <- MCAdapterCurrencies
  DefaultProvider <- MCDefaultProvider
  ConfiguredCurrencies <- MCConfiguredCurrencies
  RequestAmounts <- MCRequestAmounts
  RequestCurrencies <- MCRequestCurrencies
  MaxQuantity = 2
  MaxLines = 2
  MaxOrders = 2
  MaxIntents = 2
  Traffic <- CheckoutsAndReservations
INVARIANTS
  OrdersBacked
  EveryOrderCharged
  RollbackJustified
