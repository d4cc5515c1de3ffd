SPECIFICATION Spec
CONSTANTS
  Tenants = {beta}
  Products = {notebook}
  Providers = {stripe, paystack}
  acme = acme
  beta = beta
  hoodie = hoodie
  sticker = sticker
  notebook = notebook
  stripe = stripe
  paystack = paystack
  NoProvider = NoProvider
  UnknownProvider = UnknownProvider
  TenantOf <- MCTenantOf
  Price <- MCPrice
  InitialStock <- MCInitialStock
  LowThreshold <- MCLowThreshold
  Currency <- MCCurrency
  DefaultCart <- MCDefaultCart
  AdapterCurrencies <- MCAdapterCurrencies
  DefaultProvider <- MCDefaultProvider
  ConfiguredCurrencies <- MCConfiguredCurrencies
  RequestAmounts <- MCRequestAmounts
  RequestCurrencies <- MCRequestCurrencies
  MaxQuantity = 1
  MaxLines = 1
  MaxOrders = 1
  MaxIntents = 1
  Traffic <- CheckoutOnly
INVARIANTS
  DefaultProviderCharges
