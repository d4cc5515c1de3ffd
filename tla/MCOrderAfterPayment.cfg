SPECIFICATION Spec
CONSTANTS
  Tenants = {acme}
  Products = {hoodie, sticker}
  Providers = {stripe, paystack}
  acme = acme
  beta = beta
  hoodie = hoodie
  sticker = sticker
  notebook = notebook
  stripe = stripe
  paystack = paystack
  NoProvider = NoProvider
  UnknownProvider = UnknownProvider
  TenantOf <- MCTenantOf
  Price <- MCPrice
  InitialStock <- MCInitialStock
  LowThreshold <- MCLowThreshold
  Currency <- MCCurrency
  DefaultCart <- MCDefaultCart
  AdapterCurrencies <- MCAdapterCurrencies
  DefaultProvider <- MCDefaultProvider
  ConfiguredCurrencies <- MCConfiguredCurrencies
  RequestAmounts <- MCRequestAmounts
  RequestCurrencies <- MCRequestCurrencies
  MaxQuantity = 2
  MaxLines = 2
  MaxOrders = 1
  MaxIntents = 1
  Traffic <- CheckoutOnly
INVARIANTS
  OrderAfterPayment
