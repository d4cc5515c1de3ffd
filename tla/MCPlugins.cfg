SPECIFICATION Spec
CONSTANTS
  catalog = catalog
  cart = cart
  orders = orders
  missing = missing
  Ids = {catalog, cart, orders, missing}
  Registry <- MCRegistry
  MaxDependencies = 2
INVARIANTS
  RefusedExactly
  ListingExact
CHECK_DEADLOCK FALSE
