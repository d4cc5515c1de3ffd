SPECIFICATION Spec
CONSTANTS
  acme = acme
  beta = beta
  anyone = anyone
  coupon = coupon
  other = other
  Rules <- MCRules
  Codes = {coupon, other}
  NoCode = NoCode
  Subtotals <- MCSubtotals
INVARIANTS
  DiscountsFair
