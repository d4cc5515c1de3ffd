SPECIFICATION Spec
CONSTANTS
  Customers = {alice, bob}
  Sessions = {laptop}
  NoOne = NoOne
  Products = {hoodie, sticker, unlisted}
  Catalog = {hoodie, sticker}
  MaxCarts = 2
  MaxQuantity = 1
  MaxItems = 2
  MaxRequest = 1
INVARIANTS
  TypeOK
  DistinctLines
  OwnerUnique
PROPERTIES
  CreationOnlyAdds
  RepeatMerges
