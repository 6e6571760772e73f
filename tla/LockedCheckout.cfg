SPECIFICATION LockedSpec
CONSTANTS
  Customers = {c1, c2}
  Shops = {s1}
  NoShop = NoShop
  Products = {p1, p2}
  ShopOf <- MCShopOf
  MaxStock = 1
  Orders = {o1, o2}
  Requests = {r1, r2}
CONSTRAINT MCSmall
SYMMETRY MCSymmetry
INVARIANTS
  LockedTypeOK
  NoReadIsStale
PROPERTIES
  PlacedAtOnce
CHECK_DEADLOCK FALSE
