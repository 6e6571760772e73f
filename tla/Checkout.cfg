SPECIFICATION SerialSpec
CONSTANTS
  Customers = {c1, c2}
  Shops = {s1, s2}
  NoShop = NoShop
  Products = {p1, p2}
  ShopOf <- MCShopOf
  MaxStock = 1
  Orders = {o1, o2}
CONSTRAINT MCSmall
SYMMETRY MCSymmetry
INVARIANTS
  OrderFromItsShop
  NoLineOfDeletedProduct
PROPERTIES
  InventoryKept
CHECK_DEADLOCK FALSE
