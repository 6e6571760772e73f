SPECIFICATION CartsSpec
CONSTANTS
  Customers = {c1}
  Shops = {s1, s2}
  NoShop = NoShop
  Products = {p1, p2, p3}
  ShopOf <- MCShopOf
  MaxStock = 1
INVARIANTS
  SingleShop
CHECK_DEADLOCK FALSE
