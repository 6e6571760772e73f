SPECIFICATION RecordsSpec
CONSTANTS
  a1 = a1
  a2 = a2
  a3 = a3
  b1 = b1
  u1 = u1
  u2 = u2
  Addresses = {a1, a2, a3, b1}
  Users = {u1, u2}
  OwnerOf <- MCOwnerOf
  Products = {p1, p2}
  Categories = {k1}
  Shops = {s1, s2}
  NoShop = NoShop
  Names = {n1, n2}
  MaxPrice = 3
  DeliveryFee = 1
  FREE_DELIVERY_ABOVE = 4
  Orders = {o1}
  MaxQuantity = 2
CONSTRAINT OneKindOfEdits
SYMMETRY MCSymmetry
INVARIANTS
  RecordsTypeOK
  AtMostOneDefault
  NamesUniqueInShop
  CategoriesInUseStay
PROPERTIES
  DefaultLostOnlyAsNamed
  NeverDearerThanListed
  ProductsStayInTheirShop
CHECK_DEADLOCK FALSE
