SPECIFICATION Spec
CONSTANTS
  Orders = {o1}
  Products = {p1}
  MaxStock = 1
  Partners = {d1}
  NoPartner = NoPartner
  NoSnapshot = NoSnapshot
  MaxInFlight = 2
CONSTRAINT MCFewRequests
SYMMETRY MCSymmetry
INVARIANTS
  TypeOK
  DeliveryNeverAhead
  CreditedAtMostOnce
CHECK_DEADLOCK FALSE
