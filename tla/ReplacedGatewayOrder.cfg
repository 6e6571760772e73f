SPECIFICATION PaymentsSpec
CONSTANTS
  Orders = {o1}
  Products = {p1}
  MaxStock = 1
  MaxIssued = 2
INVARIANTS
  CapturedHasRow
CHECK_DEADLOCK FALSE
