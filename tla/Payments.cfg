SPECIFICATION PaymentsSpec
CONSTANTS
  Orders = {o1}
  Products = {p1, p2}
  MaxStock = 2
  MaxIssued = 2
INVARIANTS
  PaymentsTypeOK
  PaidWhenDue
  SuccessIsCaptured
  OneOpenAttempt
PROPERTIES
  PaidIsFinal
  AuditTrailIntact
  InventoryKept
SYMMETRY MCSymmetry
CHECK_DEADLOCK FALSE
