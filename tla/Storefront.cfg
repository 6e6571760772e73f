SPECIFICATION Spec
CONSTANTS
  Users = {alice, bob}
  NoOne = NoOne
  Requests = {r1, r2}
  NoCart = NoCart
INVARIANTS
  OneSession
  RefreshServesWaiters
  CartShownIsCurrent
PROPERTIES
  EverySettles
CHECK_DEADLOCK FALSE
