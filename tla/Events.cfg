SPECIFICATION BusSpec
CONSTANTS
  Events = {e1, e2}
  Workers = {w1}
  Rows = 2
  Count = 2
  MaxLen = 1
INVARIANTS
  BusTypeOK
  CopiesBounded
  AckedIsHandled
  NothingForgotten
PROPERTIES
  EventuallyNotified
