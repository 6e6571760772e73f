SPECIFICATION ShopsSpec
CONSTANTS
  Emails = {e1, e2}
  Phones = {n1, n2}
  NoPhone = NoPhone
  DayLength = 4
CONSTRAINT FewRequests
SYMMETRY MCSymmetry
INVARIANTS
  ShopsTypeOK
  PhonesUnique
  RegistrationsAreWhole
  ReasonFits
  LastNoticeIsTrue
  OpeningHoursAreAnArc
CHECK_DEADLOCK FALSE
