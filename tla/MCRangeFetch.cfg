SPECIFICATION Spec
CONSTANTS
  Requests = {r1, r2, r3}
  Urls = {u1, u2}
  MaxRestarts = 1
INVARIANTS
  TypeOK
  CountIsExact
  OneGetPerUrl
  PagesAreRight
PROPERTIES
  BusyEnds
CHECK_DEADLOCK FALSE
