SPECIFICATION Spec
CONSTANTS
  c1 = c1
  c2 = c2
  Callers = {c1, c2}
  Refresher = Refresher
  Interval = 2
  Timeout = 1
  MaxStale = 1
  Horizon = 5
INVARIANTS
  TypeOK
  StaleIsNotReady
PROPERTIES
  RefusalJustified
  AcceptanceFresh
  ReadyAgain
  RevokedIsRefused
