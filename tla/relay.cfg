SPECIFICATION RelaySpec
CONSTANTS
  m1 = m1
  m2 = m2
  s1 = s1
  s2 = s2
  w1 = w1
  NoMessage = NoMessage
  Messages = {m1, m2}
  Workers = {w1}
  Sessions = {s1, s2}
  Stamps = {0}
  Backoff <- OneTick
  MaxAttempts = 1
  StuckTimeout = 1
  RetryMax = 1
  MaxConnections = 2
  MaxBacklog = 1
  MaxStops = 1
  MaxFaults = 0
INVARIANTS
  RelayTypeOK
  BacklogWithinLimits
  DeliveriesStillExplained
  DiskIsKept
PROPERTIES
  KeepsAdmission
  RoomReturns
  ShutdownCompletes
  ImplementsDurableLedger
CHECK_DEADLOCK FALSE
