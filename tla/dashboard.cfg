SPECIFICATION BoardSpec
CONSTANTS
  m1 = m1
  m2 = m2
  w1 = w1
  w2 = w2
  NoMessage = NoMessage
  Messages = {m1, m2}
  Workers = {w1, w2}
  Stamps = {0}
  Backoff <- OneTick
  MaxAttempts = 2
  StuckTimeout = 1
  RetryMax = 1
  MaxStops = 1
  MaxFaults = 0
SYMMETRY Interchangeable
INVARIANTS
  BoardTypeOK
  ReportCoversRows
  ReportAddsUp
CHECK_DEADLOCK FALSE
