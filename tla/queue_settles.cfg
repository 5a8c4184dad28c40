SPECIFICATION Spec
CONSTANTS
  m1 = m1
  m2 = m2
  Messages = {m1, m2}
  w1 = w1
  w2 = w2
  Workers = {w1, w2}
  NoMessage = NoMessage
  MaxAttempts = 2
  StuckTimeout = 1
  RetryMax = 1
  Backoff <- MCBackoff
  Stamps = {1}
  MaxStops = 1
  MaxFaults = 1
PROPERTIES
  Settles
