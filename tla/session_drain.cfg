SPECIFICATION Spec
CONSTANTS
  s1 = s1
  s2 = s2
  s3 = s3
  Sessions = {s1, s2}
  ImplicitTLS = {s1}
  RequireTLS = TRUE
  MaxConnections = 2
  MaxCommands = 7
  MaxRecipients = 1
  MaxBacklog = 1
INVARIANTS
  EnvelopeAuthorised
PROPERTIES
  ImplementsAdmission
  ShutdownDrains
  ConnectionsEnd
CHECK_DEADLOCK FALSE
