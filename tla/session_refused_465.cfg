SPECIFICATION Spec
CONSTANTS
  s1 = s1
  s2 = s2
  s3 = s3
  Sessions = {s1, s2}
  ImplicitTLS = {s1}
  RequireTLS = TRUE
  MaxConnections = 1
  MaxCommands = 3
  MaxRecipients = 1
  MaxBacklog = 1
PROPERTIES
  RefusalsEnd
CHECK_DEADLOCK FALSE
