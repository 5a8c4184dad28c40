SPECIFICATION Spec
CONSTANTS
  s1 = s1
  s2 = s2
  s3 = s3
  Sessions = {s1, s2, s3}
  ImplicitTLS = {s1}
  RequireTLS = FALSE
  MaxConnections = 2
  MaxCommands = 5
  MaxRecipients = 1
  MaxBacklog = 1
SYMMETRY Interchangeable
INVARIANTS
  TypeOK
  EnvelopeAuthorised
  BacklogBounded
  LateMessagesBounded
PROPERTIES
  AdmissionSteps
CHECK_DEADLOCK FALSE
