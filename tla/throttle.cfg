SPECIFICATION Spec
CONSTANTS
  c1 = c1
  c2 = c2
  c3 = c3
  Clients = {c1, c2, c3}
  u1 = u1
  Users = {u1}
  NoUser = NoUser
  a1 = a1
  Addresses = {a1}
  AddressOf <- OneAddress
  Limit = 5
  Lockout = 2
  Window = 2
SYMMETRY Interchangeable
INVARIANTS
  TypeOK
  LockLetsFewThrough
  BurstBounded
PROPERTIES
  AddressLocksRunOut
