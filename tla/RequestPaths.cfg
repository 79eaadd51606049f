CONSTANTS
  None = None
  a = a
  b = b
  pa = pa
  pb = pb
  p = p
  c = c
  k = k
  Tenant = {a, b}
  Principal = {pa, pb}
  Namespace = {p, c}
  Client = {c1, c2}
  Replica = {r1, r2}
  Key = {k}
  FailClosed = TRUE
  MaxRequests = 2
  TenantOf <- Tenants
  ParentOf <- Parents
  Menu <- Asks
  Grants <- Policies
  Starts <- MCStarts
  Revocable = {pa}
SYMMETRY Symmetry
SPECIFICATION Spec
PROPERTIES
  AnsweredOnce
  ProtectionHolds
  RevokedGetsNothing
  ChangesAreOnRecord
CHECK_DEADLOCK FALSE
