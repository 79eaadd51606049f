CONSTANTS
  None = None
  proxy = proxy
  x = x
  y = y
  bx = bx
  acme = acme
  good = good
  other = other
  ak = ak
  Client = {c1, c2}
  MaxTime = 3
  Kid = {good, other}
  Signing = {good}
  CacheTtl = 1
  RefetchInterval = 2
  Limiting = TRUE
  Bucket = {bx, proxy}
  Tenant = {acme}
  Burst = 2
  Rate = 1
  TenantBurst = 1
  TenantRate = 1
  FailLimit = 2
  BanTime = 2
  Hour = 2
  IdleTime = 2
  Address = {proxy, x, y}
  Proxy = {proxy}
  Unreadable = Unreadable
  BucketOf <- Buckets
  ApiKey = {ak}
  TenantOf <- TenantsOf
  Scenarios <- MCScenarios
SYMMETRY Symmetry
SPECIFICATION Spec
CHECK_DEADLOCK FALSE
INVARIANTS
  AllowanceHolds
  RefetchesAreSpaced
PROPERTIES
  BansHold
  DeletedKeysAdmitNobody
