CONSTANTS
  c1 = c1
  c2 = c2
  c3 = c3
  n1 = n1
  n2 = n2
  a = a
  b = b
  None = None
  Client = {c1, c2}
  Namespace = {n1, n2}
  Ident = {a, b}
  Rank <- Alphabetical
  ParentOf <- Nested
  NsOf <- OneEach
  InitNamespaces = {n1, n2}
  InitTables = {a, b}
  InitViews = {}
  Enabled = {"commit", "drop", "rename", "create", "stage", "register", "update_view", "purge", "create_namespace", "drop_namespace", "abandon"}
  MaxRequests = 2
  MaxChanges = 2
  COMMIT_MAX_RETRIES = 2
SPECIFICATION Spec
SYMMETRY Callers
INVARIANTS
  NamesMatchRows
  CommitsDoNotDeadlock
  ContentsHaveNamespace
PROPERTIES
  Linearizable
CONSTRAINT ThreeRequests
CHECK_DEADLOCK FALSE
