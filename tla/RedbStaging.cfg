CONSTANTS
  c1 = c1
  c2 = c2
  c3 = c3
  n1 = n1
  n2 = n2
  a = a
  b = b
  None = None
  Client = {c1, c2}
  Namespace = {n1, n2}
  Ident = {a, b}
  ParentOf <- Nested
  NsOf <- OneEach
  InitNamespaces = {n1, n2}
  InitTables = {}
  InitViews = {}
  Enabled = {"commit", "stage_create_table", "create_namespace", "drop_namespace", "purge_table"}
  MaxRequests = 2
  MaxChanges = 1
  COMMIT_MAX_RETRIES = 2
SPECIFICATION FairSpec
CHECK_DEADLOCK FALSE
INVARIANTS
  NamespaceTree
  NoLitter
PROPERTIES
  RequestsEnd
