CONSTANTS
  c1 = c1
  c2 = c2
  c3 = c3
  n1 = n1
  n2 = n2
  a = a
  b = b
  None = None
  Client = {c1, c2, c3}
  Namespace = {n1}
  Ident = {a, b}
  ParentOf <- Flat
  NsOf <- AllInOne
  InitNamespaces = {n1}
  InitTables = {a, b}
  InitViews = {}
  Enabled = {"commit", "create_table", "purge_table", "abandon"}
  MaxRequests = 1
  MaxChanges = 2
  COMMIT_MAX_RETRIES = 2
SPECIFICATION Spec
SYMMETRY Callers3
CHECK_DEADLOCK FALSE
INVARIANTS
  HistoryReadable
PROPERTIES
  LinearHistory
  AtomicTransaction
