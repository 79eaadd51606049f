CONSTANTS
  c1 = c1
  c2 = c2
  c3 = c3
  n1 = n1
  n2 = n2
  a = a
  b = b
  None = None
  Client = {c1, c2}
  Namespace = {n1}
  Ident = {a, b}
  ParentOf <- Flat
  NsOf <- AllInOne
  InitNamespaces = {n1}
  InitTables = {}
  InitViews = {b}
  Enabled = {"stage_create_table", "commit", "create_table", "rename_table", "register_table", "drop_table", "create_view", "register_view", "update_view", "rename_view", "drop_view"}
  MaxRequests = 2
  MaxChanges = 1
  COMMIT_MAX_RETRIES = 1
SPECIFICATION Spec
SYMMETRY Callers
CHECK_DEADLOCK FALSE
INVARIANTS
  OneKindPerName
PROPERTIES
  Linearizable
