SPECIFICATION Spec
CONSTANTS
  None = None
  LastName = 6
  PastEnd = {}
  MaxPageSize = 3
  RemoteCap = 3
  Mount = {2, 5, 6}
  Native = Native
  Remote = {2}
  WithoutViews = {2}
  ReadOnly = {6}
  Path <- MCPath
  Ident <- MCIdent
  InitSpaces <- MCSpaces
  InitTables <- MCTables
  Client = {c1}
  MaxScan = 3
  MaxFetches = 2
  Scenarios <- MCScenarios
CHECK_DEADLOCK FALSE
INVARIANTS
  EveryNameOnce
PROPERTIES
  ListingsEnd
  CallsAsPromised
