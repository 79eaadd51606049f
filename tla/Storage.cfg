SPECIFICATION Spec
CONSTANTS
  None = None
  Native = Native
  c1 = c1
  c2 = c2
  Misshapen = {}
  MaxNamespaceDepth = 3
  Mount = {"m", "r"}
  Ident <- MCIdent
  Warehouse <- MCWarehouse
  Place <- MCPlace
  Object <- MCObject
  Longer <- MCLonger
  Client = {c1, c2}
  MaxTime = 5
  KeyLifetime = 4
  KeyRefreshMargin = 2
  Duration = 2
  ExchangeTime = 1
  Scenarios <- MCScenarios
CHECK_DEADLOCK FALSE
INVARIANTS
  LocationsFollowNames
  ReachFollowsNames
  AccessIsEarned
  WriteAccessIsOnRecord
  KeysOutliveAccess
