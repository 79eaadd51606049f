SPECIFICATION Spec
CONSTANTS
  None = None
  c1 = c1
  c2 = c2
  Client = {c1, c2}
  Sends <- MCSends
  RequestTimeout = 5
  DrainTimeout = 5
  ProbeTimeout = 2
  ProbeTTL = 2
  Configs <- MCConfigs
CONSTRAINT OneIsUsed
INVARIANTS
  KeysCanBeTurnedOff
