CONSTANTS
  None = None
  Field = {1, 2, 3, 4, 5, 6, 7, 8}
  Primitive = {1, 2}
  Value = {0, 1}
  MapKey = {6}
  Partition = {2}
  FailClosed = TRUE
  SigningEnabled = TRUE
  MaxChanges = 1
  Name <- MCNames
  Fold <- MCFold
  Parent <- MCNested
  InitSchema <- MCSchema
  DeletesOf <- MCDeletes
  PolicySets <- Sets
  Filters <- ClientFilters
  Statistics = {{}, {1, 4}}
SPECIFICATION Spec
INVARIANTS
  ReaderGetsItsRows
  PermitsOnlyAdd
  MasksAreKept
PROPERTIES
  NotModifiedIsTrue
