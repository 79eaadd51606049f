CONSTANTS
  r1 = r1
  r2 = r2
  x = x
  y = y
  open = open
  narrow = narrow
  late = late
  blank = blank
  None = None
  Replica = {r1, r2}
  Author = {x, y}
  Policy = {open, narrow, late, blank}
  Blank = {blank}
  Compiles <- OldBuild
  Managers <- Grants
  SeedOf <- Seeds
  Writable = {r1}
  MaxChanges = 1
  MaxCrashes = 1
SPECIFICATION FairSpec
CHECK_DEADLOCK FALSE
INVARIANTS
  EnforcedIsRecorded
  Administrable
  FileSeedsOnce
PROPERTIES
  FollowersConverge
