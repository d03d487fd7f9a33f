CONSTANTS
  r1 = r1
  s1 = s1
  q1 = q1
  Refs <- OneRef
  Syncs <- OneSync
  Requests <- OneRequest
  RefsReused = TRUE
  ListFails = TRUE
  MaxTime = 2
  MaxId = 2
SPECIFICATION Spec
CHECK_DEADLOCK FALSE
INVARIANTS
  RuntimeWithinLifetime
PROPERTY OnlyMissingRemoved
