SPECIFICATION FairSpec
CONSTANTS
  None = None
  Edits = {e1, e2, e3}
  Runs = {r1, r2}
  RedisUrl = TRUE
  MaxRestarts = 2
  MaxFailures = 2
INVARIANTS
  TypeOK
  CopiesAreOrdered
PROPERTIES
  NoQuietLoss
  StoredReachesRow
CHECK_DEADLOCK FALSE
