SPECIFICATION FairSpec
CONSTANTS
  t1 = t1
  t2 = t2
  Tasks = {t1, t2}
  Reports <- WithFailure
  HardFailure = TRUE
  MaxFailures = 1
INVARIANTS FurthestWins RecipientTrails 
PROPERTY ReportsSettle
CHECK_DEADLOCK FALSE
