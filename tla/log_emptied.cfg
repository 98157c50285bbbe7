SPECIFICATION MCSpec
CONSTANTS
  Keys = {1, 2, 3}
  Values = {1, 2, 3, 4, 5, 6, 7, 8, 9}
  Deleted = Deleted
  Absent = Absent
  SstSize = 2
  Ring = 3
  Level0Limit = 2
  Fanout = 2
  MaxLevel = 3
  MaxPuts = 1
  MaxCrashes = 1
  TableSizes = {1, 2}
  MaxDeletes = 1
INVARIANT PutsAreLogged
CHECK_DEADLOCK FALSE
