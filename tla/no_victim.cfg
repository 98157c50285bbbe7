SPECIFICATION MCSpec
CONSTANTS
  Keys = {1, 2, 3, 4}
  Values = {1, 2, 3, 4, 5, 6, 7, 8, 9}
  Deleted = Deleted
  Absent = Absent
  SstSize = 1
  Ring = 3
  Level0Limit = 2
  Fanout = 2
  MaxLevel = 4
  MaxPuts = 6
  MaxCrashes = 0
  TableSizes = {1}
  MaxDeletes = 0
INVARIANT OverflowMerged
CHECK_DEADLOCK FALSE
