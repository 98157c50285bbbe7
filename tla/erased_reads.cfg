SPECIFICATION MCSpec
CONSTANTS
  Keys = {1, 2, 3}
  Values = {1, 2, 3, 4, 5, 6, 7, 8, 9}
  Deleted = Deleted
  Absent = Absent
  Threw = Threw
  Blocks = {b1, b2}
  CacheSize = 1
  SstSize = 1
  Ring = 3
  Level0Limit = 2
  Fanout = 2
  MaxLevel = 3
  MaxPuts = 3
  MaxErases = 1
  MaxCrashes = 0
  MaxSessions = 0
INVARIANT DeletedNotFound
SYMMETRY BlockSymmetry
CHECK_DEADLOCK FALSE
