SPECIFICATION MCSpec
CONSTANTS
  Fds = {4, 5, 6}
  NumLoops = 2
  Users = {u1}
  Vars = {x}
  Bytes = {b}
  Fresh = Fresh
  Nuls = Nuls
  Absent = Absent
  None = None
  MaxAccepts = 2
  MaxAsks = 2
  MaxFaults = 1
  MaxEvents = 5
INVARIANT OnlySentIsStored
CHECK_DEADLOCK FALSE
