SPECIFICATION MCSpec
CONSTANTS
  Fds = {4, 5, 6}
  NumLoops = 2
  Users = {u1}
  Vars = {x}
  Bytes = {b}
  Fresh = Fresh
  Nuls = Nuls
  Absent = Absent
  None = None
  MaxAccepts = 3
  MaxAsks = 2
  MaxFaults = 0
  MaxEvents = 5
INVARIANT OkIsComing
CHECK_DEADLOCK FALSE
