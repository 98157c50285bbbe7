SPECIFICATION MCSpec
CONSTANTS
  Fds = {4, 5, 6}
  NumLoops = 2
  Users = {u1, u2}
  Vars = {x}
  Bytes = {b}
  Fresh = Fresh
  Nuls = Nuls
  Absent = Absent
  None = None
  MaxAccepts = 3
  MaxAsks = 2
  MaxFaults = 2
  MaxEvents = 5
INVARIANTS ServerTypeOK Routed AcknowledgedKept
PROPERTY Answered
CHECK_DEADLOCK FALSE
