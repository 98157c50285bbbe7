SPECIFICATION MCFairSpec
CONSTANTS
  Parts = {"threads"}
  Spares = {{}}
  NumLists = 3
  OneSize = 4
  Header = 1
  Sizes = {1, 2, 3}
  Workers = {w1, w2}
  Tasks = {t1, t2, l1, l2}
  Endless = {l1, l2}
  Conns = {c1, c2}
  Fds = {4, 5, 6}
  NumLoops = 2
  MaxEvents = 2
  Main = Main
  Listener = Listener
  None = None
  Logins = {p1, p2}
  Null = Null
  Garbage = Garbage
  MaxRequests = 2
  MaxVanish = 1
PROPERTY ShutdownEnds
CHECK_DEADLOCK FALSE
