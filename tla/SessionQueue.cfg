SPECIFICATION Spec
CONSTANTS
  Sockets = {s1, s2}
  Msgs = {m1, m2}
  None = None
  KeepAlive = FALSE
  Jwt = FALSE
  UserOps = {"connect", "execute", "disconnect"}
  MaxOrphans = 1
  MaxQueue = 3
SYMMETRY Symmetry
CHECK_DEADLOCK FALSE
INVARIANTS
  NothingLost
  ReadyMeansFlushed
PROPERTIES
  ImplementsOutbox
