SPECIFICATION ConsumerSpec
CONSTANTS
  Sockets = {s1, s2}
  Msgs = {r1, r2}
  None = None
  KeepAlive = TRUE
  Jwt = FALSE
  UserOps = {"connect", "execute", "disconnect"}
  MaxOrphans = 1
  MaxQueue = 3
CHECK_DEADLOCK FALSE
SYMMETRY Symmetry
INVARIANTS
  LiveIsCurrent
  ReconnectOwed
  ListedIsHeard
  DeafOnlyWithExcuse
