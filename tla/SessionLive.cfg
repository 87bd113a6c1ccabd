SPECIFICATION FairSpec
CONSTANTS
  Sockets = {s1, s2}
  Msgs = {}
  None = None
  KeepAlive = TRUE
  Jwt = TRUE
  UserOps = {"refresh"}
  MaxOrphans = 1
  MaxQueue = 1
CHECK_DEADLOCK FALSE
INVARIANT DeadPeerWatched
PROPERTIES
  KeepsReconnecting
  SentIsSettled
  DeadPeerDropped
