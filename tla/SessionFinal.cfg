SPECIFICATION Spec
CONSTANTS
  Sockets = {s1, s2, s3}
  Msgs = {}
  None = None
  KeepAlive = FALSE
  Jwt = FALSE
  UserOps = {"connect", "disconnect"}
  MaxOrphans = 1
  MaxQueue = 2
CHECK_DEADLOCK FALSE
INVARIANT DisconnectIsFinal
