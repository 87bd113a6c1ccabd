CONSTANTS
  Calls = {c1, c2}
  None = None
  AutoRecover = TRUE
  UserOps = {"invite", "answer", "hangup"}
  Bare = TRUE
  MaxRestarts = 0
  MaxAttempts = 0
SPECIFICATION FairSpec
CHECK_DEADLOCK FALSE
INVARIANTS
  OpenPeerIsHeld
  RegisteredIsLive
  InvitedOnce
PROPERTIES
  KeepsItsPlace
  NeverFallsBack
  HangupEnds
  AnsweredConnects
