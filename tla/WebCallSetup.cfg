CONSTANTS
  Calls = {c1}
  None = None
  AutoRecover = TRUE
  UserOps = {"invite", "answer", "again", "hangup", "hold", "restart", "disconnect"}
  Bare = TRUE
  MaxRestarts = 1
  MaxAttempts = 1
SPECIFICATION Spec
CHECK_DEADLOCK FALSE
INVARIANTS
  DescriptionIsComing
PROPERTIES
  InvitesAgainAfterBye
