SPECIFICATION FairSpec
CONSTANTS
  Comps = {c1, c2}
  c1 = c1
  c2 = c2
  Kinds = {"dial", "answer", "hangup", "await", "pass", "connect", "disconnect", "record", "beep", "digit"}
  WaitSets <- OneWait
INVARIANTS
  CompletedIsReleased
  EndedStopsAll
  BeepIsAwaited
PROPERTIES
  ImplementsOperations
  EndReleases
CHECK_DEADLOCK FALSE
