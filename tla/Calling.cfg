SPECIFICATION Spec
CONSTANTS
  Objs = {o1, o2, o3, o4}
  Legs = {l1, l2}
  None = None
SYMMETRY Symmetry
CONSTRAINT TwoDials
INVARIANTS
  HeldIsFound
  FollowsItsLeg
  DialIsSettled
  EndedIsForgotten
CHECK_DEADLOCK FALSE
PROPERTIES
  CallsGoForward
  DialsAreOperations
