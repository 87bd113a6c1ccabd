SPECIFICATION Spec
CONSTANTS
  Shares = {s1}
  main = main
  None = None
  MaxTracks = 4
  MaxAsked = 2
SYMMETRY Symmetry
CHECK_DEADLOCK FALSE
INVARIANTS
  HeldIsAll
  EndStopsAll
  MuteLasts
