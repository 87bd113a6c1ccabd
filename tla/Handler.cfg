SPECIFICATION Spec
CONSTANTS
  Callbacks = {c1, c2}
  Ids = {own, GLOBAL}
  GLOBAL = GLOBAL
  MaxRegs = 4
  MaxDepth = 2
SYMMETRY Symmetry
INVARIANTS
  OnceIsOnce
  StayersHeard
  IntactWalk
