SPECIFICATION Spec
CONSTANTS
  Calls = {c1, c2}
  Extras <- TwoExtras
  Slots = {r1, r2}
  MaxBoots = 1
  Absent = Absent
  None = None
SYMMETRY Symmetry
INVARIANTS
  HandledOnce
  OwnerKnows
  OwnerIsServed
