SPECIFICATION Spec
CONSTANTS
  Comps = {c1}
  c1 = c1
  Kinds = {"connect"}
  WaitSets <- OneWait
SYMMETRY Symmetry
PROPERTIES
  ConnectCompletes
CHECK_DEADLOCK FALSE
