CONSTANTS
  Object = {o1, o2}
  Var = {g, h}
  None = None
  MaxFrames = 3
  MaxOperands = 2
  MaxEntries = 2
  MaxStray = 1
  Keeps = {"loose", "operand"}
SPECIFICATION Spec
SYMMETRY Symmetric
CHECK_DEADLOCK FALSE
INVARIANTS
  NothingDangles
  SharesExact
  NothingLeaks
