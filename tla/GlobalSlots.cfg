SPECIFICATION Spec
CONSTANTS
  Variables = {v1, v2}
  FunctionNames = {f1}
  ClassNames = {c1}
  MaxLocals = 3
  MaxOpened = 2
  MaxScopes = 4
  Rules <- AllRules
SYMMETRY VariableSymmetry
INVARIANTS
  SlotsExact
  NamesRight
  ClearRestores
PROPERTIES
  ValuesStay
