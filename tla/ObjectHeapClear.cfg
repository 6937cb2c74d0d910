CONSTANTS
  o1 = o1
  o2 = o2
  o3 = o3
  f1 = f1
  f2 = f2
  v1 = v1
  Object <- MCObject
  Field <- MCFields
  Variable <- MCVariable
  Saved <- MCVariable
  MaxDepth = 1
  MaxStray = 1
  Null = Null
  Rules <- MCRules
SPECIFICATION FairSpec
PROPERTIES
  GarbageCleared
