CONSTANTS
  o1 = o1
  o2 = o2
  o3 = o3
  f1 = f1
  f2 = f2
  v1 = v1
  Object <- MCObject
  Field <- MCField
  Variable <- MCVariable
  Saved <- MCVariable
  MaxDepth = 2
  MaxStray = 1
  Null = Null
  Rules <- MCRules
SPECIFICATION Spec
SYMMETRY MCSymmetric
INVARIANTS
  NoFault
  NothingDangles
  BookkeepingExact
  NothingStays
PROPERTIES
  CollectionInvisible
  UsesSharedPool
