CONSTANTS
  o1 = o1
  o2 = o2
  o3 = o3
  o4 = o4
  b1 = b1
  b2 = b2
  Object <- MCObject
  Block <- MCBlock
  Null = Null
  ShareRange = 4
  MaxRefs = 2
SPECIFICATION FairSpec
INVARIANTS
  RingsConsistent
  NothingThrown
PROPERTIES
  ImplementsPool
  SweepEnds
