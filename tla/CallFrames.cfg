SPECIFICATION FairSpec
CONSTANTS
  MaxCalls = 4
  MaxBlocks = 2
  MaxNest = 8
  Rules <- AllRules
INVARIANTS
  FramesMatch
  ErrorsHeard
PROPERTIES
  ErrorEnds
