CONSTANTS
  Programs <- MCLeave
  MaxBlocks = 5
SPECIFICATION FairCode
CHECK_DEADLOCK FALSE
PROPERTIES
  ImplementsSource
