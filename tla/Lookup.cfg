\* Three classes that extend one another or not, with one method, one operator
\* and a property of the same name.  Two names of natives, up to three natives
\* of one parameter or of two, a script function and the main code.
CONSTANTS
  ClassNames = {Base, Middle, Leaf}
  Methods = {size}
  Operators = {add}
  Properties = {size}
  MaxFunctions = 5
  Rules <- MCRules
  NativeNames = {one, two}
  Signatures <- MCSignatures
  ArgLists <- MCArgLists
  Functions = {main, body}
  MainFunction = main
  MaxNatives = 3
  CallRules <- MCCallRules
SYMMETRY Renamings
SPECIFICATION MCSpec
CHECK_DEADLOCK FALSE
INVARIANTS
  TablesInherit
  SuperStepsUp
  CallsMostDerived
  CallsStayRight
  ArgumentsFit
