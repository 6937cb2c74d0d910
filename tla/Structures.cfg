\* Functions of control statements two deep.  Up to four fields of three names,
\* or four elements, and two nested loops, of a container that may die under
\* them.  Texts up to four letters, in sessions of three operations.
CONSTANTS
  Programs <- MCPrograms
  MaxBlocks = 5
  Keys <- MCKeys
  MaxLoops = 2
  MaxNodes = 4
  BodyRules <- MCBodyRules
  Letters <- MCLetters
  Literals <- MCLiterals
  Spare = 2
  MaxLength = 4
  MaxSteps = 3
  TextRules = {"other", "filled", "needle", "rest", "plain", "start"}
SPECIFICATION MCSpec
CHECK_DEADLOCK FALSE
INVARIANTS
  CodeFits
  FieldsAgree
  LoopsExact
  BlocksHold
  TextsAreMeant
  AnswersAreMeant
PROPERTIES
  ImplementsSource
  DestroyEnds
