CONSTANTS
  Locals <- TheLocals
  Globals <- TheGlobals
  Programs <- ThePrograms
  Starts <- TheStarts
  Keeps = {"flat", "one type", "one update"}
  Functions <- TheFunctions
  Classes <- TheClasses
  Constructors <- TheConstructors
  AccessPrograms <- TheAccesses
  Memory <- TheMemory
  ChainRules = {"stack call", "field function", "late argument", "reference", "default"}
  Inputs <- MCInputs
  Now <- MCNow
  Months <- MCMonths
  Units <- MCUnits
  Formats <- MCFormats
  MaxOps = 3
  DateRules = {"day", "width", "clock", "half", "month", "settled"}
  Graphs <- MCGraphs
  Documents <- MCDocuments
  MaxLays = 1
  MaxNest = 5
  JsonRules = {"cycle", "property", "glued"}
SPECIFICATION MCSpec
CHECK_DEADLOCK FALSE
INVARIANTS
  RunsAsMeant
  AccessesAreMeant
  DatesAreMeant
  DifferencesAreMeant
  ReadsBack
  AllIsHeld
