SPECIFICATION Spec
CONSTANTS
  Menus <- MCMenus
  MapLines <- MCMapLines
  Keys = {"k", "l"}
  Vals = {"v", "null"}
  NoVal = "none"
  atoi <- MCatoi
  MaxSize = 2
  MaxNew = 3
  Length <- MCLength
  Times <- MCTimes
  INT_BITS = 4
  Default = 4
  BitSizes <- MCBitSizes
  Inputs <- MCInputs
  Values <- MCValues
  RingSizes <- MCRingSizes
  Texts <- MCTexts
  Amounts <- MCAmounts
  MaxRing = 2
  MaxUsed = 5
  NL = "NL"
  MaxThreads = 3
  MaxTimes = 2
  NoThread = 0
  Chars = {"a", "b", "SP", "NL"}
  NUL = "NUL"
  Junk = "b"
  Delims = {"SP", "NL"}
  TypedLines <- MCTypedLines
  STRBUFFSIZE = 2
INVARIANTS ShellsInv ResultsAreRight
PROPERTIES ImplementsAbstractTypes CommandsKeepTheRest CommandsReturn
CHECK_DEADLOCK FALSE
