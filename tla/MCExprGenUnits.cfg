\* Units with postfix operators and without leaks, and the other way round.
SPECIFICATION Spec
CONSTANTS
  NRegs = 3
  KindSets <- BothUnits
  ArgSizes <- WordArgs
  Word = 1
  MaxNodes = 8
  MaxArgs = 2
  MaxLeaks = 2
  CallRegs <- NotCX
  MinFree = 2
INVARIANTS
  TypeOK
  OperandsIntact
  ArgsInPlace
  CallerSavedMatched
  LabelBalanced
  StatementClean
CHECK_DEADLOCK FALSE
