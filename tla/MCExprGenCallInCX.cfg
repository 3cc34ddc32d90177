\* A call whose result register is cx: expected to be violated.
SPECIFICATION Spec
CONSTANTS
  NRegs = 3
  KindSets <- LeakingUnits
  ArgSizes <- WordArgs
  Word = 1
  MaxNodes = 6
  MaxArgs = 1
  MaxLeaks = 0
  CallRegs <- AnyReg
  MinFree = 0
INVARIANTS
  OperandsIntact
CHECK_DEADLOCK FALSE
