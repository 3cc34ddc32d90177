\* One leak more than MCRegAllocLifo allows: expected to be violated.
SPECIFICATION LifoSpec
CONSTANTS
  NRegs = 3
  Vals <- MCVals
  UnaryOp <- MCUnaryOp
  BinaryOp <- MCBinaryOp
  None = None
  MaxLive = 4
  MaxLeaks = 3
INVARIANTS
  OperandsDistinct
