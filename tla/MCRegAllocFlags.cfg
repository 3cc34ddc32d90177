\* Every operator, past the point where leaks wrap around the pool.
SPECIFICATION Spec
CONSTANTS
  NRegs = 3
  Vals <- MCVals
  UnaryOp <- MCUnaryOp
  BinaryOp <- MCBinaryOp
  None = None
  MaxLive = 6
  MaxLeaks = 4
INVARIANTS
  TypeOK
  UsedExact
  StackExact
