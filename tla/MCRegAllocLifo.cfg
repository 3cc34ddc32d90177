\* Expressions without postfix operators, in a translation unit that leaks
\* fewer than NRegs registers.
SPECIFICATION LifoSpec
CONSTANTS
  NRegs = 3
  Vals <- MCVals
  UnaryOp <- MCUnaryOp
  BinaryOp <- MCBinaryOp
  None = None
  MaxLive = 6
  MaxLeaks = 2
INVARIANTS
  OperandsDistinct
  LiveFlagged
PROPERTY ImplementsOperandStack
