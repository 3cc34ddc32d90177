\* Variables of any size, array initialisers, nested blocks and bodies.
SPECIFICATION Spec
CONSTANTS
  Sizes <- AllSizes
  Inits <- SomeInits
  NParams = 1
  Modulus <- MCModulus
  Base <- MCBase
  MaxVars = 5
  MaxDepth = 3
INVARIANTS
  TypeOK
  SameAddress
  NoOverlap
  OutermostAligned
