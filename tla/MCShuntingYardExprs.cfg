\* Every expression of the bounded depth.
SPECIFICATION Spec
CONSTANTS
  Sources <- MCSources
INVARIANTS
  TypeOK
  SameTree
  Accepted
  NoCrash
PROPERTIES
  Terminates
CHECK_DEADLOCK FALSE
