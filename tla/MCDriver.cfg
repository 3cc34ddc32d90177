SPECIFICATION MCSpec
CONSTANTS
  Letters <- MCLetters
  Digits <- MCDigits
  Escapes <- MCEscapes
  Sources <- MCSources
  ArgVectors <- MCArgVectors
INVARIANTS
  TypeOK
  SameTokens
  ExitMeansAsm
  Reported
PROPERTIES
  FrontEndEnds
CHECK_DEADLOCK FALSE
