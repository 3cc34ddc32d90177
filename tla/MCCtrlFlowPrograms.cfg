\* Two levels of nesting; conditions are 0 or 1, no literal in a for's third
\* expression.
SPECIFICATION Spec
CONSTANTS
  Conds <- MCConds
  Stmts <- MCStmts
  Programs <- MCPrograms
  Literals <- MCLiterals
  Vals <- Booleans
INVARIANTS
  TypeOK
  SameEvents
  FramesUnwound
  LabelsResolve
  LiteralsMatch
CHECK_DEADLOCK FALSE
