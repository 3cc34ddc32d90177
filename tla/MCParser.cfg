SPECIFICATION Spec
CONSTANTS
  Texts <- MCTexts
  Past <- MCPast
INVARIANTS TypeOK SameProgram AcceptsC
PROPERTIES Ends
CHECK_DEADLOCK FALSE
