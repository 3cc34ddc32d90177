SPECIFICATION Spec
CONSTANTS
  ByteMod = 4
  BitAnd <- BitwiseAnd
  Objects <- MCObjects
  Memories <- MCMemories
  Grammars <- MCGrammars
  MaxNodes = 6
INVARIANTS
  TypeOK
  ValueAgrees
  MemoryAgrees
  TypesAgree
  Verdict
CHECK_DEADLOCK FALSE
