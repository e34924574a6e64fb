\* && on a right operand that need not be 0 or 1: violated.
CONSTANTS
  Programs <- LogicalPrograms
  Rsp0 <- OneAlignment
  Width = 32768
  StackTop = 4096
  CodeSize = 10
  LiteralsSize = 1
  Height = 12
SPECIFICATION Spec
INVARIANT ResultCorrect
