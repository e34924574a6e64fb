\* Two lines of 9cc's own source.
CONSTANTS
  Inputs <- OwnSource
  MaxMarks = 0
  MaxPieces = 0
  MaxTokens = 24
SPECIFICATION Spec
INVARIANT CompilesItself
CHECK_DEADLOCK FALSE
