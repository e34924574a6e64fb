\* Texts of comments and literals, and lines with definitions and keywords.
CONSTANTS
  Inputs <- Files
  MaxMarks = 5
  MaxPieces = 3
  MaxTokens = 14
SPECIFICATION Spec
INVARIANTS TypeOK StopsExplained DefineEnds FeedsPreprocessor
PROPERTIES ReadsAsC Termination
CHECK_DEADLOCK FALSE
