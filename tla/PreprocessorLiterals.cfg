\* A literal that reads like a macro.
CONSTANTS
  Inputs <- AllInputs
  MaxLines = 2
  HASHMAP_SIZE = 3
SPECIFICATION Spec
PROPERTIES LiteralsKept
CHECK_DEADLOCK FALSE
