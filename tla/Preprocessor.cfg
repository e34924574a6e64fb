\* Every token list of at most four lines.
CONSTANTS
  Inputs <- AllInputs
  MaxLines = 4
  HASHMAP_SIZE = 3
SPECIFICATION Spec
INVARIANTS TypeOK CrashExplained StrayExplained
PROPERTIES KeepsPromise Termination
CHECK_DEADLOCK FALSE
