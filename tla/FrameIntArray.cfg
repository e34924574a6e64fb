\* Global INT arrays of several dimensions.
CONSTANTS
  S = S
  T = T
  NoTag = NoTag
  Tags = {S}
  Decls <- GlobalDecls
  MaxLocals = 1
  MaxFields = 1
SPECIFICATION Spec
INVARIANTS CommonCoversIntArray
CHECK_DEADLOCK FALSE
