\* Arrays declared after other variables.
CONSTANTS
  S = S
  T = T
  NoTag = NoTag
  Tags = {S}
  Decls <- MixedDecls
  MaxLocals = 2
  MaxFields = 1
SPECIFICATION Spec
INVARIANTS AnyLocalsDisjoint
CHECK_DEADLOCK FALSE
