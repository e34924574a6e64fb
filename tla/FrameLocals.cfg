\* Functions that mix scalars, structs and arrays, up to a seventh parameter.
CONSTANTS
  S = S
  T = T
  NoTag = NoTag
  Tags = {S}
  Decls <- MixedDecls
  MaxLocals = 8
  MaxFields = 2
SPECIFICATION Spec
INVARIANTS TypeOK ScalarsAdjacent LocalsDisjoint FrameCoversLocals
CONSTRAINT FewLocals
CHECK_DEADLOCK FALSE
