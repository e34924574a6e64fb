\* Structs with self pointers, nested structs and arrays, and globals of them.
CONSTANTS
  S = S
  T = T
  NoTag = NoTag
  Tags = {S, T}
  Decls <- StructDecls
  MaxLocals = 1
  MaxFields = 3
SPECIFICATION Spec
INVARIANTS FieldsDisjoint StructLayoutCanonical CommonCoversGlobal
CONSTRAINT FewFields
CHECK_DEADLOCK FALSE
