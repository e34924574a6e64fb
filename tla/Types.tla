--------------------------------- MODULE Types ---------------------------------
(***************************************************************************)
(* Sizes of types.  A declaration d has the base type d.base, d.stars      *)
(* pointers to it, and d.ndims dimensions, of d.cnt elements in all.       *)
(***************************************************************************)
EXTENDS Integers

get_size(kind) == IF kind = "CHAR" THEN 1 ELSE 8

\* Outermost constructor of a declaration's Type, and of what it points to.
TypeKind(d) ==
  IF d.ndims > 0 THEN "ARRAY" ELSE IF d.stars > 0 THEN "PTR" ELSE d.base

Pointee(d) ==
  IF d.ndims > 0
  THEN TypeKind([d EXCEPT !.ndims = @ - 1])
  ELSE TypeKind([d EXCEPT !.stars = @ - 1])

\* The factor primary() scales an index with.
get_element_size(d) ==
  IF TypeKind(d) \in {"PTR", "ARRAY"} THEN get_size(Pointee(d))
                                     ELSE get_size(TypeKind(d))

\* An array ignores every offset handed out before it.
ArrayOffset(d, kind_size) ==
  (d.cnt - 1) * kind_size + ((d.cnt - 1) \div 8 + 1) * 8
================================================================================
