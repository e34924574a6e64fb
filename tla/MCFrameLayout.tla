---------------------------- MODULE MCFrameLayout ----------------------------
(***************************************************************************)
(* Declarations for model-checking FrameLayout.                            *)
(***************************************************************************)
EXTENDS FrameLayout

CONSTANTS S, T

Product(dims) ==
  LET p[i \in 0..Len(dims)] == IF i = 0 THEN 1 ELSE p[i - 1] * dims[i]
  IN  p[Len(dims)]

Decl(base, t, stars, dims) ==
  [base |-> base, tag |-> t, stars |-> stars, ndims |-> Len(dims),
   cnt |-> Product(dims),
   last |-> IF dims = <<>> THEN 1 ELSE dims[Len(dims)]]

Scalar(base) == Decl(base, NoTag, 0, <<>>)

\* One word, one byte, a struct, a pointer to it, and arrays of every shape.
MixedDecls ==
  { Scalar("INT"), Scalar("CHAR"),
    Decl("STRUCT", S, 0, <<>>), Decl("STRUCT", S, 1, <<>>),
    Decl("INT", NoTag, 0, <<3>>), Decl("CHAR", NoTag, 0, <<10>>),
    Decl("CHAR", NoTag, 1, <<2>>) }

\* Few declarations, so that a function can have more than six parameters.
ScalarDecls == { Scalar("INT"), Decl("STRUCT", S, 0, <<>>) }

\* Functions of any mixture have up to four variables, those of words and
\* structs up to eight (the constraint of frame_locals).
FewLocals ==
  Len(locals) <= 4 \/ \A i \in 1..Len(locals) : locals[i].d \in ScalarDecls

\* Structs inside structs, self pointers, and arrays as members.
MemberDecls ==
  { Scalar("CHAR"), Decl("VOID", NoTag, 1, <<>>),
    Decl("STRUCT", S, 0, <<>>), Decl("STRUCT", S, 1, <<>>),
    Decl("STRUCT", T, 1, <<>>), Decl("INT", NoTag, 0, <<9>>) }

\* The same, with arrays of structs among the globals.
StructDecls ==
  MemberDecls \cup { Decl("STRUCT", S, s, <<2, 3>>) : s \in 0..1 }

\* Members do without the arrays of structs (the constraint of frame_structs).
FewFields == \A i \in 1..Len(fields) : fields[i].d \in MemberDecls

\* Globals of every base type, with zero to three dimensions.
GlobalDecls ==
  { Decl(b, NoTag, s, ds) : b \in {"INT", "CHAR", "BOOL"}, s \in 0..1,
                            ds \in {<<>>, <<3>>, <<2, 3>>, <<4, 2, 4>>} }
  \cup { Decl("STRUCT", S, s, ds) : s \in 0..1, ds \in {<<>>, <<3>>, <<2, 3>>} }
=============================================================================
