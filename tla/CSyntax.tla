-------------------------------- MODULE CSyntax --------------------------------
(***************************************************************************)
(* The C that Parser is given: how programs are written, and the trees C   *)
(* says they mean.  An expression is a record of the kinds 9cc uses for    *)
(* its nodes and of VAR, NEG, GT, GE, INDEX, MEMBER, SIZEOF and STR; Text  *)
(* writes it with the parentheses C's precedences need, and no others.     *)
(* Nothing here is taken from parser.c but the size of an int in memory,   *)
(* eight bytes, and its size as an operand of sizeof, four.                *)
(***************************************************************************)
EXTENDS Integers, Sequences, SequencesExt

Op(text)   == <<"RESERVED", text>>
Word(kind) == <<kind, "">>
Id(name)   == <<"INDENT", name>>

Sign ==
  [ASSIGN |-> "=", OR |-> "||", AND |-> "&&", EQ |-> "==", NE |-> "!=",
   LT |-> "<", LE |-> "<=", GT |-> ">", GE |-> ">=", ADD |-> "+", SUB |-> "-",
   MUL |-> "*", DIV |-> "/", MOD |-> "%"]
Prefix == [NEG |-> "-", ADDR |-> "&", DEREF |-> "*", NOT |-> "!"]

\* C's precedences, from the loosest; anything else binds tighter still.
Levels ==
  <<{"ASSIGN"}, {"OR"}, {"AND"}, {"EQ", "NE"}, {"LT", "LE", "GT", "GE"}, {"ADD", "SUB"},
    {"MUL", "DIV", "MOD"}, DOMAIN Prefix \cup {"CAST"}>>
Postfix == Len(Levels) + 1
Level(e) ==
  IF \E i \in DOMAIN Levels : e.kind \in Levels[i]
  THEN CHOOSE i \in DOMAIN Levels : e.kind \in Levels[i] ELSE Postfix

RECURSIVE Text(_, _), Written(_)

\* The tokens of e where C expects an expression of level `min`.
Text(e, min) ==
  LET level   == Level(e)
      assigns == e.kind = "ASSIGN"
      left    == Text(e.lhs, IF assigns THEN Postfix - 1 ELSE level)
      right   == Text(e.rhs, IF assigns THEN level ELSE level + 1)
      args    == [i \in DOMAIN e.arg |->
                    (IF i = 1 THEN <<>> ELSE <<Op(",")>>) \o Text(e.arg[i], 1)]
      text == CASE e.kind \in DOMAIN Sign   -> left \o <<Op(Sign[e.kind])>> \o right
                [] e.kind \in DOMAIN Prefix -> <<Op(Prefix[e.kind])>> \o Text(e.lhs, Postfix - 1)
                [] e.kind = "CAST"   -> <<Op("("), Word(e.to.base), Op("*"), Op(")")>>
                                          \o Text(e.lhs, Postfix - 1)
                [] e.kind = "SIZEOF" -> <<Word("SIZEOF"), Op("(")>> \o Text(e.lhs, 1) \o <<Op(")")>>
                [] e.kind = "NUM"    -> <<<<"NUM", e.val>>>>
                [] e.kind = "STR"    -> <<<<"STR", e.val>>>>
                [] e.kind = "VAR"    -> <<Id(e.name)>>
                [] e.kind = "CALL"   -> <<Id(e.name), Op("(")>> \o FlattenSeq(args) \o <<Op(")")>>
                [] e.kind = "INDEX"  -> Text(e.lhs, Postfix) \o FlattenSeq([i \in DOMAIN e.index |->
                                            <<Op("[")>> \o Text(e.index[i], 1) \o <<Op("]")>>])
                [] e.kind = "MEMBER" -> Text(e.lhs, Postfix) \o <<Op(IF e.ptr THEN "->" ELSE "."), Id(e.name)>>
  IN  IF level < min THEN <<Op("(")>> \o text \o <<Op(")")>> ELSE text

\* A type has a base, a struct's tag, stars, and dimensions, the outermost first.
CType(base, tag, stars, dims) == [base |-> base, tag |-> tag, stars |-> stars, dims |-> dims]

Declared(d) ==
  <<Word(d.type.base)>> \o (IF d.type.base = "STRUCT" THEN <<Id(d.type.tag)>> ELSE <<>>)
    \o [i \in 1..d.type.stars |-> Op("*")] \o <<Id(d.name)>>
    \o FlattenSeq([i \in DOMAIN d.type.dims |-> <<Op("["), <<"NUM", d.type.dims[i]>>, Op("]")>>])

\* A statement; NULL is a missing part of a `for` or `return`.
Written(s) ==
  LET Part(e)  == IF e.kind = "NULL" THEN <<>> ELSE Text(e, 1)
      Test(e)  == <<Op("(")>> \o Text(e, 1) \o <<Op(")")>>
  IN  CASE s.kind = "BLOCK"   -> <<Op("{")>> \o FlattenSeq([i \in DOMAIN s.child |-> Written(s.child[i])])
                                   \o <<Op("}")>>
        [] s.kind = "IF"      -> <<Word("IF")>> \o Test(s.lhs) \o Written(s.rhs)
        [] s.kind = "IF_ELSE" -> <<Word("IF")>> \o Test(s.lhs) \o Written(s.rhs)
                                   \o <<Word("ELSE")>> \o Written(s.elsehs)
        [] s.kind = "WHILE"   -> <<Word("WHILE")>> \o Test(s.lhs) \o Written(s.rhs)
        [] s.kind = "FOR"     -> <<Word("FOR"), Op("(")>> \o Part(s.initstmt) \o <<Op(";")>>
                                   \o Part(s.testexpr) \o <<Op(";")>> \o Part(s.updstmt)
                                   \o <<Op(")")>> \o Written(s.lhs)
        [] s.kind = "RETURN"  -> <<Word("RETURN")>> \o Part(s.lhs) \o <<Op(";")>>
        [] s.kind = "DECL"    -> Declared(s) \o <<Op(";")>>
        [] OTHER              -> Text(s, 1) \o <<Op(";")>>

\* A program is a sequence of definitions.
Definition(d) ==
  CASE d.def = "global"   -> Declared(d) \o <<Op(";")>>
    [] d.def = "struct"   -> <<Word("STRUCT"), Id(d.name), Op("{")>>
                               \o FlattenSeq([i \in DOMAIN d.members |-> Declared(d.members[i]) \o <<Op(";")>>])
                               \o <<Op("}"), Op(";")>>
    [] d.def = "enum"     -> <<Word("TYPEDEF"), Word("ENUM"), Op("{")>>
                               \o FlattenSeq([i \in DOMAIN d.names |-> <<Id(d.names[i]), Op(",")>>])
                               \o <<Op("}"), Id(d.name), Op(";")>>
    [] d.def = "function" -> <<Word("INT"), Id(d.name), Op("(")>>
                               \o FlattenSeq([i \in DOMAIN d.params |->
                                    (IF i = 1 THEN <<>> ELSE <<Op(",")>>) \o Declared(d.params[i])])
                               \o <<Op(")")>> \o Written(d.body)
Tokens(program) == FlattenSeq([i \in DOMAIN program |-> Definition(program[i])])

-----------------------------------------------------------------------------
(* Types and trees.  `env` gives the type and the node of every variable,    *)
(* and of every struct its members: type, offset.                            *)

Integer == CType("INT", "", 0, <<>>)
Size == CType("LONG", "", 0, <<>>)
IsAddress(t) == t.stars > 0 \/ t.dims # <<>>
Element(t) == IF t.dims # <<>> THEN [t EXCEPT !.dims = Tail(@)] ELSE [t EXCEPT !.stars = @ - 1]

Indexed(t, n) ==
  LET after[i \in 0..n] == IF i = 0 THEN t ELSE Element(after[i - 1]) IN after[n]

\* The bytes of a type with `int` bytes for an int.
Bytes(t, int) ==
  LET unit == IF t.stars > 0 \/ t.base = "LONG" THEN 8 ELSE IF t.base = "INT" THEN int ELSE 1
      b[i \in 0..Len(t.dims)] == IF i = 0 THEN unit ELSE b[i - 1] * t.dims[i]
  IN  b[Len(t.dims)]

RECURSIVE TypeOf(_, _), Tree(_, _)

TypeOf(e, env) ==
  CASE e.kind = "VAR"    -> env.var[e.name].type
    [] e.kind = "CAST"   -> e.to
    [] e.kind = "SIZEOF" -> Size
    [] e.kind = "ADDR"   -> [TypeOf(e.lhs, env) EXCEPT !.stars = @ + 1]
    [] e.kind = "DEREF"  -> Element(TypeOf(e.lhs, env))
    [] e.kind = "INDEX"  -> Indexed(TypeOf(e.lhs, env), Len(e.index))
    [] e.kind = "MEMBER" -> env.struct[TypeOf(e.lhs, env).tag][e.name].type
    [] e.kind \in {"ADD", "SUB"} ->
         LET l == TypeOf(e.lhs, env)  r == TypeOf(e.rhs, env)
         IN  CASE IsAddress(l) /\ ~IsAddress(r) -> l
               [] ~IsAddress(l) /\ IsAddress(r) -> r
               [] OTHER -> Integer
    [] OTHER -> Integer

Unary(kind, e) == [kind |-> kind, lhs |-> e]
Number(v) == [kind |-> "NUM", val |-> v]

\* A binary node, with the arithmetic of numbers done: addresses that are the
\* same distance from the same variable become the same tree.
Binary2(kind, l, r) ==
  CASE {l.kind, r.kind} = {"NUM"} /\ kind = "MUL" -> Number(l.val * r.val)
    [] {l.kind, r.kind} = {"NUM"} /\ kind = "ADD" -> Number(l.val + r.val)
    [] l.kind # "NUM" /\ kind = "MUL" /\ r = Number(1) -> l
    [] l.kind = "ADD" /\ r.kind = "NUM" /\ kind = "ADD" /\ l.rhs.kind = "NUM" ->
         [l EXCEPT !.rhs = Number(l.rhs.val + r.val)]
    [] OTHER -> [kind |-> kind, lhs |-> l, rhs |-> r]

\* && and || associate: a chain is the same from either side.
RECURSIVE Chain(_, _, _)
Chain(kind, l, r) ==
  IF l.kind = kind THEN [l EXCEPT !.rhs = Chain(kind, l.rhs, r)]
                   ELSE [kind |-> kind, lhs |-> l, rhs |-> r]

\* An index or summand of an address of type t.
Scaled(n, t) == Binary2("MUL", n, Number(Bytes(Element(t), 8)))

Tree(e, env) ==
  LET l  == Tree(e.lhs, env)
      r  == Tree(e.rhs, env)
      lt == TypeOf(e.lhs, env)
      rt == TypeOf(e.rhs, env)
      At(address, t) == IF t.dims # <<>> THEN address ELSE Unary("DEREF", address)
      place[i \in 0..Len(e.index)] ==
        IF i = 0 THEN l
        ELSE Binary2("ADD", place[i - 1], Scaled(Tree(e.index[i], env), Indexed(lt, i - 1)))
  IN  CASE e.kind = "NUM"    -> e
        [] e.kind = "VAR"    -> IF env.var[e.name].type.dims # <<>>
                                THEN Unary("ADDR", env.var[e.name].node) ELSE env.var[e.name].node
        [] e.kind = "NEG"    -> [kind |-> "SUB", lhs |-> Number(0), rhs |-> l]
        [] e.kind \in {"NOT", "CAST"} -> Unary(e.kind, l)
        [] e.kind = "DEREF"  -> At(l, Element(lt))
        [] e.kind = "INDEX"  -> At(place[Len(e.index)], Indexed(lt, Len(e.index)))
        [] e.kind = "ADDR"   -> IF lt.dims # <<>> THEN l
                                ELSE IF e.lhs.kind \in {"DEREF", "INDEX"} THEN l.lhs ELSE Unary("ADDR", l)
        [] e.kind = "SIZEOF" -> Number(Bytes(lt, 4))
        [] e.kind = "MEMBER" -> [l EXCEPT !.path = Append(@, [ptr |-> e.ptr, offset |->
                                   env.struct[lt.tag][e.name].at])]
        [] e.kind = "CALL"   -> [kind |-> "FUNCALL", name |-> e.name,
                                 arg |-> [i \in DOMAIN e.arg |-> Tree(e.arg[i], env)]]
        [] e.kind \in {"GT", "GE"} -> Binary2(IF e.kind = "GT" THEN "LT" ELSE "LE", r, l)
        [] e.kind \in {"AND", "OR"} -> Chain(e.kind, l, r)
        [] e.kind = "ADD"    -> IF IsAddress(lt) THEN Binary2("ADD", l, Scaled(r, lt))
                                ELSE IF IsAddress(rt) THEN Binary2("ADD", Scaled(l, rt), r)
                                ELSE Binary2("ADD", l, r)
        [] e.kind = "SUB"    -> IF ~IsAddress(lt) THEN Binary2("SUB", l, r)
                                ELSE IF IsAddress(rt)
                                THEN Binary2("DIV", Binary2("SUB", l, r), Number(Bytes(Element(lt), 8)))
                                ELSE Binary2("SUB", l, Scaled(r, lt))
        [] OTHER             -> Binary2(e.kind, l, r)
=============================================================================
