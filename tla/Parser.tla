--------------------------------- MODULE Parser ---------------------------------
(***************************************************************************)
(* parser.c and container.c: recursive descent over the token list, with   *)
(* the tables of names.  Every routine of the parser is an operator from   *)
(* the state it is called in to what it returns and the state it leaves,   *)
(* [n, s].  The trees are those of Codegen, and FrameLayout places the     *)
(* variables.                                                              *)
(*                                                                         *)
(* A token is <<kind, value>>, its value the text, or the number of a NUM  *)
(* and the code of an LT_CHAR; an EOF is last.  The lists that grow at the *)
(* head in C grow at the end here.  A type is a declaration as FrameLayout *)
(* has it, with its dimensions, and with `named`, which says where 9cc     *)
(* keeps the tag of a struct: in the innermost type or in the outermost.   *)
(***************************************************************************)
EXTENDS Integers, Sequences, FiniteSetsExt, Types

EOF == <<"EOF", "">>
Null == [kind |-> "NULL"]   \* Codegen's NoNode
NoType == [base |-> "NONE", tag |-> "", stars |-> 0, ndims |-> 0]

Start(tokens) ==
  [toks |-> tokens, locals |-> <<>>, offset |-> 0, globals |-> <<>>,
   structs |-> [t \in {} |-> 0], parent |-> "", enums |-> <<>>, typedefs |-> <<>>,
   lits |-> <<>>, arg_type |-> NoType, failed |-> FALSE]

-----------------------------------------------------------------------------
(* The token list. *)

Returns(n, s) == [n |-> n, s |-> s]

Sees(s, op) == Head(s.toks) = <<"RESERVED", op>>
SeesKind(s, kind) == Head(s.toks)[1] = kind
at_eof(s) == SeesKind(s, "EOF")
Advance(s) == [s EXCEPT !.toks = Tail(@)]

\* error(), error_at() or a null dereference: 9cc ends and reads nothing more.
Fail(s) == [s EXCEPT !.toks = <<EOF>>, !.failed = TRUE]

expect(s, op) == IF Sees(s, op) THEN Advance(s) ELSE Fail(s)

\* consume_indent(), by a caller that uses the token unchecked.
Ident(s) ==
  IF SeesKind(s, "INDENT") THEN Returns(Head(s.toks)[2], Advance(s))
                           ELSE Returns("", Fail(s))

RECURSIVE Stars(_, _), Dims(_, _)
Stars(n, s) == IF Sees(s, "*") THEN Stars(n + 1, Advance(s)) ELSE Returns(n, s)

Dims(dims, s) ==
  IF ~Sees(s, "[") THEN Returns(dims, s)
  ELSE IF ~SeesKind(Advance(s), "NUM") THEN Returns(dims, Fail(s))
  ELSE Dims(Append(dims, Head(Tail(s.toks))[2]), expect(Advance(Advance(s)), "]"))

-----------------------------------------------------------------------------
(* Tables. *)

Found(list, name) == { i \in DOMAIN list : list[i].name = name }

\* The entry that was added last.
find(list, name) == list[Max(Found(list, name))]

Product(dims) ==
  LET p[i \in 0..Len(dims)] == IF i = 0 THEN 1 ELSE p[i - 1] * dims[i]
  IN  p[Len(dims)]

Type(base, tag, named, stars, dims) ==
  [base |-> base, tag |-> tag, named |-> named, stars |-> stars, dims |-> dims,
   ndims |-> Len(dims), cnt |-> Product(dims),
   last |-> IF dims = <<>> THEN 1 ELSE dims[Len(dims)]]

\* type_name of a type and of what it points to, "" for none.
TypeName(t) ==
  IF t.base = "STRUCT" /\ (t.named = "top" \/ t.stars + t.ndims = 0) THEN t.tag ELSE ""
PointeeName(t) ==
  IF t.base = "STRUCT" /\ t.named = "base" /\ t.stars + t.ndims = 1 THEN t.tag ELSE ""

get_struct_node_offset(struct, name) ==
  MapThenSumSet(LAMBDA i : struct.fields[i].at, Found(struct.fields, name))

-----------------------------------------------------------------------------
(* Declarations. *)

get_next_offset(s, val) ==
  LET head == IF s.locals = <<>> THEN 0 ELSE s.locals[Len(s.locals)].off
  IN  (IF s.offset < head THEN head ELSE s.offset) + (IF val <= 8 THEN 8 ELSE val)

\* The offset declared_lvar gives a variable, and `_offset` after it.
declared_lvar(s, t, kind_size) ==
  IF t.ndims > 0 THEN ArrayOffset(t, kind_size) ELSE get_next_offset(s, kind_size)
OffsetAfter(s, t, kind_size) ==
  IF t.ndims > 0 THEN s.offset ELSE get_next_offset(s, kind_size)

\* kind_size of a parameter or member, and of a local.
MemberKindSize(s, t) ==
  IF t.base # "STRUCT" THEN get_size(t.base)
  ELSE IF t.tag = s.parent THEN 8 ELSE s.structs[t.tag].size
StmtKindSize(s, t) ==
  IF t.base = "STRUCT" THEN s.structs[t.tag].size ELSE IF t.base = "INT" THEN 8 ELSE 1

\* A variable becomes the head of `locals`.
AddLocal(s, var, kind_size) ==
  [s EXCEPT !.locals = Append(@, [name |-> var.name, d |-> var.type,
                                  off |-> declared_lvar(s, var.type, kind_size)]),
            !.offset = OffsetAfter(s, var.type, kind_size)]

\* The declarator declared_lvar reads: [name, type].
Declarator(base, tag, named, s) ==
  LET stars == Stars(0, s)
      name  == Ident(stars.s)
      dims  == Dims(<<>>, name.s)
  IN  Returns([name |-> name.n, type |-> Type(base, tag, named, stars.n, dims.n)], dims.s)

\* INT, CHAR and BOOL, and declare_structs(), which reads no dimensions.
LocalDeclaration(s) ==
  LET kind   == Head(s.toks)[1]
      struct == Ident(Advance(s))
      after  == IF kind = "STRUCT" THEN struct.s ELSE Advance(s)
      var    == Declarator(kind, IF kind = "STRUCT" THEN struct.n ELSE "", "base", after)
  IN  IF var.s.failed \/ (kind = "STRUCT" /\ (struct.n \notin DOMAIN s.structs
                                              \/ var.n.type.ndims > 0))
      THEN Fail(s)
      ELSE expect(AddLocal(var.s, var.n, StmtKindSize(s, var.n.type)), ";")

\* Base type and tag of a parameter, member or typedef.  A name that is not a
\* typedef, such as an enum's, is an INT; a typedef keeps its outermost kind.
parse_type_base(s, allow_undef) ==
  LET kind == Head(s.toks)[1]
      name == Ident(Advance(s))
      Base(base, tag) == [base |-> base, tag |-> tag]
  IN  CASE kind \in {"INT", "CHAR", "BOOL", "VOID"} -> Returns(Base(kind, ""), Advance(s))
        [] kind = "STRUCT" ->
             Returns(Base("STRUCT", name.n),
               IF allow_undef \/ name.n \in DOMAIN s.structs \cup {s.parent}
               THEN name.s ELSE Fail(s))
        [] kind = "INDENT" /\ Found(s.typedefs, Head(s.toks)[2]) # {} ->
             Returns(find(s.typedefs, Head(s.toks)[2]).type, Advance(s))
        [] OTHER -> Returns(Base("INT", ""), IF allow_undef THEN s
                                             ELSE IF kind = "INDENT" THEN Advance(s) ELSE Fail(s))

\* [name, type] of a parameter or member; the offset comes from AddLocal or,
\* for a member, adds up.
declared_lvar_undefined_type(s) ==
  LET base == parse_type_base(s, FALSE)
      var  == Declarator(base.n.base, base.n.tag, "top", base.s)
      t    == var.n.type
      self == base.n.base = "STRUCT" /\ base.n.tag = s.parent
  IN  IF var.s.failed \/ (self /\ TypeKind(t) # "PTR")
         \/ (base.n.base = "STRUCT" /\ ~self /\ base.n.tag \notin DOMAIN s.structs)
      THEN Returns(var.n, Fail(s)) ELSE var

RECURSIVE Members(_), Enumerators(_, _)

\* A member is placed at the sum of the offsets of those before it.
AddMember(struct, m) ==
  LET size == MemberKindSize(m.s, m.n.type)
      room == declared_lvar(m.s, m.n.type, size)
  IN  Returns([size   |-> struct.size + room,
               fields |-> Append(struct.fields, [name |-> m.n.name, at |-> struct.size, d |-> m.n.type])],
              [expect(m.s, ";") EXCEPT !.offset = OffsetAfter(m.s, m.n.type, size)])

\* The members of a struct up to its `}`, behind those of r.
Members(r) ==
  IF Sees(r.s, "}") \/ r.s.failed THEN Returns(r.n, expect(r.s, "}"))
  ELSE Members(IF declared_lvar_undefined_type(r.s).s.failed THEN Returns(r.n, Fail(r.s))
               ELSE AddMember(r.n, declared_lvar_undefined_type(r.s)))

DefineStruct(name, r) ==
  LET after == [expect(r.s, ";") EXCEPT !.parent = ""]
  IN  Returns([kind |-> "STRUCTDEF"],
        [after EXCEPT !.structs = [t \in DOMAIN @ \cup {name} |-> IF t = name THEN r.n ELSE @[t]]])

defined_struct(name, s) ==
  DefineStruct(name, Members(Returns([size |-> 0, fields |-> <<>>],
                                     [expect(s, "{") EXCEPT !.parent = name])))

Enumerators(index, s) ==
  IF Sees(s, "}")
  THEN LET name == Advance(s) IN expect(IF SeesKind(name, "INDENT") THEN Advance(name) ELSE name, ";")
  ELSE IF s.failed THEN s
  ELSE LET name == Ident(s)
       IN  Enumerators(index + 1,
             [expect(name.s, ",") EXCEPT !.enums = Append(@, [name |-> name.n, index |-> index])])

parse_typedef(s) ==
  LET base  == parse_type_base(s, TRUE)
      stars == Stars(0, base.s)
      name  == Ident(stars.s)
      type  == IF stars.n > 0 THEN [base |-> "PTR", tag |-> ""] ELSE base.n
  IN  [expect(name.s, ";") EXCEPT !.typedefs = Append(@, [name |-> name.n, type |-> type])]

\* declared_gvar and declared_structs_gvar, from the stars on.
GlobalVariable(base, tag, stars, name, s) ==
  LET dims == Dims(<<>>, s)
      type == Type(base, tag, "base", stars, dims.n)
  IN  Returns([kind |-> "GVARDEF", name |-> name],
        [expect(dims.s, ";") EXCEPT !.globals = Append(@, [name |-> name, d |-> type])])

-----------------------------------------------------------------------------
(* Expressions. *)

Num(v) == [kind |-> "NUM", val |-> v]
new_binary(kind, lhs, rhs) == [kind |-> kind, lhs |-> lhs, rhs |-> rhs]
new_unary(kind, lhs) == [kind |-> kind, lhs |-> lhs]
Local(off, t) ==
  [kind |-> "LVAR", offset |-> off, path |-> <<>>, type |-> t,
   byte |-> TypeKind(t) \in {"CHAR", "BOOL"}]
Global(name) == [kind |-> "GVARREF", name |-> name, path |-> <<>>]

\* equality(), relational(), add() and mul(), and the loop of mul_ptr().
Equality   == 1
Relational == 2
Sum        == 3
Term       == 4
ScaledTerm == 5
Kind ==
  << [o \in {"==", "!="} |-> IF o = "==" THEN "EQ" ELSE "NE"],
     [o \in {"<", "<=", ">", ">="} |-> IF o \in {"<", ">"} THEN "LT" ELSE "LE"],
     [o \in {"+", "-"} |-> IF o = "+" THEN "ADD" ELSE "SUB"],
     [o \in {"*", "/", "%"} |-> IF o = "*" THEN "MUL" ELSE IF o = "/" THEN "DIV" ELSE "MOD"],
     [o \in {"*", "/"} |-> IF o = "*" THEN "MUL" ELSE "DIV"] >>
Assigning == [o \in {"=", "&&", "||"} |->
                IF o = "=" THEN "ASSIGN" ELSE IF o = "&&" THEN "AND" ELSE "OR"]

Operator(s, ops) == SeesKind(s, "RESERVED") /\ Head(s.toks)[2] \in ops

\* node->type: only a variable, until its members are reached, and a cast have one.
NodeType(node) == IF "type" \in DOMAIN node THEN node.type ELSE NoType
\* A parameter or member of a type that is a pointer by typedef points nowhere.
PointsNowhere(node) == NodeType(node).base = "PTR" /\ NodeType(node).stars + NodeType(node).ndims = 0
IsVector(node) == node.kind = "ADDR" /\ TypeKind(NodeType(node.lhs)) = "ARRAY"

Scale_NoArrays(node) ==
  IF TypeKind(NodeType(node)) = "PTR" THEN get_size(Pointee(NodeType(node))) ELSE 0

\* What add() scales its right operand by, 0 for not at all.
Scale(node) ==
  IF TypeKind(NodeType(node)) = "PTR" THEN get_size(Pointee(NodeType(node)))
  ELSE IF IsVector(node) THEN 8 ELSE 0

RECURSIVE assign(_), binary(_, _), Operations(_, _), unary(_), primary(_),
          Arguments(_, _), Indices(_, _, _), struct_ref(_, _)

\* new_binary with its right operand read.
Combine(kind, l, r) == Returns(new_binary(kind, l, r.n), r.s)

\* =, && and || are one level, from the right.
Assignment(l) ==
  IF Operator(l.s, DOMAIN Assigning)
  THEN Combine(Assigning[Head(l.s.toks)[2]], l.n, assign(Advance(l.s))) ELSE l
assign(s) == Assignment(binary(Equality, s))

Operand(level, s) == IF level < Term THEN binary(level + 1, s) ELSE unary(s)
binary(level, s) == Operations(level, Operand(level, s))

Operation_Unswapped(level, op, l, r) == Combine(Kind[level][op], l, r)

\* > and >= are < and <= of their operands swapped.
Operation(level, op, l, r) ==
  IF op \in {">", ">="} THEN Returns(new_binary(Kind[level][op], r.n, l), r.s)
                        ELSE Combine(Kind[level][op], l, r)

Stretched(r, scale) == Returns(new_binary("MUL", r.n, Num(scale)), r.s)

\* The loop of a level behind its first operand.
Operations(level, l) ==
  LET next  == Advance(l.s)
      scale == IF level = Sum THEN Scale(l.n) ELSE 0
  IN  IF ~Operator(l.s, DOMAIN Kind[level]) THEN l
      ELSE IF level = Sum /\ PointsNowhere(l.n) THEN Returns(l.n, Fail(l.s))
      ELSE Operations(level, Operation(level, Head(l.s.toks)[2], l.n,
             IF scale > 0 THEN Stretched(binary(ScaledTerm, next), scale) ELSE Operand(level, next)))

\* The size of the variable that the operand r of sizeof met last.
SizeOf(r) ==
  LET kind == TypeKind(r.s.arg_type)
      size == CASE kind = "PTR"   -> 8
                [] kind = "ARRAY" -> r.s.arg_type.last
                [] kind = "CHAR"  -> 1
                [] r.n.kind = "STRUCTDEF" -> r.n.size
                [] OTHER -> 4
  IN  Returns(Num(size), [r.s EXCEPT !.arg_type = NoType])

Sizeof_Stale(s) == SizeOf(primary(s))

Sizeof(s) == SizeOf(primary([s EXCEPT !.arg_type = NoType]))

PrefixOf(op, e) ==
  Returns(CASE op = "+" -> e.n
            [] op = "-" -> new_binary("SUB", Num(0), e.n)
            [] op = "&" -> new_unary("ADDR", e.n)
            [] op = "*" -> new_unary("DEREF", e.n)
            [] op = "!" -> new_unary("NOT", e.n), e.s)

unary(s) ==
  CASE Operator(s, {"+", "-", "&", "*", "!"}) -> PrefixOf(Head(s.toks)[2], unary(Advance(s)))
    [] SeesKind(s, "SIZEOF") -> Sizeof(Advance(s))
    [] OTHER -> primary(s)

struct_ref_Dots(tag, s) ==
  LET member == Ident(Advance(s))
      fields == s.structs[tag].fields
      found  == Found(fields, member.n)
      rest   == struct_ref(IF found = {} THEN "" ELSE TypeName(find(fields, member.n).d),
                           member.s)
  IN  IF ~Operator(s, {"->", "."}) THEN Returns(<<>>, s)
      ELSE IF tag \notin DOMAIN s.structs THEN Returns(<<>>, Fail(s))
      ELSE Returns(<<[ptr |-> FALSE,
                      offset |-> IF found = {} THEN 0 ELSE find(fields, member.n).at]>>
                     \o rest.n, rest.s)

\* The accesses behind a member: what `.x` or `->x` names is looked up in the
\* struct `tag`, which behind a variable's member is still the variable's own.
struct_ref(tag, s) ==
  LET member == Ident(Advance(s))
      fields == s.structs[tag].fields
      found  == Found(fields, member.n)
      rest   == struct_ref(IF found = {} THEN "" ELSE TypeName(find(fields, member.n).d),
                           member.s)
  IN  IF ~Operator(s, {"->", "."}) THEN Returns(<<>>, s)
      ELSE IF tag \notin DOMAIN s.structs THEN Returns(<<>>, Fail(s))
      ELSE Returns(<<[ptr |-> Sees(s, "->"),
                      offset |-> IF found = {} THEN 0 ELSE find(fields, member.n).at]>>
                     \o rest.n, rest.s)

Member(node, t, s) ==
  LET tag    == IF Sees(s, "->") THEN PointeeName(t) ELSE TypeName(t)
      member == Ident(Advance(s))
      rest   == struct_ref(tag, member.s)
      first  == [ptr |-> Sees(s, "->"),
                 offset |-> get_struct_node_offset(s.structs[tag], member.n)]
      path   == [node EXCEPT !.path = <<first>> \o rest.n]
  IN  IF tag \notin DOMAIN s.structs THEN Returns(node, Fail(s))
      ELSE Returns([f \in DOMAIN path \ {"type"} |-> IF f = "byte" THEN FALSE ELSE path[f]], rest.s)

\* One index per dimension, each times the elements it strides over.
Indices(dims, node, s) ==
  LET i     == binary(Equality, s)
      close == expect(i.s, "]")
      term  == new_binary("MUL", i.n, Num(Product(Tail(dims))))
  IN  IF dims = <<>> THEN Returns(node, s)
      ELSE Indices(Tail(dims), new_binary("ADD", node, term),
                   IF Sees(close, "[") THEN Advance(close) ELSE close)

\* A variable of type t with what follows its name.
Variable(node, t, s) ==
  LET size  == Num(get_element_size(t))
      index == binary(Equality, Advance(s))
      many  == Indices(t.dims, Num(0), Advance(s))
      At(base, offset) == new_unary("DEREF", new_binary("ADD", base, offset))
  IN  CASE Sees(s, "[") /\ TypeKind(t) = "PTR" ->
             Returns(At(node, new_binary("MUL", index.n, size)), expect(index.s, "]"))
        [] Sees(s, "[") /\ TypeKind(t) # "PTR" -> Returns(At(new_unary("ADDR", node), new_binary("MUL", size, many.n)), many.s)
        [] ~Sees(s, "[") /\ TypeKind(t) = "ARRAY" -> Returns(new_unary("ADDR", node), s)
        [] Operator(s, {"->", "."}) /\ TypeKind(t) # "ARRAY" -> Member(node, t, s)
        [] OTHER -> Returns(node, s)

\* The arguments of a call, up to its `)`.
Arguments(args, s) ==
  LET a == binary(Sum, s)
      more == Append(args, a.n)
  IN  CASE Sees(s, ")")    -> Returns(args, Advance(s))
        [] ~Sees(s, ")") /\ Len(args) >= 6 -> Returns(args, Fail(s))
        [] OTHER -> IF Sees(a.s, ",") THEN Arguments(more, Advance(a.s))
                                      ELSE Returns(more, expect(a.s, ")"))

AddLiteral_Twice(s, text) == [s EXCEPT !.lits = @ \o <<text, text>>]

AddLiteral_Shared(s, text) ==
  IF \E i \in DOMAIN s.lits : s.lits[i] = text THEN s ELSE [s EXCEPT !.lits = Append(@, text)]

AddLiteral(s, text) == [s EXCEPT !.lits = Append(@, text)]

\* A cast is `(type *)`; what it points to is INT, because line 843 looks at
\* the token behind the type.
IsCast(s) ==
  /\ Head(Tail(s.toks))[1] \in {"VOID", "INT", "CHAR", "BOOL"}
  /\ Sees(Advance(Advance(s)), "*") /\ Sees(Advance(Advance(Advance(s))), ")")

\* An identifier that is not called: a local, a global, an enumerator.
Name(name, s) ==
  CASE Found(s.locals, name) # {} ->
         LET v == find(s.locals, name)
         IN  Variable(Local(v.off, v.d), v.d, [s EXCEPT !.arg_type = v.d])
    [] Found(s.locals, name) = {} /\ Found(s.globals, name) # {} ->
         Variable(Global(name), find(s.globals, name).d, s)
    [] OTHER -> IF Found(s.enums, name) # {} THEN Returns(Num(find(s.enums, name).index), s)
                                             ELSE Returns(Null, Fail(s))

primary(s) ==
  LET kind  == Head(s.toks)[1]
      value == Head(s.toks)[2]
      next  == Advance(s)
      cast  == unary(Advance(Advance(Advance(next))))
      inner == assign(next)
      args  == Arguments(<<>>, Advance(next))
      tag   == Ident(next)
  IN  CASE Sees(s, "(") ->
             IF IsCast(s)
             THEN Returns([kind |-> "CAST", lhs |-> cast.n,
                           type |-> Type("INT", "", "base", 1, <<>>)], cast.s)
             ELSE Returns(inner.n, expect(inner.s, ")"))
        [] kind = "INDENT" ->
             IF Sees(next, "(")
             THEN Returns([kind |-> "FUNCALL", name |-> value, arg |-> args.n], args.s)
             ELSE Name(value, next)
        [] kind = "STR" ->
             Returns(new_unary("ADDR", [kind |-> "LITERALREF", index |-> Len(s.lits)]),
                     AddLiteral(next, value))
        [] kind = "STRUCT" ->
             IF tag.n \in DOMAIN s.structs
             THEN Returns([kind |-> "STRUCTDEF", size |-> s.structs[tag.n].size], tag.s)
             ELSE Returns(Null, Fail(s))
        [] kind \in {"TRUE", "FALSE"} -> Returns(Num(IF kind = "TRUE" THEN 1 ELSE 0), next)
        [] kind \in {"NUM", "LT_CHAR"} -> Returns(Num(value), next)
        [] OTHER -> Returns(Null, Fail(s))

expr(s) == assign(s)

-----------------------------------------------------------------------------
(* Statements and definitions. *)

RECURSIVE stmt(_), Block(_), Parameters(_, _)

\* The parts of a statement read so far, and one more.
Then(r, part) == Returns(Append(r.n, part.n), part.s)
Closed(e, close) == Returns(e.n, expect(e.s, close))
ThenExpr(r, close) == Then(r, Closed(expr(r.s), close))
ThenStmt(r) == Then(r, stmt(r.s))

ThenOptional_KeepsClose(r, close) ==
  IF Sees(r.s, close) THEN Then(r, Returns(Null, r.s)) ELSE ThenExpr(r, close)

\* A part of a `for` that may be missing.
ThenOptional(r, close) ==
  IF Sees(r.s, close) THEN Then(r, Returns(Null, Advance(r.s))) ELSE ThenExpr(r, close)

\* `( expr )` and the statement behind it.
Guarded(s) == ThenStmt(ThenExpr(Returns(<<>>, expect(s, "(")), ")"))

For(s) ==
  LET Node(r) == Returns([kind |-> "FOR", initstmt |-> r.n[1], testexpr |-> r.n[2],
                          updstmt |-> r.n[3], lhs |-> r.n[4]], r.s)
  IN  Node(ThenStmt(ThenOptional(ThenOptional(ThenOptional(
             Returns(<<>>, expect(s, "(")), ";"), ";"), ")")))

IfElse(r) == Returns([kind |-> "IF_ELSE", lhs |-> r.n[1], rhs |-> r.n[2], elsehs |-> r.n[3]], r.s)

\* An `else` belongs to the `if` before it, which r is.
If(r) == IF SeesKind(r.s, "ELSE") THEN IfElse(ThenStmt(Returns(r.n, Advance(r.s))))
                                  ELSE Returns(new_binary("IF", r.n[1], r.n[2]), r.s)

stmt(s) ==
  LET kind == Head(s.toks)[1]
      next == Advance(s)
      BlockOf(r)   == Returns([kind |-> "BLOCK", child |-> r.n], r.s)
      WhileOf(r)   == Returns(new_binary("WHILE", r.n[1], r.n[2]), r.s)
      ReturnOf(r)  == Closed(Returns(new_unary("RETURN", r.n), r.s), ";")
  IN  CASE Sees(s, "{")      -> BlockOf(Block(Returns(<<>>, next)))
        [] kind = "FOR"      -> For(next)
        [] kind = "IF"       -> If(Guarded(next))
        [] kind = "WHILE"    -> WhileOf(Guarded(next))
        [] kind = "RETURN"   -> ReturnOf(IF Sees(next, ";") THEN Returns(Null, next) ELSE expr(next))
        [] kind \in {"INT", "CHAR", "BOOL", "STRUCT"} -> Returns(Num(0), LocalDeclaration(s))
        [] OTHER             -> Closed(expr(s), ";")

Block(r) ==
  IF Sees(r.s, "}") THEN Returns(r.n, Advance(r.s))
  ELSE IF r.s.failed THEN r ELSE Block(ThenStmt(r))

\* A parameter v, and those behind it: their offsets are added to ps.
Parameter(ps, v) ==
  LET added == AddLocal(v.s, v.n, MemberKindSize(v.s, v.n.type))
      more  == Append(ps, added.locals[Len(added.locals)].off)
  IN  IF v.s.failed THEN Returns(ps, v.s)
      ELSE IF Sees(added, ",") THEN Parameters(more, Advance(added))
      ELSE Returns(more, expect(added, ")"))

Parameters(ps, s) ==
  CASE Sees(s, ")") -> Returns(ps, Advance(s))
    [] ~Sees(s, ")") /\ Len(ps) >= 6 -> Returns(ps, Fail(s))
    [] OTHER -> Parameter(ps, declared_lvar_undefined_type(s))

\* r has the offsets of the parameters, and then the body.
Defined(name, r) ==
  LET offset == get_next_offset(r.s, 8)
  IN  Returns([kind |-> "FUNCDEF", name |-> name, params |-> r.n[1], offset |-> offset,
               body |-> r.n[2]], [r.s EXCEPT !.offset = offset])

Function(name, s) == Defined(name, ThenStmt(Then(Returns(<<>>, s), Parameters(<<>>, s))))

\* The node calloc() gives for a definition that is none: kind 0 is ND_ADD.
Stray == new_binary("ADD", Null, Null)

StartDefinition_KeepsLocals(s) == s

StartDefinition(s) == [s EXCEPT !.locals = <<>>, !.offset = 0]

\* `ty` is what the uninitialized variable holds, which a definition that does
\* not begin with a type keeps.
define_function_or_gvar(start, ty) ==
  LET s      == StartDefinition(start)
      typed  == Head(s.toks)[1] \in {"INT", "CHAR", "BOOL", "VOID", "STRUCT"}
      base   == IF typed THEN Head(s.toks)[1] ELSE ty
      stars  == Stars(0, IF typed THEN Advance(s) ELSE s)
      name   == Ident(stars.s)
      more   == Stars(0, name.s)
      var    == Ident(more.s)
  IN  CASE SeesKind(s, "TYPEDEF") ->
             Returns(Stray, IF SeesKind(Advance(s), "ENUM")
                            THEN Enumerators(0, expect(Advance(Advance(s)), "{"))
                            ELSE parse_typedef(Advance(s)))
        [] ~SeesKind(s, "TYPEDEF") /\ name.s.failed -> Returns(Null, name.s)
        [] Sees(name.s, "(") -> Function(name.n, Advance(name.s))
        [] ~Sees(name.s, "(") /\ base = "STRUCT" ->
             IF name.n \in DOMAIN s.structs
             THEN GlobalVariable(base, name.n, more.n, var.n, var.s)
             ELSE defined_struct(name.n, name.s)
        [] OTHER -> IF more.n > 0 THEN GlobalVariable(base, "", more.n, var.n, var.s)
                                  ELSE GlobalVariable(base, "", 0, name.n, name.s)
================================================================================
