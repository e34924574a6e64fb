------------------------------ MODULE MCCompiler -------------------------------
(***************************************************************************)
(* Programs for model-checking Reading, by what they are about.            *)
(***************************************************************************)
EXTENDS Reading

N(v) == Number(v)
V(name) == [kind |-> "VAR", name |-> name]
B(kind, l, r) == [kind |-> kind, lhs |-> l, rhs |-> r]
Add(l, r) == B("ADD", l, r)
At(v, index) == [kind |-> "INDEX", lhs |-> V(v), index |-> index]
Cast(base, e) == [kind |-> "CAST", to |-> CType(base, "", 1, <<>>), lhs |-> e]
Fun(name, args) == [kind |-> "CALL", name |-> name, arg |-> args]
Access(e, ptr, name) == [kind |-> "MEMBER", lhs |-> e, ptr |-> ptr, name |-> name]

Return(e) == [kind |-> "RETURN", lhs |-> e]
Block_(ss) == [kind |-> "BLOCK", child |-> ss]
Declare(name, type) == [kind |-> "DECL", name |-> name, type |-> type]
DeclareEach(names, types) == [i \in DOMAIN names |-> Declare(names[i], types[names[i]])]

GlobalDef(name, type) == [def |-> "global", name |-> name, type |-> type]
GlobalsOf(names, types) == [i \in DOMAIN names |-> GlobalDef(names[i], types[names[i]])]
FunctionDef(name, params, ss) ==
  [def |-> "function", name |-> name, params |-> params, body |-> Block_(ss)]
Main(ss) == <<FunctionDef("main", <<>>, ss)>>

NoVars == [v \in {} |-> 0]
Source(about, program, syntax, vars_, structs) ==
  LET main == program[Len(program)]
  IN  [about |-> about, toks |-> Append(Tokens(program), EOF), definitions |-> Len(program),
       params |-> { main.params[i].name : i \in DOMAIN main.params },
       syntax |-> syntax, vars |-> vars_, structs |-> structs, outer |-> Null]

Ptr(base) == CType(base, "", 1, <<>>)
Char == CType("CHAR", "", 0, <<>>)

-----------------------------------------------------------------------------
(* Operators: every pair, each way; && || and < three deep; prefixes; calls. *)

W == V("w")
X == V("x")
Y == V("y")
Z == V("z")
Dyadic == DOMAIN Sign \ {"ASSIGN"}
Signs == DOMAIN Prefix \ {"ADDR", "DEREF"}
Pairs == { B(o, B(p, X, Y), Z) : o \in Dyadic, p \in DOMAIN Sign }
         \cup { B(o, X, B(p, Y, Z)) : o \in DOMAIN Sign, p \in DOMAIN Sign }
Triples ==
  LET Some == {"AND", "OR", "LT"}
      Two == { <<o, p, q>> : o \in Some, p \in Some, q \in Some }
  IN  UNION { { B(t[1], B(t[2], B(t[3], W, X), Y), Z), B(t[1], B(t[2], W, B(t[3], X, Y)), Z),
                B(t[1], B(t[2], W, X), B(t[3], Y, Z)), B(t[1], W, B(t[2], B(t[3], X, Y), Z)),
                B(t[1], W, B(t[2], X, B(t[3], Y, Z))) } : t \in Two }
Prefixed ==
  { Unary(u, B(o, X, Y)) : u \in Signs, o \in DOMAIN Sign }
  \cup { B(o, Unary(u, X), Unary(v, Y)) : o \in Dyadic, u \in Signs, v \in Signs }
  \cup { Unary(u, Unary(v, X)) : u \in Signs, v \in Signs }
Arguments_ == {X, B("SUB", X, Y), B("LT", X, Y), B("AND", X, Y), Fun("f", <<Y>>), Unary("NOT", X)}
Called ==
  { Fun("f", <<a, b>>) : a \in Arguments_, b \in Arguments_ }
  \cup { B("MUL", Fun("f", [i \in 1..n |-> N(i)]), Y) : n \in 0..7 }

Words == [v \in {"w", "x", "y", "z"} |-> Integer]
OperatorSource(e) ==
  Source("operators", Main(DeclareEach(<<"w", "x", "y", "z">>, Words) \o <<Return(e)>>), e, Words, NoVars)
OperatorSources == { OperatorSource(e) : e \in Pairs \cup Triples \cup Prefixed \cup Called }

-----------------------------------------------------------------------------
(* Pointers and arrays, local and global.                                    *)

Places ==
  [a |-> CType("INT", "", 0, <<3>>), t |-> CType("CHAR", "", 0, <<4>>),
   m |-> CType("INT", "", 0, <<2, 3>>), k |-> CType("CHAR", "", 0, <<2, 3>>),
   u |-> CType("CHAR", "", 1, <<2>>), n |-> Integer, p |-> Ptr("INT"), q |-> Ptr("CHAR"),
   pp |-> CType("INT", "", 2, <<>>), g |-> Ptr("INT"), h |-> Ptr("CHAR"),
   ga |-> CType("INT", "", 0, <<3>>)]
Here == <<"a", "t", "m", "k", "u", "n", "p", "q", "pp">>
There == <<"g", "h", "ga">>

Addresses == { V(v) : v \in {"a", "t", "m", "k", "u", "p", "q", "pp", "g", "h", "ga"} }
             \cup { Unary("ADDR", V("n")), Cast("INT", V("q")), Cast("CHAR", V("p")) }
Sums == UNION { { Add(x, N(2)), B("SUB", x, N(2)), Add(N(2), x), Add(Add(x, N(1)), N(2)),
                  Add(x, B("MUL", V("n"), N(2))), Add(x, B("MOD", V("n"), N(2))),
                  B("SUB", x, V("p")), Unary("DEREF", x), Unary("DEREF", Add(x, N(1))) }
                : x \in Addresses }
Indexes == { At(v, i) : v \in {"a", "t", "m", "k", "u", "p", "q", "pp", "g", "ga"},
                        i \in {<<N(1)>>, <<N(1), N(2)>>} }
           \ { At(v, <<N(1), N(2)>>) : v \in {"a", "t", "u", "p", "q", "pp", "g", "ga"} }
PointerForms ==
  Sums \cup Indexes \cup { Unary("ADDR", e) : e \in Indexes \cup {V("n"), V("a"), Unary("DEREF", V("p"))} }
       \cup { Add(At("a", <<N(1)>>), At("m", <<N(1), N(2)>>)), At("p", <<Add(V("n"), N(1))>>) }

PointerSource(about, e, ss) ==
  Source(about, GlobalsOf(There, Places)
                  \o <<FunctionDef("f", <<>>, <<Return(N(1))>>)>> \o Main(DeclareEach(Here, Places) \o ss),
         e, Places, NoVars)
PointerSources == { PointerSource("pointers", e, <<Return(e)>>) : e \in PointerForms }

\* What stands on the left of = or behind &.
Forms == { V(v) : v \in {"a", "n", "p", "g"} }
         \cup { At("a", <<N(1)>>), Unary("DEREF", V("p")), Unary("DEREF", Add(V("p"), N(1))), N(1),
                Add(V("n"), N(1)), Fun("f", <<>>), Unary("NEG", V("n")), Unary("NOT", V("n")),
                [kind |-> "STR", val |-> "abc"], Cast("INT", V("p")), B("ASSIGN", V("n"), N(2)),
                [kind |-> "SIZEOF", lhs |-> V("n")] }
TargetSources ==
  { PointerSource("targets", e, <<e>>) :
      e \in { B("ASSIGN", x, N(1)) : x \in Forms } \cup { Unary("ADDR", x) : x \in Forms } }

-----------------------------------------------------------------------------
(* sizeof, twice in an expression or next to a char.                         *)

Sized == [n |-> Integer, c |-> Char, p |-> Ptr("INT"), t |-> CType("CHAR", "", 0, <<4>>),
          a |-> CType("INT", "", 0, <<3>>), g |-> Integer]
Operands == { V(v) : v \in DOMAIN Sized }
            \cup { N(1), Add(V("n"), V("c")), Add(V("c"), V("n")), Add(V("n"), V("g")),
                   [kind |-> "SIZEOF", lhs |-> V("c")], Unary("DEREF", V("p")), Fun("f", <<V("c")>>) }
SizeofSources ==
  { Source("sizeof", GlobalsOf(<<"g">>, Sized)
                       \o Main(DeclareEach(<<"t", "a", "n", "c", "p">>, Sized) \o <<Return(e)>>),
           e, Sized, NoVars) :
      e \in { Add([kind |-> "SIZEOF", lhs |-> x], [kind |-> "SIZEOF", lhs |-> y]) :
                x \in Operands, y \in Operands }
            \cup UNION { { Add([kind |-> "SIZEOF", lhs |-> x], V("c")),
                          Add(V("c"), [kind |-> "SIZEOF", lhs |-> x]) } : x \in Operands } }

-----------------------------------------------------------------------------
(* Members of two structs, three accesses deep.                              *)

Struct(tag, stars) == CType("STRUCT", tag, stars, <<>>)
MembersOf == [T |-> [b |-> Integer, a |-> Integer, t |-> Struct("T", 1), w |-> Struct("T", 1)],
              S |-> [a |-> Integer, n |-> Struct("S", 1), t |-> Struct("T", 0), u |-> Struct("T", 1)]]
StructDef(tag, names) ==
  [def |-> "struct", name |-> tag, members |-> DeclareEach(names, MembersOf[tag])]

Objects == [s |-> Struct("S", 0), p |-> Struct("S", 1), gs |-> Struct("S", 0),
            gp |-> Struct("S", 1), r |-> Struct("S", 1)]

RECURSIVE Chains(_, _, _)
\* e, of type t, and what up to n accesses behind it reach.
Chains(e, t, n) ==
  {e} \cup IF n = 0 \/ t.base # "STRUCT" THEN {}
           ELSE UNION { Chains(Access(e, t.stars > 0, m), MembersOf[t.tag][m], n - 1)
                        : m \in DOMAIN MembersOf[t.tag] }
MemberSources ==
  { Source("members", <<StructDef("T", <<"b", "a", "t", "w">>), StructDef("S", <<"a", "n", "t", "u">>)>>
                        \o GlobalsOf(<<"gs", "gp">>, Objects)
                        \o <<FunctionDef("main", <<Declare("r", Objects["r"])>>,
                               DeclareEach(<<"s", "p">>, Objects) \o <<Return(e)>>)>>,
           e, Objects, MembersOf) :
      e \in UNION { Chains(V(v), Objects[v], 3) : v \in DOMAIN Objects } }

-----------------------------------------------------------------------------
(* Statements, two deep, of numbers.                                         *)

None == [kind |-> "NULL"]
Leaves == {N(1), Return(None), Return(N(2))}
If_(then) == B("IF", N(3), then)
IfElse_(then, else) == [kind |-> "IF_ELSE", lhs |-> N(3), rhs |-> then, elsehs |-> else]
For_(i, t, u, body) ==
  [kind |-> "FOR", initstmt |-> i, testexpr |-> t, updstmt |-> u, lhs |-> body]
RECURSIVE Dangles(_)
\* An else behind this statement would belong to an if in it.
Dangles(st) == CASE st.kind = "IF" -> TRUE
                 [] st.kind = "IF_ELSE" -> Dangles(st.elsehs)
                 [] st.kind = "WHILE" -> Dangles(st.rhs)
                 [] st.kind = "FOR" -> Dangles(st.lhs)
                 [] OTHER -> FALSE
Around(inner, others) ==
  { If_(x) : x \in inner } \cup { B("WHILE", N(4), x) : x \in inner }
  \cup { IfElse_(x, y) : x \in { x \in inner : ~Dangles(x) }, y \in others }
  \cup { IfElse_(y, x) : x \in inner, y \in others }
  \cup { For_(i, t, u, x) : i \in {None, N(5)}, t \in {None, N(6)}, u \in {None, N(7)}, x \in inner }
  \cup { Block_(<<x, y>>) : x \in inner, y \in others } \cup { Block_(<<>>) }
StatementSources ==
  { Source("statements", Main(<<st, N(8)>>), Block_(<<st, N(8)>>), NoVars, NoVars) :
      st \in Around(Around(Leaves, {N(9)}), {N(9)}) }

-----------------------------------------------------------------------------
(* One name, declared and used in blocks, after a function with a local of   *)
(* that name, and with a global, an enumerator or nothing behind it.         *)

Items(lists) == {Declare("x", Integer), X} \cup { Block_(l) : l \in lists }
ListsUpTo(n, items) == UNION { [1..k -> items] : k \in 0..n }
Twice(l) == \E i, j \in DOMAIN l : i # j /\ l[i].kind = "DECL" /\ l[j].kind = "DECL"
Once(lists) == { l \in lists : ~Twice(l) }
Bodies == Once(ListsUpTo(3, Items(Once(ListsUpTo(2, Items({<<>>}))))))

Outside == [none |-> <<<<>>, Null>>,
            global |-> <<<<GlobalDef("x", Integer)>>, Global("x")>>,
            enum |-> <<<<[def |-> "enum", name |-> "e", names |-> <<"w", "x">>]>>, Num(1)>>]
NameSources ==
  { [Source("names", Outside[o][1]
                       \o <<FunctionDef("f", <<Declare("y", Integer)>>, <<Declare("x", Integer), X>>)>>
                       \o Main(l), Block_(l), NoVars, NoVars)
     EXCEPT !.outer = Outside[o][2]] : o \in DOMAIN Outside, l \in Bodies }

-----------------------------------------------------------------------------
(* Whole programs: up to as many globals and literals as there is room for,  *)
(* and one more, before two functions with labels.                           *)

Literal_(i) == [kind |-> "STR", val |-> IF i = 1 THEN "a" ELSE "b"]
Loop == For_(N(1), N(2), N(3), If_(V("g1")))
TableSources ==
  { Source("tables",
      [i \in 1..n |-> GlobalDef(<<"g1", "g2", "g3", "g4", "g5">>[i], Integer)]
        \o (IF n = 0 THEN <<>>
            ELSE <<FunctionDef("f", <<>>, <<Loop, B("WHILE", N(0), N(1))>>)>>)
        \o Main([i \in 1..k |-> Literal_(i)] \o <<If_(Fun("f", [i \in 1..k |-> Literal_(i)]))>>),
      None, NoVars, NoVars) : n \in 0..5, k \in 0..3 }

AllSources ==
  OperatorSources \cup PointerSources \cup TargetSources \cup SizeofSources \cup MemberSources
  \cup StatementSources \cup NameSources \cup TableSources
================================================================================
