------------------------------- MODULE MCMachine -------------------------------
(***************************************************************************)
(* Programs for model-checking Machine, as the syntax trees the parser     *)
(* builds for them.  The result a program should have is what CSemantics   *)
(* computes, or, for the programs with pointers, the number test.sh        *)
(* asserts for the test file the program is taken from.                    *)
(***************************************************************************)
EXTENDS Machine

LOCAL INSTANCE CSemantics

\* A set of at most forty elements as a sequence (TLC's stack allows no more),
\* and a sequence of such sets.  Len makes TLC evaluate a list as it grows.
RECURSIVE ListFrom(_, _), Join(_, _)
ListFrom(S, list) ==
  IF S = {} \/ Len(list) < 0 THEN list
  ELSE LET x == CHOOSE x \in S : TRUE IN ListFrom(S \ {x}, Append(list, x))
ListOf(S) == ListFrom(S, <<>>)
Join(sets, list) ==
  IF sets = <<>> \/ Len(list) < 0 THEN list
  ELSE Join(Tail(sets), list \o ListOf(Head(sets)))

\* Nodes.
N(v) == [kind |-> "NUM", val |-> v]
Var(off) == [kind |-> "LVAR", offset |-> off, byte |-> FALSE, path |-> <<>>]
Byte(off) == [Var(off) EXCEPT !.byte = TRUE]
Member(off, path) == [Var(off) EXCEPT !.path = path]
Dot(off) == [ptr |-> FALSE, offset |-> off]
Arrow(off) == [ptr |-> TRUE, offset |-> off]
G(name) == [kind |-> "GVARREF", name |-> name, path |-> <<>>]
GMember(name, path) == [G(name) EXCEPT !.path = path]
Op(kind, l, r) == [kind |-> kind, lhs |-> l, rhs |-> r]
Unary(kind, e) == [kind |-> kind, lhs |-> e]
Cast(e) ==
  [kind |-> "CAST", lhs |-> e,
   type |-> [base |-> "char", tag |-> "", named |-> "", stars |-> 0, dims |-> <<>>,
             ndims |-> 0, cnt |-> 0, last |-> 0]]
Set(l, r) == Op("ASSIGN", l, r)
Add(l, r) == Op("ADD", l, r)
Less(l, r) == Op("LT", l, r)
Fun(f, args) == [kind |-> "FUNCALL", name |-> f, arg |-> args]
Ret(e) == Unary("RETURN", e)
Block(ss) == [kind |-> "BLOCK", child |-> ss]
If(c, s) == Op("IF", c, s)
IfElse(c, s, t) == [kind |-> "IF_ELSE", lhs |-> c, rhs |-> s, elsehs |-> t]
While(c, s) == Op("WHILE", c, s)
For(i, c, u, s) ==
  [kind |-> "FOR", initstmt |-> i, testexpr |-> c, updstmt |-> u, lhs |-> s]

\* A function whose n parameters come first, with `vars` variables in all.
Def(name, n, vars_, body) ==
  [kind |-> "FUNCDEF", name |-> name, params |-> [i \in 1..n |-> 8 * i],
   offset |-> 8 * (vars_ + 1), body |-> Block(body)]

\* `leaks`: the words an iteration of its loops may leave on the stack.
Prog(fs, globals, words, leaks, result) ==
  [code |-> ListOf([kind : {"GVARDEF"}, name : DOMAIN globals]) \o fs,
   globals |-> globals, words |-> words, leaks |-> leaks, result |-> result]

NoGlobals == [n \in {} |-> 0]

Main(vars_, body) == <<Def("main", 0, vars_, body)>>
Plain(fs, leaks) == Prog(fs, NoGlobals, 0, leaks, Result(fs, {}))
WithGlobal(fs) == Prog(fs, [n \in {"g"} |-> 0], 1, 0, Result(fs, {"g"}))

X == Var(8)
Y == Var(16)
Bump(v, n) == Set(v, Add(v, N(n)))

-----------------------------------------------------------------------------
(* Expressions: two operators over a negative and a positive value, and the  *)
(* Boolean operators over 0 and 1.                                           *)

Arith == {"ADD", "SUB", "MUL", "DIV", "MOD"}
Operators == <<"ADD", "SUB", "MUL", "DIV", "MOD", "EQ", "NE", "LT", "LE">>

OfSum(o) == { Op(o, Op(p, X, N(b)), N(2)) : p \in Arith, b \in {2, -3} }
OfNumber ==
  { Op(o, N(7), Op(p, X, N(3))) : o \in {"SUB", "MUL", "LT", "LE"}, p \in Arith }
  \cup { Op(o, N(9), Op(p, X, N(-4))) : o \in {"DIV", "MOD"}, p \in {"ADD", "SUB", "MUL"} }

Bits == {N(0), N(1)}
Flags == Bits \cup { Unary("NOT", b) : b \in Bits }
Logic ==
  { Op(o, a, b) : o \in {"AND", "OR"}, a \in Flags, b \in Flags }
  \cup { Unary("NOT", Op(o, a, Less(X, N(0)))) : o \in {"AND", "OR"}, a \in Bits }

Returning(e, x) == Plain(Main(1, <<Set(X, N(x)), Ret(e)>>), 0)
ReturningEach(es, xs) == { Returning(e, x) : e \in es, x \in xs }

ExprPrograms ==
  Join(<<ReturningEach(OfNumber, {-7}), ReturningEach(OfNumber, {5}),
         ReturningEach(Logic, {-7}), ReturningEach(Logic, {5})>>
         \o [i \in DOMAIN Operators |-> ReturningEach(OfSum(Operators[i]), {-7, 5})], <<>>)

-----------------------------------------------------------------------------
(* Statements: each loop runs until x reaches 3.                             *)

Simple == { Bump(Y, 2), Block(<<>>), Set(Y, Cast(X)) }
Choice(s) == { If(Less(X, N(1)), s), IfElse(Less(X, N(2)), s, Bump(Y, 5)),
               IfElse(Less(X, N(2)), Bump(Y, 5), s) }
Nests == Simple \cup UNION { Choice(s) : s \in Simple }

Loop == Less(X, N(3))
Upd == Bump(X, 1)
Counting(s) == While(Loop, Block(<<s, Upd>>))
Inside(s) == Block(<<Set(Y, N(0)), While(Less(Y, N(2)), Bump(Y, 1)), s>>)

Starting(body, leaks) ==
  Plain(Main(2, <<Set(X, N(0)), Set(Y, N(0))>> \o body
                 \o <<Ret(Add(Op("MUL", Y, N(10)), X))>>), leaks)

TidyChoice == UNION { { If(Less(X, N(1)), s), If(Less(N(0), X), s) } : s \in Simple }

WhilePrograms ==
  { Starting(<<Counting(s)>>, 0) : s \in Simple \cup TidyChoice }
  \cup { Starting(<<Counting(Inside(s))>>, 0) : s \in Simple }
  \cup { Starting(<<Counting(s)>>, 1) : s \in Nests }

ForPrograms ==
  { Starting(<<For(i, Loop, Upd, s)>>, 2) : i \in {Set(X, N(1)), NoNode}, s \in Simple }
  \cup { Starting(<<For(NoNode, Loop, Upd, s)>>, 3) : s \in Nests }
  \cup { Starting(<<For(NoNode, Loop, NoNode, Upd)>>, 1),
         Starting(<<For(NoNode, NoNode, Upd, If(Less(N(1), X), Ret(X)))>>, 2) }

\* A loop that finds the words another has left.
LaterPrograms ==
  { Starting(<<For(NoNode, Loop, Upd, Bump(Y, 1)), Set(X, N(0)), Counting(s)>>, 2) : s \in TidyChoice }

LoopPrograms == ListOf(WhilePrograms \cup ForPrograms \cup LaterPrograms)

\* Branches outside loops, early returns, and statements after a return.
BranchPrograms ==
  { Starting(<<s>>, 0) : s \in Nests }
  \cup { Starting(<<s, Counting(If(Op("EQ", X, N(n)), Ret(N(n)))), Ret(N(9))>>, 0) :
           s \in {Bump(Y, 1)}, n \in {1, 3} }

-----------------------------------------------------------------------------
(* Calls.                                                                    *)

fib == Def("fib", 1, 1,
  <<If(Less(X, N(2)), Ret(X)),
    Ret(Add(Fun("fib", <<Op("SUB", X, N(1))>>), Fun("fib", <<Op("SUB", X, N(2))>>)))>>)

\* Every parameter has its own weight, so that none can be mistaken.
weigh == Def("weigh", 6, 6,
  <<Ret(Add(Var(8), Add(Op("MUL", Var(16), N(2)), Add(Op("MUL", Var(24), N(4)),
      Add(Op("MUL", Var(32), N(8)), Add(Op("MUL", Var(40), N(16)),
        Op("MUL", Var(48), N(32))))))))>>)
minus == Def("minus", 2, 3, <<Set(Var(24), Op("SUB", X, Y)), Ret(Var(24))>>)
bump  == Def("bump", 1, 1, <<Set(G("g"), Add(G("g"), X)), Unary("RETURN", NoNode)>>)

Six(n) == [i \in 1..6 |-> N(IF i = n THEN 1 ELSE 0)]
Calling(fs, body, vars_) == Plain(fs \o Main(vars_, body), 2)

CallPrograms ==
  { Calling(<<fib>>, <<Ret(Fun("fib", <<N(n)>>))>>, v) : n \in {3, 4}, v \in {0, 1} }
  \cup { Calling(<<weigh>>, <<Ret(Fun("weigh", Six(n)))>>, 0) : n \in 1..6 }
  \cup { Calling(<<minus>>, <<Set(X, N(1)),
           Ret(Op("SUB", N(100), Fun("minus",
             <<Fun("minus", <<N(50), X>>), Add(X, Fun("minus", <<N(5), N(2)>>))>>)))>>, v)
         : v \in {1, 2} }
  \cup { Calling(<<minus>>, <<Set(X, N(0)), While(Loop, Set(X, Fun("minus", <<X, N(-1)>>))),
                              For(NoNode, Less(X, N(5)), Upd, Fun("minus", <<X, X>>)),
                              X>>, 1) }
  \cup { WithGlobal(<<bump>> \o Main(0, <<Set(G("g"), N(1)), Fun("bump", <<N(4)>>),
                                      Fun("bump", <<Add(G("g"), N(1))>>), G("g")>>)) }

\* derefer_addr/testaa, testab, testac, testad; array/testag, testad;
\* struct/testf; global_variables/testal; def_func/testai.
Ptr(e) == Unary("DEREF", e)
Addr(e) == Unary("ADDR", e)
Z == Var(24)
At(i) == Ptr(Add(Addr(Var(24)), Op("MUL", N(8), N(i))))
Test(body, vars_, n) == Prog(Main(vars_, body), NoGlobals, 0, 0, n)

TestPrograms ==
  { Test(<<Set(X, N(3)), Set(Y, Addr(X)), Ret(Ptr(Y))>>, 2, 3),
    Test(<<Set(X, N(3)), Set(Y, N(0)), Set(Z, Add(Addr(Y), N(8))), Ret(Ptr(Z))>>, 3, 3),
    Test(<<Set(Y, Addr(X)), Set(Ptr(Y), N(3)), Ret(X)>>, 2, 3),
    Test(<<Set(Y, Addr(X)), Set(Ptr(Y), Addr(Z)), Set(Ptr(Ptr(Y)), N(3)), Ret(Z)>>, 3, 3),
    Test(<<Set(At(0), N(1)), Set(At(1), N(5)), Ret(Add(At(0), At(1)))>>, 3, 6),
    Test(<<Set(Member(48, <<Dot(0)>>), N(1)), Set(Member(48, <<Dot(8)>>), N(2)),
           Set(Member(48, <<Dot(24)>>), N(3)),
           Ret(Add(Add(Member(48, <<Dot(0)>>), Member(48, <<Dot(8)>>)),
                   Member(48, <<Dot(24)>>)))>>, 6, 6),
    Prog(Main(1, <<Set(G("g"), Addr(X)), Set(X, N(2)), Ret(Ptr(G("g")))>>),
         [n \in {"g"} |-> 0], 1, 0, 2),
    Prog(<<Def("alladd", 3, 3, <<Ret(Add(Add(X, Byte(16)), Byte(24)))>>)>>
           \o Main(3, <<Set(X, N(2)), Set(Byte(16), N(1)), Set(Byte(24), N(60)),
                        Ret(Fun("alladd", <<X, Byte(16), Byte(24)>>))>>),
         NoGlobals, 0, 0, 63),
    \* struct/testg and testi without calloc: a points to b, and b.w to c.
    Prog(Main(0, <<Set(G("a"), Addr(G("b"))), Set(GMember("b", <<Dot(8)>>), Addr(G("c"))),
                   Set(GMember("a", <<Arrow(0)>>), N(4)),
                   Set(GMember("a", <<Arrow(8), Arrow(8)>>), N(5)),
                   Ret(Add(GMember("b", <<Dot(0)>>), GMember("b", <<Dot(8), Arrow(8)>>)))>>),
         [n \in {"a", "b", "c"} |-> IF n = "a" THEN 0 ELSE IF n = "b" THEN 1 ELSE 3],
         5, 0, 9),
    \* Behind char c[3], y is at an odd address, and so is rsp.
    Prog(<<minus, [Def("main", 0, 0, <<Set(Var(11), N(7)), Ret(Add(N(1), Fun("minus", <<Var(11), N(5)>>)))>>)
                     EXCEPT !.offset = 19]>>, NoGlobals, 0, 0, 3) }

ControlPrograms == ListOf(BranchPrograms \cup CallPrograms \cup TestPrograms)

-----------------------------------------------------------------------------
(* What a comment of 9cc.h calls &&, on a right operand that need not be 0 or 1. *)

LogicalPrograms == ListOf({ Returning(Op("AND", N(a), N(b)), 0) : a \in 0..1, b \in 0..2 })

\* A program is run from both alignments of rsp, an expression from one.
AllPrograms == ControlPrograms \o LoopPrograms \o ExprPrograms
BothAlignments == {1024, 1032}
OneAlignment == {1032}
=============================================================================
