-------------------------------- MODULE Reading --------------------------------
(***************************************************************************)
(* What 9cc makes of C programs, next to what C says: each property is     *)
(* about the sources of one kind, and says for which of them the parser's  *)
(* tree is C's.  A source has, next to its tokens, the syntax they were    *)
(* written from.                                                           *)
(***************************************************************************)
EXTENDS Compiler, CSyntax

\* The body of main, the last definition of every source.
Body == code[Len(code)].body

\* The parsed tree of an expression as C's trees are written: without types,
\* and with the arithmetic of numbers done.
RECURSIVE Bare(_)
Bare(n) ==
  CASE n.kind = "LVAR"    -> [kind |-> "LVAR", offset |-> n.offset, path |-> n.path]
    [] n.kind = "FUNCALL" -> [n EXCEPT !.arg = [i \in DOMAIN @ |-> Bare(@[i])]]
    [] n.kind = "BLOCK"   -> [n EXCEPT !.child = [i \in DOMAIN @ |-> Bare(@[i])]]
    [] n.kind \in {"ADDR", "DEREF", "NOT", "CAST"} -> Unary(n.kind, Bare(n.lhs))
    [] n.kind \in {"AND", "OR"} -> Chain(n.kind, Bare(n.lhs), Bare(n.rhs))
    [] n.kind \notin {"AND", "OR"} /\ "rhs" \in DOMAIN n -> Binary2(n.kind, Bare(n.lhs), Bare(n.rhs))
    [] OTHER              -> n

\* Variables, by the names the source gives them, and where 9cc keeps them.
LocalNode(off) == [kind |-> "LVAR", offset |-> off, path |-> <<>>]
Env ==
  [var |-> [v \in DOMAIN source.vars |->
     [type |-> source.vars[v],
      node |-> IF Found(s.locals, v) # {} THEN LocalNode(find(s.locals, v).off) ELSE Global(v)]],
   struct |-> [t \in DOMAIN source.structs |-> [m \in DOMAIN source.structs[t] |->
     [type |-> source.structs[t][m], at |-> find(s.structs[t].fields, m).at]]]]

\* How 9cc has read the expression main returns, once it has parsed the source.
Parsed == phase \in {"literals", "code", "done"}
Reads ==
  IF ~Parsed THEN "rejected"
  ELSE IF Bare(Body.child[Len(Body.child)].lhs) = Tree(source.syntax, Env) THEN "as C"
  ELSE "misread"

About(topic) == source.about = topic /\ (Parsed \/ phase = "failed")

-----------------------------------------------------------------------------
(* Expressions. *)

\* The expressions of which e consists, itself included.
RECURSIVE Parts(_)
Parts(e) ==
  {e} \cup (IF "lhs" \in DOMAIN e THEN Parts(e.lhs) ELSE {})
      \cup (IF "rhs" \in DOMAIN e THEN Parts(e.rhs) ELSE {})
      \cup (IF "index" \in DOMAIN e THEN UNION { Parts(e.index[i]) : i \in DOMAIN e.index } ELSE {})
      \cup (IF "arg" \in DOMAIN e THEN UNION { Parts(e.arg[i]) : i \in DOMAIN e.arg } ELSE {})

\* An || with an && to its left that no parentheses enclose.
RECURSIVE AndThenOr(_)
AndThenOr(e) ==
  e.kind = "OR" /\ (e.lhs.kind = "AND" \/ AndThenOr(e.lhs)
                    \/ (e.lhs.kind = "OR" /\ e.lhs.rhs.kind = "AND"))

(* Operators have C's precedence and associativity, with two exceptions,     *)
(* the code of assign() and of the calls in primary(): = && || are one level *)
(* from the right, which an || behind an && shows, and an argument that is   *)
(* no sum, or a seventh, ends the compiler.                                  *)
OperatorsAsC ==
  About("operators") =>
    Reads = IF \E e \in Parts(source.syntax) :
                 e.kind = "CALL" /\ (Len(e.arg) > 6 \/ \E i \in DOMAIN e.arg : Level(e.arg[i]) < 6)
            THEN "rejected"
            ELSE IF \E e \in Parts(source.syntax) : AndThenOr(e) THEN "misread" ELSE "as C"

IsLocal(e) == e.kind = "VAR" /\ Found(s.locals, e.name) # {}

\* The addresses whose type add() knows: those of local variables and of casts.
Known(e) == IsAddress(TypeOf(e, Env)) /\ (IsLocal(e) \/ e.kind = "CAST")

\* The bytes add() steps by: a cast is one to `int *` for line 843, and an
\* array's elements count eight bytes.
Step(e) ==
  LET t == TypeOf(e, Env)
  IN  IF ~Known(e) THEN 1
      ELSE IF e.kind = "CAST" \/ t.dims # <<>> THEN 8 ELSE Bytes(Element(t), 8)

\* The sums of an address that are scaled as in C; mul_ptr() reads no %.
ScaledSum(e) ==
  LET l == TypeOf(e.lhs, Env)  r == TypeOf(e.rhs, Env)
  IN  /\ ~(IsAddress(l) /\ IsAddress(r))
      /\ IsAddress(l) => Bytes(Element(l), 8) = Step(e.lhs)
      /\ IsAddress(r) => Bytes(Element(r), 8) = 1
      /\ e.rhs.kind = "MOD" => ~Known(e.lhs)

\* The variables that can be indexed: a local pointer, or an array of one
\* dimension or of words, with an index for each dimension.
IndexedVariable(e) ==
  LET t == TypeOf(e.lhs, Env)
  IN  IF t.dims = <<>> THEN IsLocal(e.lhs)
      ELSE Len(t.dims) = Len(e.index) /\ (Len(t.dims) = 1 \/ Bytes([t EXCEPT !.dims = <<>>], 8) = 8)

(* Pointers step over what they point to, and arrays over their elements:    *)
(* add(), mul_ptr() and the indices of primary() agree on the size of each   *)
(* element, as long as add() knows the type of the address on its left (not  *)
(* of a global, an expression or a second summand), the elements are those   *)
(* it counts on, and & is in front of a variable that is not an array.       *)
PointersAsC ==
  About("pointers") =>
    (Reads = "as C" <=>
       \A e \in Parts(source.syntax) :
         CASE e.kind \in {"ADD", "SUB"} -> ScaledSum(e)
           [] e.kind = "INDEX" -> IndexedVariable(e)
           [] e.kind = "DEREF" -> Element(TypeOf(e.lhs, Env)).dims = <<>>
           [] e.kind = "ADDR"  -> e.lhs.kind = "VAR" /\ Env.var[e.lhs.name].type.dims = <<>>
           [] OTHER -> TRUE)

\* Operands of sizeof: a variable that is no array of words, or a sum of ints.
PlainOperand(e) ==
  IF IsLocal(e)
  THEN LET t == Env.var[e.name].type
       IN  t.dims = <<>> \/ (t.base = "CHAR" /\ t.stars = 0 /\ Len(t.dims) = 1)
  ELSE \A v \in Parts(e) : /\ v.kind \in {"VAR", "NUM", "ADD"}
                           /\ v.kind = "VAR" => TypeOf(v, Env) = Integer

(* sizeof of a local variable or of a sum of ints is C's size, whatever      *)
(* variables and other sizeofs the expression around it names: arg_type does *)
(* not outlive its operand.                                                  *)
SizeofAsC ==
  About("sizeof") =>
    ((\A e \in Parts(source.syntax) : e.kind = "SIZEOF" => PlainOperand(e.lhs))
       => Reads = "as C")

\* The struct in which 9cc looks up the name of an access: that of what is left
\* of it, but behind the first access once more that of the variable, and from
\* there on that of the member found.  "" is none.
RECURSIVE Home(_)
Home(m) ==
  LET first == m.lhs.kind = "VAR"
      tag   == IF first THEN TypeOf(m.lhs, Env).tag ELSE Home(m.lhs)
  IN  IF first \/ m.lhs.lhs.kind = "VAR" THEN tag
      ELSE IF tag # "" /\ m.lhs.name \in DOMAIN Env.struct[tag]
      THEN Env.struct[tag][m.lhs.name].type.tag ELSE ""

\* Where a member lies in the struct; what the struct does not have is at 0.
Place(tag, name) == IF name \in DOMAIN Env.struct[tag] THEN Env.struct[tag][name].at ELSE 0

(* A chain of . and -> leads to the member C means exactly if each of its    *)
(* names is at the same place in the struct 9cc looks it up in as in the     *)
(* struct to its left; so a chain through pointers to one struct always      *)
(* does.  It is rejected if 9cc comes to what is no struct, and behind a     *)
(* parameter if it begins with ->.                                           *)
MembersAsC ==
  About("members") =>
    LET accesses == { e \in Parts(source.syntax) : e.kind = "MEMBER" }
        IsParameter(e) == e.kind = "VAR" /\ e.name \in source.params
    IN  Reads = IF \E m \in accesses : Home(m) = "" \/ (m.ptr /\ IsParameter(m.lhs)) THEN "rejected"
                ELSE IF \A m \in accesses :
                          Place(Home(m), m.name) = Place(TypeOf(m.lhs, Env).tag, m.name) THEN "as C"
                ELSE "misread"

(* Every chain that 9cc does not reject leads to the member C means, as the  *)
(* value of test_file/struct/testh.c has it.                                 *)
NestedMembersAsC == About("members") => (Parsed => Reads = "as C")

-----------------------------------------------------------------------------
(* Statements and names. *)

(* Statements have C's structure: an else belongs to the nearest if, parts   *)
(* of a for that are missing are, and a body is one statement.               *)
StatementsAsC == About("statements") => Parsed /\ Body = source.syntax

\* The tree of a list of declarations, uses and blocks of x, where `visible` is
\* the variable x names at its start, after `count` declarations in the function.
RECURSIVE Scoped(_, _, _)
Scoped(items, visible, count) ==
  IF items = <<>> THEN [nodes |-> <<>>, count |-> count, legal |-> TRUE]
  ELSE LET item  == Head(items)
           block == Scoped(item.child, visible, count)
           node  == CASE item.kind = "DECL"  -> Num(0)
                      [] item.kind = "BLOCK" -> [kind |-> "BLOCK", child |-> block.nodes]
                      [] OTHER               -> visible
           after == CASE item.kind = "DECL"  -> count + 1
                      [] item.kind = "BLOCK" -> block.count
                      [] OTHER               -> count
           rest  == Scoped(Tail(items), IF item.kind = "DECL" THEN LocalNode(8 * after) ELSE visible,
                           after)
       IN  [nodes |-> <<node>> \o rest.nodes, count |-> rest.count,
            legal |-> node # Null /\ rest.legal /\ (item.kind = "BLOCK" => block.legal)]

RECURSIVE Within(_)
Within(items) ==
  UNION { {items[i].kind} \cup (IF items[i].kind = "BLOCK" THEN Within(items[i].child) ELSE {})
          : i \in DOMAIN items }

\* x is used after a block that declares it.
RECURSIVE Escapes(_)
Escapes(items) ==
  \E i \in DOMAIN items :
    /\ items[i].kind = "BLOCK"
    /\ \/ Escapes(items[i].child)
       \/ "DECL" \in Within(items[i].child) /\ "VAR" \in Within(SubSeq(items, i + 1, Len(items)))

(* A name is the variable C's scopes say, also where a block hides that of   *)
(* another or a global, or the function before had one of that name; except  *)
(* that what a block declares stays visible behind it, in find_lvar's list.  *)
NamesAsC ==
  About("names") =>
    LET scoped == Scoped(source.syntax.child, source.outer, 0)
    IN  ~Escapes(source.syntax.child) =>
          IF scoped.legal THEN Parsed /\ Bare(Body).child = scoped.nodes ELSE ~Parsed

-----------------------------------------------------------------------------
(* Errors. *)

Lvalue(e) ==
  \/ e.kind \in {"DEREF", "INDEX", "MEMBER"}
  \/ e.kind = "VAR" /\ source.vars[e.name].dims = <<>>

(* gen() finds out in the middle of a function that the left of a = is no    *)
(* place to store to: the compiler then ends with an error, although a part  *)
(* of the output has been printed, and with none for every assignment C has. *)
(* What & is put in front of and compiled is an lvalue, too.                 *)
TargetsChecked ==
  (source.about = "targets" /\ phase \in {"done", "failed"}) =>
    IF source.syntax.kind = "ASSIGN"
    THEN phase = "done" <=> Lvalue(source.syntax.lhs)
    ELSE phase = "done" => Lvalue(source.syntax.lhs)
================================================================================
