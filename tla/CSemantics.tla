------------------------------- MODULE CSemantics -------------------------------
(***************************************************************************)
(* What C says a program of int variables computes: the reference the code *)
(* 9cc prints is compared with.  It walks the same syntax trees as gen(),  *)
(* but knows neither a stack nor registers.  A state has the variables in  *)
(* scope, by offset and by name, the value of the expression evaluated     *)
(* last, and whether a return statement has run.                           *)
(***************************************************************************)
EXTENDS Integers, Sequences, TLC

Quot(a, b) ==
  LET Abs(v) == IF v < 0 THEN -v ELSE v
      q == Abs(a) \div Abs(b)
  IN  IF (a < 0) = (b < 0) THEN q ELSE -q

Truth(P) == IF P THEN 1 ELSE 0

Apply(kind, a, b) ==
  CASE kind = "ADD" -> a + b   [] kind = "SUB" -> a - b   [] kind = "MUL" -> a * b
    [] kind = "DIV" -> Quot(a, b)                [] kind = "MOD" -> a - b * Quot(a, b)
    [] kind = "EQ"  -> Truth(a = b)              [] kind = "NE"  -> Truth(a # b)
    [] kind = "LT"  -> Truth(a < b)              [] kind = "LE"  -> Truth(a <= b)

RECURSIVE Eval(_, _, _), EvalEach(_, _, _), Exec(_, _, _), ExecEach(_, _, _)

\* The state after evaluating e, its value in val.
Eval(fs, e, st) ==
  CASE e.kind = "NULL"    -> st
    [] e.kind = "NUM"     -> [st EXCEPT !.val = e.val]
    [] e.kind = "LVAR"    -> [st EXCEPT !.val = st.loc[e.offset]]
    [] e.kind = "GVARREF" -> [st EXCEPT !.val = st.glob[e.name]]
    [] e.kind = "CAST"    -> Eval(fs, e.lhs, st)
    [] e.kind = "NOT"     -> LET r == Eval(fs, e.lhs, st)
                             IN  [r EXCEPT !.val = Truth(@ = 0)]
    [] e.kind = "ASSIGN" /\ e.lhs.kind = "LVAR" ->
         LET r == Eval(fs, e.rhs, st) IN [r EXCEPT !.loc = (e.lhs.offset :> r.val) @@ @]
    [] e.kind = "ASSIGN" /\ e.lhs.kind = "GVARREF" ->
         LET r == Eval(fs, e.rhs, st) IN [r EXCEPT !.glob[e.lhs.name] = r.val]
    [] e.kind \in {"AND", "OR"} ->
         LET l == Eval(fs, e.lhs, st)
             r == Eval(fs, e.rhs, l)
         IN  IF (l.val # 0) = (e.kind = "OR") THEN [l EXCEPT !.val = Truth(@ # 0)]
                                              ELSE [r EXCEPT !.val = Truth(@ # 0)]
    [] e.kind = "FUNCALL" ->
         LET args == EvalEach(fs, e.arg, [st |-> st, vals |-> <<>>])
             f    == fs[e.name]
             body == Exec(fs, f.body,
                       [args.st EXCEPT !.ret = FALSE,
                          !.loc = [o \in {f.params[i] : i \in DOMAIN f.params} |->
                            args.vals[CHOOSE i \in DOMAIN f.params : f.params[i] = o]]])
         IN  [body EXCEPT !.loc = args.st.loc, !.ret = FALSE]
    [] OTHER ->
         LET l == Eval(fs, e.lhs, st)
             r == Eval(fs, e.rhs, l)
         IN  [r EXCEPT !.val = Apply(e.kind, l.val, r.val)]

EvalEach(fs, es, acc) ==
  IF es = <<>> THEN acc
  ELSE LET r == Eval(fs, Head(es), acc.st)
       IN  EvalEach(fs, Tail(es), [st |-> r, vals |-> Append(acc.vals, r.val)])

\* A loop unrolls once and runs again as the rest of a block.
Exec(fs, s, st) ==
  CASE s.kind = "NULL"   -> st
    [] s.kind = "RETURN" -> [Eval(fs, s.lhs, st) EXCEPT !.ret = TRUE]
    [] s.kind = "BLOCK"  -> ExecEach(fs, s.child, st)
    [] s.kind \in {"IF", "IF_ELSE"} ->
         LET test == Eval(fs, s.lhs, st) IN
           IF test.val # 0 THEN Exec(fs, s.rhs, test)
           ELSE IF s.kind = "IF_ELSE" THEN Exec(fs, s.elsehs, test) ELSE test
    [] s.kind = "WHILE"  ->
         LET test == Eval(fs, s.lhs, st) IN
           IF test.val # 0 THEN ExecEach(fs, <<s.rhs, s>>, test) ELSE test
    [] s.kind = "FOR"    ->
         LET init == Exec(fs, s.initstmt, st)
             test == IF s.testexpr.kind = "NULL" THEN [init EXCEPT !.val = 1]
                                                 ELSE Eval(fs, s.testexpr, init)
             loop == [s EXCEPT !.initstmt = [kind |-> "NULL"]]
         IN  IF test.val # 0 THEN ExecEach(fs, <<s.lhs, s.updstmt, loop>>, test) ELSE test
    [] OTHER             -> Eval(fs, s, st)

ExecEach(fs, ss, st) ==
  IF ss = <<>> \/ st.ret THEN st ELSE ExecEach(fs, Tail(ss), Exec(fs, Head(ss), st))

\* What main returns.
Result(functions, globals) ==
  LET fs == [n \in {functions[i].name : i \in DOMAIN functions} |->
               functions[CHOOSE i \in DOMAIN functions : functions[i].name = n]]
  IN  Exec(fs, fs["main"].body,
           [loc |-> [o \in {} |-> 0], glob |-> [n \in globals |-> 0],
            val |-> 0, ret |-> FALSE]).val
=============================================================================
