-------------------------------- MODULE Compiler --------------------------------
(***************************************************************************)
(* main() of main.c from program() on: the definitions are parsed one by   *)
(* one into code[], the string literals into literals_def[]; then both are *)
(* printed, as Printing has it.  error() may end the process at any of     *)
(* these steps, with what has been printed so far on stdout.               *)
(***************************************************************************)
EXTENDS Parser, Printing

CONSTANTS
  Sources    \* the programs: records whose field `toks` is the token list

VARIABLES
  source,    \* the program that is compiled
  s          \* the parser's token list and tables

vars == <<printVars, source, s>>

\* What an uninitialized TypeKind may hold, VOID standing for all the others.
Garbage == {"INT", "CHAR", "STRUCT", "VOID"}

\* One turn of program()'s loop.
Define ==
  /\ phase = "parse" /\ ~at_eof(s)
  /\ \E def \in { define_function_or_gvar(s, ty) : ty \in Garbage } :
       /\ s' = def.s
       /\ literals_def' = def.s.lits
       /\ code' = IF def.s.failed THEN code ELSE Append(code, def.n)
       /\ phase' = IF Len(def.s.lits) > LiteralsSize \/ Len(code) >= CodeSize THEN "overrun"
                   ELSE IF def.s.failed THEN "failed" ELSE phase
  /\ UNCHANGED <<source, printed, todo, labelidx, out>>

\* The end of program(), which writes the NULL, and the first printf.
EndParse ==
  /\ phase = "parse" /\ at_eof(s)
  /\ IF Len(code) >= CodeSize THEN phase' = "overrun" /\ UNCHANGED out
     ELSE phase' = "literals" /\ out' = <<<<"intel_syntax">>>>
  /\ UNCHANGED <<source, s, code, literals_def, printed, todo, labelidx>>

Init ==
  /\ PrintInit
  /\ source \in Sources
  /\ s = Start(source.toks)

Next == Define \/ EndParse \/ (PrintNext /\ UNCHANGED <<source, s>>)

Spec == Init /\ [][Next]_vars

-----------------------------------------------------------------------------
(* Properties. *)

\* The definitions and string literals of the source.
Definitions == source.definitions
Strings == { i \in DOMAIN source.toks : source.toks[i][1] = "STR" }

(* The arrays hold what the source has, and an element more: 9cc leaves them *)
(* exactly when a program that it reads has as many definitions as code[]    *)
(* has elements, or as many literals as literals_def[] has.                  *)
TablesHold ==
  LET fits == Definitions < CodeSize /\ Cardinality(Strings) < LiteralsSize
  IN  /\ phase = "done" => fits
      /\ phase = "overrun" => ~fits

\* The nodes right below a node; each access of a path is below the one before.
Below(n) ==
  LET fields == SelectSeq(<<"lhs", "rhs", "elsehs", "initstmt", "testexpr", "updstmt", "body">>,
                          LAMBDA f : f \in DOMAIN n)
  IN  [i \in DOMAIN fields |-> n[fields[i]]]
        \o (IF "child" \in DOMAIN n THEN n.child ELSE <<>>)
        \o (IF "arg" \in DOMAIN n THEN n.arg ELSE <<>>)
        \o (IF "path" \notin DOMAIN n THEN <<>>
            ELSE <<Refs(IF n.kind = "STRUCTREF" THEN Tail(n.path) ELSE n.path)>>)

\* The nodes of all the trees in a list of parts.
RECURSIVE Nodes(_)
Nodes(parts) ==
  IF parts = <<>> THEN 0
  ELSE LET n == Head(parts)
       IN  (IF n.kind \in {"ASM", "ERROR", "NULL"} THEN 0 ELSE 1 + Nodes(Below(n))) + Nodes(Tail(parts))

(* The compiler ends: whatever it reads, every turn of program()'s loop      *)
(* consumes tokens or ends the process, every turn of main()'s loops calls   *)
(* gen() for an element it has not printed, and within a turn each step of   *)
(* gen() leaves fewer nodes to visit, or as many and less to print: it comes *)
(* to no node twice.                                                         *)
Progress ==
  [][\/ phase' # phase
     \/ phase = "parse" /\ Len(s'.toks) < Len(s.toks)
     \/ phase # "parse" /\ todo = <<>> /\ printed' = printed + 1
     \/ /\ todo # <<>> /\ printed' = printed
        /\ \/ Nodes(todo') < Nodes(todo)
           \/ Nodes(todo') = Nodes(todo) /\ Len(todo') < Len(todo)]_vars
================================================================================
