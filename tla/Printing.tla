-------------------------------- MODULE Printing --------------------------------
(***************************************************************************)
(* The second half of main(): gen() is called for each string literal and  *)
(* each definition in turn, and prints the assembly.  Of program(), which  *)
(* fills the two arrays before that, only the shape of what it leaves is   *)
(* stated here; Compiler models the rest of it.                            *)
(***************************************************************************)
EXTENDS Codegen

CONSTANTS
  CodeSize,       \* elements of code[], 100 in 9cc.h
  LiteralsSize,   \* elements of literals_def[], 100 in 9cc.h
  Height          \* bound: the height of a tree

ASSUME PrintingAssumption ==
  CodeSize \in Nat \ {0} /\ LiteralsSize \in Nat \ {0} /\ Height \in Nat

VARIABLES
  code,           \* the definitions parsed so far, without the NULL at their end
  literals_def,   \* the string literals, likewise
  phase,     \* what main() is doing: "failed" once error() has ended it,
             \* "overrun" once it has left one of the two arrays
  printed,   \* elements of the array being printed that gen() was called for
  todo,      \* what is left to do for the active calls of gen(), the innermost first
  labelidx,
  out        \* stdout

printVars == <<code, literals_def, phase, printed, todo, labelidx, out>>

-----------------------------------------------------------------------------
(* The trees gen() takes. *)

AccessRecord == [ptr : BOOLEAN, offset : Int]
TypeRecord == [base : STRING, tag : STRING, named : STRING, stars : Nat, dims : Seq(Int),
               ndims : Nat, cnt : Int, last : Int]

LeafNodes(globals, literals) ==
  [kind : {"NUM"}, val : Int]
  \cup [kind : {"LVAR"}, offset : Int, path : Seq(AccessRecord), byte : BOOLEAN]
  \cup [kind : {"LVAR"}, offset : Int, path : Seq(AccessRecord), byte : BOOLEAN, type : TypeRecord]
  \cup [kind : {"GVARREF"}, name : globals, path : Seq(AccessRecord)]
  \cup [kind : {"ADDR"}, lhs : [kind : {"LITERALREF"}, index : literals]]

\* `struct S`: C has it as an operand of sizeof alone, primary() anywhere.
StructTypes == [kind : {"STRUCTDEF"}, size : Int]

Optional(T) == T \cup {NoNode}

\* A statement is part of a statement only, never of an expression.
StatementKinds == {"RETURN", "IF", "WHILE", "IF_ELSE", "FOR", "BLOCK"}
Expressions(T) == { x \in T : x.kind \notin StatementKinds }

\* Six registers take arguments, and the parser ends 9cc at a seventh.
UpToSix(S) == { q \in Seq(S) : Len(q) <= 6 }

InnerNodes(T) ==
  LET E == Expressions(T) IN
  [kind : {"ADDR", "DEREF", "NOT"}, lhs : E] \cup [kind : {"CAST"}, lhs : E, type : TypeRecord]
  \cup [kind : {"RETURN"}, lhs : Optional(E)]
  \cup [kind : Binary \cup {"ASSIGN"}, lhs : E, rhs : E]
  \cup [kind : {"IF", "WHILE"}, lhs : E, rhs : T]
  \cup [kind : {"IF_ELSE"}, lhs : E, rhs : T, elsehs : T]
  \cup [kind : {"FOR"}, initstmt : Optional(E), testexpr : Optional(E), updstmt : Optional(E), lhs : T]
  \cup [kind : {"BLOCK"}, child : Seq(T)]
  \cup [kind : {"FUNCALL"}, name : STRING, arg : UpToSix(E)]

\* The trees up to each height over some leaves.
Trees(leaves) ==
  LET trees[h \in 0..Height] ==
        IF h = 0 THEN leaves ELSE leaves \cup InnerNodes(trees[h - 1])
  IN  trees

Globals == { code[i].name : i \in { d \in DOMAIN code : code[d].kind = "GVARDEF" } }
Literals == 0..Len(literals_def) - 1

\* The node of a typedef, which is an ND_ADD.
ZeroedNode == [kind |-> "ADD", lhs |-> NoNode, rhs |-> NoNode]

\* The elements of code[], with leaves of `others` too in the bodies of functions.
DefinitionNode(others) ==
  [kind : {"FUNCDEF"}, name : STRING, params : UpToSix(Int), offset : Nat,
   body : Trees(LeafNodes(Globals, Literals) \cup others)[Height]]
  \cup [kind : {"GVARDEF"}, name : STRING] \cup [kind : {"STRUCTDEF"}] \cup {ZeroedNode}

-----------------------------------------------------------------------------
\* program() at work: the arrays grow, and it may end the process.
Parse ==
  /\ phase = "parse"
  /\ phase' \in {"parse", "failed", "overrun"}
  /\ Len(code') \in 0..CodeSize + 1 /\ Len(literals_def') \in Nat
  /\ UNCHANGED <<printed, todo, labelidx, out>>

\* The end of program(): a place for the NULL is left in code[].
EndProgram ==
  /\ phase = "parse"
  /\ Len(code) < CodeSize
  /\ code \in Seq(DefinitionNode(StructTypes))
  /\ phase' = "literals"
  /\ out' = <<<<"intel_syntax">>>>
  /\ UNCHANGED <<code, literals_def, printed, todo, labelidx>>

-----------------------------------------------------------------------------
(* gen(). *)

Printing == phase \in {"literals", "code"} /\ todo # <<>>

\* A call of gen() with a node: its own work comes before what is left of the caller's.
Call ==
  /\ Printing /\ Head(todo).kind \notin {"ASM", "ERROR", "NULL"}
  /\ labelidx' = labelidx + 1
  /\ todo' = gen(Head(todo), labelidx) \o Tail(todo)
  /\ UNCHANGED <<code, literals_def, phase, printed, out>>

CallNull ==
  /\ Printing /\ Head(todo).kind = "NULL"
  /\ todo' = Tail(todo)
  /\ UNCHANGED <<code, literals_def, phase, printed, labelidx, out>>

PrintAsm ==
  /\ Printing /\ Head(todo).kind = "ASM"
  /\ out' = out \o Head(todo).code
  /\ todo' = Tail(todo)
  /\ UNCHANGED <<code, literals_def, phase, printed, labelidx>>

Error ==
  /\ Printing /\ Head(todo).kind = "ERROR"
  /\ phase' = "failed"
  /\ UNCHANGED <<code, literals_def, printed, todo, labelidx, out>>

-----------------------------------------------------------------------------
(* The loops of main(). *)

PrintLiteral_Again ==
  /\ phase = "literals" /\ todo = <<>> /\ printed < Len(literals_def)
  /\ todo' = <<[kind |-> "LITERAL", index |-> printed]>>
  /\ UNCHANGED <<code, literals_def, phase, printed, labelidx, out>>

PrintLiteral ==
  /\ phase = "literals" /\ todo = <<>> /\ printed < Len(literals_def)
  /\ todo' = <<[kind |-> "LITERAL", index |-> printed]>>
  /\ printed' = printed + 1
  /\ UNCHANGED <<code, literals_def, phase, labelidx, out>>

EndLiterals_KeepsIndex ==
  /\ phase = "literals" /\ todo = <<>> /\ printed = Len(literals_def)
  /\ phase' = IF printed >= LiteralsSize THEN "overrun" ELSE "code"
  /\ out' = Append(out, <<"globl", "main">>)
  /\ UNCHANGED <<code, literals_def, printed, todo, labelidx>>

\* The loop over literals_def ends at a NULL, which a full array does not have.
EndLiterals ==
  /\ phase = "literals" /\ todo = <<>> /\ printed = Len(literals_def)
  /\ phase' = IF printed >= LiteralsSize THEN "overrun" ELSE "code"
  /\ printed' = 0
  /\ out' = Append(out, <<"globl", "main">>)
  /\ UNCHANGED <<code, literals_def, todo, labelidx>>

PrintDefinition_RestartsLabels ==
  /\ phase = "code" /\ todo = <<>> /\ printed < Len(code)
  /\ todo' = <<code[printed + 1]>>
  /\ printed' = printed + 1
  /\ labelidx' = 0
  /\ UNCHANGED <<code, literals_def, phase, out>>

PrintDefinition ==
  /\ phase = "code" /\ todo = <<>> /\ printed < Len(code)
  /\ todo' = <<code[printed + 1]>>
  /\ printed' = printed + 1
  /\ UNCHANGED <<code, literals_def, phase, labelidx, out>>

Finish ==
  /\ phase = "code" /\ todo = <<>> /\ printed = Len(code)
  /\ phase' = "done"
  /\ UNCHANGED <<code, literals_def, printed, todo, labelidx, out>>

PrintInit ==
  /\ code = <<>> /\ literals_def = <<>> /\ phase = "parse" /\ printed = 0
  /\ todo = <<>> /\ labelidx = 0 /\ out = <<>>

PrintNext ==
  \/ Call \/ CallNull \/ PrintAsm \/ Error
  \/ PrintLiteral \/ EndLiterals \/ PrintDefinition \/ Finish

(* What the second half of main() may do, whatever program() has left of the *)
(* shape that gen() relies on.  As a property of Compiler it says that       *)
(* program() leaves nothing else: every child of a node is there or NULL,    *)
(* every variable names a global of code[], every literal's index one of     *)
(* literals_def[], and that what is printed is printed in the order of main. *)
PrintSpec == PrintInit /\ [][Parse \/ EndProgram \/ PrintNext]_printVars

-----------------------------------------------------------------------------
(* Properties. *)

(* Every variable holds a value of its type; the array that is printed is    *)
(* not left behind, and nothing is printed before program() has returned.    *)
TypeOK ==
  /\ phase \in {"parse", "literals", "code", "done", "failed", "overrun"}
  /\ printed \in 0..(IF phase = "literals" THEN Len(literals_def) ELSE Len(code))
  /\ phase = "parse" => out = <<>>
  /\ Len(code) <= CodeSize + 1 /\ labelidx \in Nat

Instructions(op) == { i \in DOMAIN out : out[i][1] = op }

\* No function begins between the instructions i and j.
SameFunction(i, j) == \A f \in Instructions("fn") : f < i <=> f < j

(* The assembler can resolve the output: no label is defined twice, every    *)
(* jump has its label in the same function, and every literal and global     *)
(* that is used is defined.  That hangs on labelidx, which all calls of      *)
(* gen() share, and on the index by which a literal's uses and its           *)
(* definition, printed from different arrays, agree.                         *)
SymbolsDefined ==
  phase = "done" =>
    /\ \A i, j \in Instructions("label") : out[i] = out[j] => i = j
    /\ \A i \in Instructions("jmp") \cup Instructions("je") :
         \E j \in Instructions("label") : out[j][2] = out[i][2] /\ SameFunction(i, j)
    /\ \A i \in Instructions("lea") : \E j \in Instructions("data") : out[j][2] = out[i][3]

(* How far above its height in front of the instruction `start` the stack    *)
(* may be behind the instruction i, when depths[j] is that for the place in  *)
(* front of each j up to i.  A jump goes to its label, and a backward jump   *)
(* is not followed.  The words that a call takes off rsp to align the stack  *)
(* are not counted; they are added to it again behind the call.              *)
Behind(start, i, depths) ==
  LET op    == out[i][1]
      jumps == { j \in 1..i : out[j][1] \in {"jmp", "je"} /\ out[j][2] = out[i][2] }
      left  == op \in {"jmp", "ret"} \/ out[i] = <<"mov", "rsp", "rbp">>
  IN  IF i = start THEN {0}
      ELSE CASE op \in {"push", "push_imm"} -> { d + 1 : d \in depths[i] }
             [] op = "pop"                  -> { d - 1 : d \in depths[i] }
             [] op = "label"                -> depths[i] \cup UNION { depths[j] : j \in jumps }
             [] left                        -> {}
             [] OTHER                       -> depths[i]

\* The same for the places in front of all instructions, and behind the last.
Depths(start) ==
  LET depths[i \in 0..Len(out)] ==
        IF i = 0 THEN <<{}>>
        ELSE LET before == depths[i - 1] IN Append(before, Behind(start, i, before))
  IN  depths[Len(out)]

(* Unless `struct S` stands for a value, which is no C: from where a         *)
(* function has reserved its variables, no pop takes more from the stack     *)
(* than was pushed since, so that none reaches a variable; and where a loop  *)
(* jumps back, the stack is not lower than when the loop began.  Each call   *)
(* of gen() has to push exactly one value for that, or none, as its caller   *)
(* has it, on every path through what it prints.                             *)
PopsCovered ==
  phase = "done" /\ code \in Seq(DefinitionNode({})) =>
    /\ \A f \in { i \in Instructions("sub_imm") : out[i][2] = "rsp" } :
         LET depths == Depths(f) IN \A i \in Instructions("pop") : 0 \notin depths[i]
    /\ \A s \in Instructions("label") :
         LET back == { j \in Instructions("jmp") \cup Instructions("je") :
                         j > s /\ out[j][2] = out[s][2] }
         IN  back # {} => LET depths == Depths(s)
                          IN  \A j \in back : \A d \in depths[j] : d >= 0
=============================================================================
