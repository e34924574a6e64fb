-------------------------------- MODULE Codegen --------------------------------
(***************************************************************************)
(* gen() of codegen.c: what one call prints for a node of the syntax tree, *)
(* and which nodes it calls gen() with in between.                         *)
(*                                                                         *)
(* A node is a record whose field "kind" is its NodeKind without the ND_.  *)
(* A chain of `.x` and `->x` behind a variable, which the parser hangs     *)
(* below its lhs, is the sequence "path" of [ptr, offset].  An instruction *)
(* is a tuple <<opcode, operands...>>.  A call of gen() is the sequence of *)
(* its parts: texts to print, nodes to call gen() with, or the end of the  *)
(* process in error().  `lidx` is the call's copy of labelidx.             *)
(***************************************************************************)
EXTENDS Integers, Sequences, TLC

NoNode == [kind |-> "NULL"]
Asm(code) == [kind |-> "ASM", code |-> code]
Stop == [kind |-> "ERROR"]

arglist == <<"rdi", "rsi", "rdx", "rcx", "r8", "r9">>

LiteralName(index) == "literal" \o ToString(index)

\* Accesses to members, each of which is below the one before it.
Refs(path) == IF path = <<>> THEN NoNode ELSE [kind |-> "STRUCTREF", path |-> path]

\* The address on the stack becomes the member's.
GenRef(node) ==
  LET ref == node.path[1]
  IN  << Asm(<<<<"pop", "rax">>>>
              \o (IF ref.ptr THEN <<<<"load", "rax", "rax">>>> ELSE <<>>)
              \o <<<<"add_imm", "rax", ref.offset>>, <<"push", "rax">>>>),
         Refs(Tail(node.path)) >>

\* Push the address of a local variable, of a symbol.
PushLocal(offset) ==
  <<<<"mov", "rax", "rbp">>, <<"sub_imm", "rax", offset>>, <<"push", "rax">>>>
PushSymbol(name) == <<<<"lea", "rax", name>>, <<"push", "rax">>>>

GenVariable_Silent(node) ==
  CASE node.kind = "LVAR"       -> Asm(PushLocal(node.offset))
    [] node.kind = "GVARREF"    -> Asm(PushSymbol(node.name))
    [] node.kind = "LITERALREF" -> Asm(PushSymbol(LiteralName(node.index)))
    [] OTHER                    -> Asm(<<>>)

\* gen_variable(): push the address of a variable, or end 9cc.
GenVariable(node) ==
  CASE node.kind = "LVAR"       -> Asm(PushLocal(node.offset))
    [] node.kind = "GVARREF"    -> Asm(PushSymbol(node.name))
    [] node.kind = "LITERALREF" -> Asm(PushSymbol(LiteralName(node.index)))
    [] OTHER                    -> Stop

\* The operator of a binary node, on rax (left) and rdi (right).
Operate(kind) ==
  LET Compare(cc) == <<<<"cmp", "rax", "rdi">>, <<"set", cc>>, <<"movzb">>>>
      Divide      == <<<<"cqo">>, <<"idiv", "rdi">>>>
  IN  CASE kind = "ADD" -> <<<<"add", "rax", "rdi">>>>
        [] kind = "SUB" -> <<<<"sub", "rax", "rdi">>>>
        [] kind = "MUL" -> <<<<"imul", "rax", "rdi">>>>
        [] kind = "DIV" -> Divide
        [] kind = "MOD" -> Divide \o <<<<"push", "rdx">>, <<"pop", "rax">>>>
        [] kind = "AND" -> <<<<"and", "rax", "rdi">>>>
        [] kind = "OR"  -> <<<<"or", "rax", "rdi">>>>
        [] kind = "EQ"  -> Compare("e")
        [] kind = "NE"  -> Compare("ne")
        [] kind = "LT"  -> Compare("l")
        [] kind = "LE"  -> Compare("le")

Binary == {"ADD", "SUB", "MUL", "DIV", "MOD", "AND", "OR", "EQ", "NE", "LT", "LE"}

Jump(op, place, lidx)  == <<op, <<place, lidx>>>>
Label(place, lidx)     == <<"label", <<place, lidx>>>>
IfZero(place, lidx)    ==
  <<<<"pop", "rax">>, <<"cmp_imm", "rax", 0>>, Jump("je", place, lidx)>>
Drop == <<<<"pop", "rax">>>>
Keep == <<<<"push", "rax">>>>

AlignStack_PushOnce ==
  << <<"mov", "rax", "rsp">>, <<"mov_imm", "rdi", 16>>, <<"cqo">>,
     <<"idiv", "rdi">>, <<"sub", "rsp", "rdx">>, <<"push", "rdx">> >>

\* rsp becomes a multiple of 16 and stays one: what was taken off is pushed twice.
AlignStack ==
  << <<"mov", "rax", "rsp">>, <<"mov_imm", "rdi", 16>>, <<"cqo">>,
     <<"idiv", "rdi">>, <<"sub", "rsp", "rdx">>, <<"push", "rdx">>,
     <<"push", "rdx">> >>

UnalignStack ==
  <<<<"pop", "rdx">>, <<"pop", "rdx">>, <<"add", "rsp", "rdx">>, <<"push", "rax">>>>

\* The arguments were pushed from left to right, so the last comes off first.
PopArguments(n) == [i \in 1..n |-> <<"pop", arglist[n + 1 - i]>>]

Epilogue_DropsRbp == <<<<"mov", "rsp", "rbp">>, <<"pop", "rdx">>, <<"ret">>>>

Epilogue_LeavesRbp == <<<<"mov", "rsp", "rbp">>, <<"ret">>>>

Epilogue == <<<<"mov", "rsp", "rbp">>, <<"pop", "rbp">>, <<"ret">>>>

\* The address an assignment stores to.
GenTarget(lhs) ==
  IF lhs.kind = "DEREF" THEN <<lhs.lhs>>
  ELSE <<GenVariable(lhs), IF "path" \in DOMAIN lhs THEN Refs(lhs.path) ELSE NoNode>>

GenAssign(node) ==
  GenTarget(node.lhs)
    \o << node.rhs,
          Asm(<<<<"pop", "rdi">>, <<"pop", "rax">>, <<"store", "rax", "rdi">>, <<"push", "rdi">>>>) >>

\* A variable's value; only a CHAR or BOOL local (node.byte) is read as a byte.
GenValue(node) ==
  LET load == IF node.kind = "LVAR" /\ node.byte THEN "load_byte" ELSE "load"
  IN  << GenVariable(node), Refs(node.path),
         Asm(<<<<"pop", "rax">>, <<load, "rax", "rax">>, <<"push", "rax">>>>) >>

GenReturn(node) ==
  IF node.lhs = NoNode THEN <<Asm(<<<<"mov_imm", "rax", 0>>>> \o Epilogue)>>
                       ELSE <<node.lhs, Asm(Drop \o Epilogue)>>

GenWhile_JumpsFirst(node, lidx) ==
  << Asm(<<Label("begin", lidx)>>), node.lhs, Asm(IfZero("end", lidx)),
     Asm(<<Jump("jmp", "begin", lidx)>>), node.rhs, Asm(Drop \o <<Label("end", lidx)>> \o Keep) >>

GenWhile_KeepsBody(node, lidx) ==
  << Asm(<<Label("begin", lidx)>>), node.lhs, Asm(IfZero("end", lidx)), node.rhs,
     Asm(<<Jump("jmp", "begin", lidx), Label("end", lidx)>> \o Keep) >>

GenWhile(node, lidx) ==
  << Asm(<<Label("begin", lidx)>>), node.lhs, Asm(IfZero("end", lidx)), node.rhs,
     Asm(Drop \o <<Jump("jmp", "begin", lidx), Label("end", lidx)>> \o Keep) >>

GenIf_Drops(node, lidx) ==
  << node.lhs, Asm(IfZero("end", lidx)), node.rhs, Asm(Drop \o Keep \o <<Label("end", lidx)>>) >>

GenIf(node, lidx) ==
  << node.lhs, Asm(IfZero("end", lidx)), node.rhs,
     Asm(Drop \o <<Label("end", lidx)>> \o Keep) >>

\* The value of the `then` branch is not popped before the jump.
GenIfElse(node, lidx) ==
  << node.lhs, Asm(IfZero("else", lidx)), node.rhs,
     Asm(<<Jump("jmp", "end", lidx), Label("else", lidx)>>), node.elsehs,
     Asm(Drop \o <<Label("end", lidx)>> \o Keep) >>

\* Neither the body nor the update is popped before the jump.
GenFor(node, lidx) ==
  << node.initstmt,
     Asm(<<Label("begin", lidx)>>
          \o (IF node.testexpr = NoNode THEN <<<<"push_imm", 1>>>> ELSE <<>>)),
     node.testexpr, Asm(IfZero("end", lidx)), node.lhs, node.updstmt,
     Asm(<<Jump("jmp", "begin", lidx), Label("end", lidx)>> \o Keep) >>

\* Each statement with the pop behind it.
Statements(child) ==
  [i \in 1..2 * Len(child) |-> IF i % 2 = 1 THEN child[(i + 1) \div 2] ELSE Asm(Drop)]

GenBlock_NoResult(node) == Statements(node.child)

GenBlock(node) == Append(Statements(node.child), Asm(Keep))

GenCall(node) ==
  <<Asm(AlignStack)>> \o node.arg
    \o <<Asm(PopArguments(Len(node.arg))
              \o <<<<"mov_imm", "rax", 0>>, <<"call", node.name>>>> \o UnalignStack)>>

GenNot(node) == <<node.lhs, Asm(Drop \o <<<<"xor_imm", "rax", 1>>, <<"push", "rax">>>>)>>

GenDeref(node) == <<node.lhs, Asm(Drop \o <<<<"load", "rax", "rax">>, <<"push", "rax">>>>)>>

GenBinary_Swapped(node) ==
  << node.lhs, node.rhs,
     Asm(<<<<"pop", "rax">>, <<"pop", "rdi">>>> \o Operate(node.kind) \o Keep) >>

GenBinary(node) ==
  << node.lhs, node.rhs,
     Asm(<<<<"pop", "rdi">>, <<"pop", "rax">>>> \o Operate(node.kind) \o Keep) >>

\* The parameters go from their registers to their slots.
StoreParameters(params) ==
  [i \in 1..Len(params) |->
     Asm(PushLocal(params[i])
          \o <<<<"pop", "rax">>, <<"store", "rax", arglist[i]>>, <<"mov_imm", "rax", 0>>>>)]

variable_space(f) ==
  LET space == Len(f.params) * 8 + f.offset
  IN  IF space % 16 # 0 THEN space + 8 ELSE space

\* A FUNCDEF: its name, the offsets of its parameters, the offset after its
\* last local, its body.
GenFunction(f) ==
  <<Asm(<<<<"fn", f.name>>, <<"push", "rbp">>, <<"mov", "rbp", "rsp">>,
           <<"sub_imm", "rsp", variable_space(f)>>>>)>>
    \o StoreParameters(f.params) \o <<f.body, Asm(Epilogue)>>

\* Of what ND_GVARDEF and ND_LITERAL print, the symbol is left.
Data(name) == <<Asm(<<<<"data", name>>>>)>>

gen(node, lidx) ==
  CASE node.kind = "NUM"       -> <<Asm(<<<<"push_imm", node.val>>>>)>>
    [] node.kind \in {"LVAR", "GVARREF"} -> GenValue(node)
    [] node.kind = "STRUCTREF" -> GenRef(node)
    [] node.kind = "ASSIGN"    -> GenAssign(node)
    [] node.kind = "RETURN"    -> GenReturn(node)
    [] node.kind = "WHILE"     -> GenWhile(node, lidx)
    [] node.kind = "IF"        -> GenIf(node, lidx)
    [] node.kind = "IF_ELSE"   -> GenIfElse(node, lidx)
    [] node.kind = "FOR"       -> GenFor(node, lidx)
    [] node.kind = "BLOCK"     -> GenBlock(node)
    [] node.kind = "FUNCALL"   -> GenCall(node)
    [] node.kind = "ADDR"      -> <<GenVariable(node.lhs)>>
    [] node.kind = "DEREF"     -> GenDeref(node)
    [] node.kind = "NOT"       -> GenNot(node)
    [] node.kind = "CAST"      -> <<node.lhs>>
    [] node.kind = "FUNCDEF"   -> GenFunction(node)
    [] node.kind = "GVARDEF"   -> Data(node.name)
    [] node.kind = "LITERAL"   -> Data(LiteralName(node.index))
    [] node.kind = "STRUCTDEF" -> <<>>
    [] node.kind \in Binary    -> GenBinary(node)
=============================================================================
