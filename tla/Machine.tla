-------------------------------- MODULE Machine --------------------------------
(***************************************************************************)
(* The assembly that Printing has main() print, executed by an x86-64      *)
(* processor one instruction per step.  Memory is a function from the      *)
(* addresses of 8-byte words to their values; an address is not in its     *)
(* domain if no word was stored there or a part of it was overwritten.     *)
(***************************************************************************)
EXTENDS Printing

CONSTANTS
  Programs,   \* sequence of programs: what they leave in code[], where their
              \* globals are and what they compute
  Rsp0,       \* the values rsp may have when main is entered
  Width,      \* bound: values wrap at -Width and Width instead of 2^63
  StackTop    \* bound: the addresses from here up hold the globals

ASSUME MachineAssumption ==
  /\ StackTop \in Nat /\ Width \in Nat /\ StackTop < Width
  /\ Rsp0 \subseteq 0..StackTop - 8

VARIABLES
  prog,      \* the program, an index of Programs
  process,   \* it "waits" for its assembly, "runs", or has "exited"
  pc,        \* index of the next instruction in `out`; 0 if none is
  reg,       \* registers
  mem,       \* memory
  cmp,       \* the operands cmp compared last, for the flags
  frames     \* history: rsp, rbp and return address of every active call, rsp
             \* below its variables, and rsp at the last visit of each loop head

machineVars == <<process, pc, reg, mem, cmp, frames>>
vars == <<printVars, prog, machineVars>>

Registers == {"rax", "rdi", "rsi", "rdx", "rcx", "r8", "r9", "rsp", "rbp"}

-----------------------------------------------------------------------------
Words == -Width..Width - 1
Signed(v) == IF v \in Words THEN v ELSE ((v + Width) % (2 * Width)) - Width
Unsigned(v) == v % (2 * Width)

\* The bits of two natural numbers, one by one.
Both[a, b \in Nat] ==
  IF a = 0 \/ b = 0 THEN 0 ELSE 2 * Both[a \div 2, b \div 2] + (a % 2) * (b % 2)
And(a, b) == Both[Unsigned(a), Unsigned(b)]
Or(a, b)  == Unsigned(a) + Unsigned(b) - And(a, b)
Xor(a, b) == Or(a, b) - And(a, b)

\* idiv truncates towards zero, and the remainder has the dividend's sign.
Magnitude(v) == IF v < 0 THEN -v ELSE v
Quotient(a, b) ==
  LET q == Magnitude(a) \div Magnitude(b) IN IF (a < 0) = (b < 0) THEN q ELSE -q
Remainder(a, b) == a - b * Quotient(a, b)

Address(name) == StackTop + 8 * Programs[prog].globals[name]

\* The word v at the address a, over whatever it overlaps.
Put(a, v) ==
  [b \in (DOMAIN mem \ (a - 7..a + 7)) \cup {a} |-> IF b = a THEN v ELSE mem[b]]

ins == out[pc]
Is(ops) == process = "runs" /\ ins[1] \in ops

Advance == pc' = pc + 1
Frame == frames[Len(frames)]

\* A store to anything but a variable is undefined in C; it ends the behaviour.
IsVariable(a) ==
  \/ a \in StackTop..Width - 1
  \/ \E k \in DOMAIN frames : a \in frames[k].low..frames[k].rsp - 16

-----------------------------------------------------------------------------
(* From the source to a process. *)

\* program() leaves one of the Programs, which have no string literals.
ParseProgram ==
  /\ code = <<>>
  /\ code' = Programs[prog].code
  /\ UNCHANGED <<literals_def, phase>>
  /\ Parse

Compile ==
  /\ \/ ParseProgram
     \/ code # <<>> /\ EndProgram
     \/ PrintNext
  /\ UNCHANGED <<prog, machineVars>>

NewFrame(rsp, rbp, return) ==
  [rsp |-> rsp, rbp |-> rbp, return |-> return, low |-> rsp - 8, heads |-> [l \in {} |-> 0]]

\* The assembler takes C only, without `struct S` as a value, and the loader
\* calls main.
Start ==
  /\ phase = "done" /\ process = "waits"
  /\ code \in Seq(DefinitionNode({}))
  /\ process' = "runs"
  /\ \E i \in Instructions("fn") : out[i][2] = "main" /\ pc' = i
  /\ \E rsp \in Rsp0 :
       /\ reg' = [reg EXCEPT !["rsp"] = rsp]
       /\ mem' = [a \in {rsp} \cup {StackTop + 8 * i : i \in 0..Programs[prog].words - 1} |-> 0]
       /\ frames' = <<NewFrame(rsp, reg["rbp"], 0)>>
  /\ UNCHANGED <<printVars, prog, cmp>>

-----------------------------------------------------------------------------
(* Instructions.  One that would take rsp below 0 finds no stack any more.   *)

Push ==
  /\ Is({"push", "push_imm"})
  /\ reg["rsp"] >= 8
  /\ mem' = Put(reg["rsp"] - 8, IF ins[1] = "push" THEN reg[ins[2]] ELSE ins[2])
  /\ reg' = [reg EXCEPT !["rsp"] = @ - 8]
  /\ Advance /\ UNCHANGED <<process, cmp, frames>>

Pop ==
  /\ Is({"pop"})
  /\ reg["rsp"] \in DOMAIN mem
  /\ reg' = [reg EXCEPT !["rsp"] = @ + 8, ![ins[2]] = mem[reg["rsp"]]]
  /\ Advance /\ UNCHANGED <<process, mem, cmp, frames>>

Move ==
  /\ Is({"mov", "mov_imm", "lea"})
  /\ reg' = [reg EXCEPT ![ins[2]] = CASE ins[1] = "mov"     -> reg[ins[3]]
                                      [] ins[1] = "mov_imm" -> ins[3]
                                      [] ins[1] = "lea"     -> Address(ins[3])]
  /\ Advance /\ UNCHANGED <<process, mem, cmp, frames>>

Load ==
  /\ Is({"load", "load_byte"})
  /\ reg[ins[3]] \in DOMAIN mem
  /\ LET v == mem[reg[ins[3]]] IN
       reg' = [reg EXCEPT ![ins[2]] = IF ins[1] = "load" THEN v ELSE v % 256]
  /\ Advance /\ UNCHANGED <<process, mem, cmp, frames>>

\* Every store writes a whole word.
Store ==
  /\ Is({"store"})
  /\ IsVariable(reg[ins[2]])
  /\ mem' = Put(reg[ins[2]], reg[ins[3]])
  /\ Advance /\ UNCHANGED <<process, reg, cmp, frames>>

Arithmetic ==
  /\ Is({"add", "sub", "imul", "and", "or", "add_imm", "sub_imm", "xor_imm"})
  /\ ~(ins[1] = "sub_imm" /\ ins[2] = "rsp")
  /\ LET a == reg[ins[2]]
         b == IF ins[1] \in {"add_imm", "sub_imm", "xor_imm"} THEN ins[3] ELSE reg[ins[3]]
     IN  reg' = [reg EXCEPT ![ins[2]] = Signed(
           CASE ins[1] \in {"add", "add_imm"} -> a + b
             [] ins[1] \in {"sub", "sub_imm"} -> a - b
             [] ins[1] = "imul"    -> a * b
             [] ins[1] = "and"     -> And(a, b)
             [] ins[1] = "or"      -> Or(a, b)
             [] ins[1] = "xor_imm" -> Xor(a, b))]
  /\ Advance /\ UNCHANGED <<process, mem, cmp, frames>>

\* A function reserves its variables.
Reserve ==
  /\ Is({"sub_imm"}) /\ ins[2] = "rsp"
  /\ reg["rsp"] >= ins[3]
  /\ reg' = [reg EXCEPT !["rsp"] = @ - ins[3]]
  /\ frames' = [frames EXCEPT ![Len(frames)].low = reg["rsp"] - ins[3]]
  /\ Advance /\ UNCHANGED <<process, mem, cmp>>

\* cqo extends the sign of rax over rdx; idiv divides the pair, and traps on 0
\* and on a quotient that is no word.
SignExtend ==
  /\ Is({"cqo"})
  /\ reg' = [reg EXCEPT !["rdx"] = IF reg["rax"] < 0 THEN -1 ELSE 0]
  /\ Advance /\ UNCHANGED <<process, mem, cmp, frames>>

Divide ==
  /\ Is({"idiv"})
  /\ reg[ins[2]] # 0 /\ Quotient(reg["rax"], reg[ins[2]]) \in Words
  /\ reg["rdx"] = (IF reg["rax"] < 0 THEN -1 ELSE 0)
  /\ reg' = [reg EXCEPT !["rax"] = Quotient(reg["rax"], reg[ins[2]]),
                        !["rdx"] = Remainder(reg["rax"], reg[ins[2]])]
  /\ Advance /\ UNCHANGED <<process, mem, cmp, frames>>

Compare ==
  /\ Is({"cmp", "cmp_imm"})
  /\ cmp' = <<reg[ins[2]], IF ins[1] = "cmp" THEN reg[ins[3]] ELSE ins[3]>>
  /\ Advance /\ UNCHANGED <<process, reg, mem, frames>>

\* setcc writes the low byte of rax only; movzb clears the others.
SetByte ==
  /\ Is({"set"})
  /\ LET holds == CASE ins[2] = "e"  -> cmp[1] = cmp[2]
                    [] ins[2] = "ne" -> cmp[1] # cmp[2]
                    [] ins[2] = "l"  -> cmp[1] < cmp[2]
                    [] ins[2] = "le" -> cmp[1] <= cmp[2]
     IN  reg' = [reg EXCEPT !["rax"] = @ - (@ % 256) + (IF holds THEN 1 ELSE 0)]
  /\ Advance /\ UNCHANGED <<process, mem, cmp, frames>>

ZeroExtend ==
  /\ Is({"movzb"})
  /\ reg' = [reg EXCEPT !["rax"] = @ % 256]
  /\ Advance /\ UNCHANGED <<process, mem, cmp, frames>>

JumpTo ==
  /\ Is({"jmp", "je"})
  /\ IF ins[1] = "jmp" \/ cmp[1] = cmp[2]
     THEN \E i \in Instructions("label") : out[i][2] = ins[2] /\ pc' = i
     ELSE Advance
  /\ UNCHANGED <<process, reg, mem, cmp, frames>>

PassLabel ==
  /\ Is({"label", "fn"})
  /\ frames' = IF ins[1] = "label" /\ ins[2][1] = "begin"
               THEN [frames EXCEPT ![Len(frames)].heads =
                       [l \in DOMAIN @ \cup {ins[2]} |-> IF l = ins[2] THEN reg["rsp"] ELSE @[l]]]
               ELSE frames
  /\ Advance /\ UNCHANGED <<process, reg, mem, cmp>>

CallFunction ==
  /\ Is({"call"})
  /\ reg["rsp"] >= 8
  /\ \E i \in Instructions("fn") : out[i][2] = ins[2] /\ pc' = i
  /\ mem' = Put(reg["rsp"] - 8, pc + 1)
  /\ reg' = [reg EXCEPT !["rsp"] = @ - 8]
  /\ frames' = Append(frames, NewFrame(reg["rsp"] - 8, reg["rbp"], pc + 1))
  /\ UNCHANGED <<process, cmp>>

\* main returns to the loader, whose address is 0.
Return ==
  /\ Is({"ret"})
  /\ reg["rsp"] \in DOMAIN mem
  /\ pc' = mem[reg["rsp"]]
  /\ process' = IF mem[reg["rsp"]] = 0 THEN "exited" ELSE "runs"
  /\ reg' = [reg EXCEPT !["rsp"] = @ + 8]
  /\ frames' = SubSeq(frames, 1, Len(frames) - 1)
  /\ UNCHANGED <<mem, cmp>>

Execute ==
  /\ \/ Push \/ Pop \/ Move \/ Load \/ Store \/ Arithmetic \/ Reserve \/ SignExtend \/ Divide
     \/ Compare \/ SetByte \/ ZeroExtend \/ JumpTo \/ PassLabel \/ CallFunction \/ Return
  /\ UNCHANGED <<printVars, prog>>

Exited == process = "exited" /\ UNCHANGED vars

Init ==
  /\ PrintInit
  /\ prog \in DOMAIN Programs
  /\ process = "waits" /\ pc = 0 /\ cmp = <<0, 0>> /\ frames = <<>>
  /\ reg = [r \in Registers |-> 0]
  /\ mem = [a \in {} |-> 0]

Next == Compile \/ Start \/ Execute \/ Exited

\* The processor keeps executing.
Spec == Init /\ [][Next]_vars /\ WF_vars(Execute)
-----------------------------------------------------------------------------
(* Properties. *)

(* Registers and memory hold words, and the machine is at an instruction of  *)
(* the program or has finished.                                              *)
MachineTypeOK ==
  /\ prog \in DOMAIN Programs
  /\ process \in {"waits", "runs", "exited"}
  /\ pc \in (IF process = "runs" THEN DOMAIN out ELSE {0})
  /\ reg \in [Registers -> Words]
  /\ \A a \in DOMAIN mem : mem[a] \in Words
  /\ \A i \in 1..Len(frames) :
       /\ {frames[i].rsp, frames[i].rbp, frames[i].low} \subseteq Words
       /\ frames[i].return \in {0} \cup DOMAIN out
       /\ \A l \in DOMAIN frames[i].heads : frames[i].heads[l] \in Words

(* The code printed for a program returns what the program computes in C:    *)
(* operands reach their operators in order, arguments their parameters, and  *)
(* a call in the middle of an expression disturbs nothing already pushed     *)
(* (gen, and the expected values of test.sh).                                *)
ResultCorrect == process = "exited" => reg["rax"] = Programs[prog].result

(* rsp is a multiple of 16 at every call, however much the caller has pushed *)
(* and whatever rsp was when main began: the comment at codegen.c:153.       *)
CallAligned == Is({"call"}) => reg["rsp"] % 16 = 0

(* What an expression pops was pushed by an expression: the evaluation stack *)
(* of a function never reaches up into its variables, so every statement     *)
(* pushes at least what its successors pop (all cases of gen).               *)
StackBelowVariables ==
  (Is({"pop"}) /\ ins[2] # "rbp") => reg["rsp"] + 8 <= Frame.low

(* A function returns to its caller with the caller's rsp and rbp, although  *)
(* loops and branches leave words on the stack and a return statement may    *)
(* run in the middle of them (ND_RETURN, ND_FUNCDEF, ND_FUNCALL).            *)
FrameRestored ==
  [][Return => /\ reg'["rsp"] = Frame.rsp + 8
               /\ reg'["rbp"] = Frame.rbp
               /\ pc' = Frame.return]_vars

(* Between two visits of its head a loop takes nothing off the stack: what   *)
(* its statements push is at least what they pop, on every path through them *)
(* (ND_WHILE, ND_FOR, and the statements that gen() prints in them).         *)
LoopKeepsStack ==
  (Is({"label"}) /\ ins[2] \in DOMAIN Frame.heads) => reg["rsp"] <= Frame.heads[ins[2]]

(* Each time it leaves at most what its statements account for there: no     *)
(* word for `while`, two for `for`, one more for an `if` that has an `else`  *)
(* (ND_WHILE, ND_FOR, ND_IF_ELSE).  A loop of n iterations thus needs a      *)
(* stack of 3n words.                                                        *)
LoopStack ==
  (Is({"label"}) /\ ins[2] \in DOMAIN Frame.heads) =>
    reg["rsp"] >= Frame.heads[ins[2]] - 8 * Programs[prog].leaks

(* Every program that ends in C ends when compiled.                          *)
Termination == process = "runs" ~> process = "exited"
=============================================================================
