# A TLA+ development of 9cc

9cc compiles a subset of C to x86-64 assembly. It is a batch program: one
process, one thread, input read once, assembly printed once. What is hard in it
is not concurrency but long sequences of small steps that depend on state left
behind by earlier ones: static counters, linked lists that only grow, offsets
handed out in order, and a stack machine in which every piece of printed code
must leave exactly what the next piece takes. The modules here model those
sequences, TLC checks them on small instances, and TLAPS proves, for every instance, the safety
properties and refinements of the tokenizer, the preprocessor and the storage layout, and that
the assembly printed for any program can be assembled, pops what it has pushed, and when it runs
aligns the stack at every call and returns to the caller's frame.

## Inventory

| Part | Source | State | Operations |
|---|---|---|---|
| Driver | `main.c` | `filename`, `code[100]`, `literals_def[100]` | read the file, then tokenize, preprocess, program, gen in this order |
| Tokenizer | `tokenizer.c` | `user_input`, `cur`, the token list | one rule per iteration of `tokenize_until_end_char`, recursive for `#define` lines |
| Preprocessor | `preprocessor.c` | `hashmap[1009]` of chains, token list | store a definition, replace a token, copy a token |
| Parser: declarations | `parser.c` 13-558 | `locals`, `_offset`, `globals`, `defined_structs`, `defined_enums`, `typedefs` | one routine per kind of declaration |
| Parser: statements, expressions | `parser.c` 560-1117 | `token`, `arg_type`, `literals_def_idx` | recursive descent, one routine per level |
| Symbol tables | `container.c` | the same lists | lookups by name, first match |
| Code generator | `codegen.c` | `labelidx` | `gen()`, one case per node kind |
| Errors, helpers | `util.c` | none | `error`, `error_at` exit the process |

The parts interact through global lists: the tokenizer builds the token list,
the preprocessor replaces it, the parser consumes it through `token` and leaves
trees in `code[]` and `literals_def[]`, and `gen` prints them. Offsets chosen by
the parser (`LVar.offset`, `Node.offset`) are the only thing that ties a variable
to its memory: the layout rules in `parser.c` and the frame size in `codegen.c`
have to agree, and nothing checks that they do.

What makes each part correct:

* declarations: no two live objects share a byte, and everything lies inside
  what the generated code reserves;
* code generator: the printed code computes C's value, keeps the stack
  discipline, aligns the stack at calls, restores the caller's frame, ends;
* preprocessor: the output is the input with every use replaced by the latest
  definition, whatever the hash does;
* tokenizer: it ends, or reports an error, on every input;
* parser: trees have C's precedence, and an index reaches its own element;
* symbol tables: a name means the declaration C gives it.

The hazards are listed at their lines in `PROJECT.json`.

## Modules

| Module | Models | Used by |
|---|---|---|
| `CLexemes` | C's lexical rules: the abstract specification of the tokenizer | `Tokenizer` |
| `Tokenizer` | `tokenizer.c`, one action per rule | `MCTokenizer`, `TokenizerProofs` |
| `LexemeProofs` | nothing: proves that `Tokenizer` reads as `CLexemes` | |
| `MacroExpansion` | the promise of a preprocessor of object-like macros | `Preprocessor` |
| `Preprocessor` | `preprocessor.c`: hash chains and the token loop | `MCPreprocessor`, `PreprocessorProofs` |
| `NatRecursion` | nothing: induction and recursive functions for the provers | `PreprocessorProofs`, `LexemeProofs`, `PrintingProofs` |
| `Types` | sizes of types and of arrays, from `parser.c` and `container.c` | `FrameLayout`, `Parser` |
| `FrameLayout` | offsets of variables and members, frames, `.comm` sizes | `MCFrameLayout`, `FrameLayoutProofs` |
| `Parser` | the rest of `parser.c` and the lists of `container.c` | `Compiler` |
| `Codegen` | one call of `gen()` of `codegen.c` | `Printing` |
| `Printing` | `main()` behind `program()`, and the calls `gen()` makes of itself | `Compiler`, `Machine`, `PrintingProofs` |
| `PrintingProofs` | nothing: proves that the printed code can be assembled | `StackProofs` |
| `StackProofs` | nothing: proves that the printed code pops what it pushed | `MachineProofs` |
| `Compiler` | `main()` from `program()` on: `code[]`, `literals_def[]`, stdout | `Reading` |
| `CSyntax` | how C is written and what trees it means | `Reading` |
| `Reading` | what 9cc makes of a program, next to what C says | `MCCompiler` |
| `CSemantics` | what a tree evaluates to in C | `MCMachine` |
| `Machine` | the processor that runs what `Printing` prints | `MCMachine`, `MachineProofs` |
| `MachineProofs` | nothing: proves what the running code does to the stack | |

The modules follow the pipeline: `Tokenizer` ends in the list `Preprocessor`
begins with, and its property `FeedsPreprocessor` is the assumption
`PreprocessorAssumption` makes of a list; `Parser` leaves the trees `Codegen`
takes; `Machine` composes `Printing` and the processor. `Compiler` composes `Parser` and
`Printing` into one process, and its property `PrintSpec` says that the first leaves what
the second was proved for.

The state machines were modelled in the order of what depends on them: layout and
printed code first, then preprocessor, tokenizer, parser and driver. What is left:
the address of a member in `Machine` (see "Not modelled"), and proofs about
`Parser`, whose operators recurse over tokens.

## FrameLayout

One variable per piece of parser state: `locals` (the linked list, its head
last), `offset` (the static `_offset`), `argnum`, `structs` (`defined_structs`),
`tag` and `fields` (the struct that `defined_struct` is reading), `emitted` (what
`codegen.c` reserves for the definition just read) and `phase` (the routine that
is running). Names are abstracted away: a declaration is its base type, stars and
dimensions. The actions are the routines:

| Action | Code |
|---|---|
| `BeginFunction`, `DeclareParam`, `EndFunction` | `define_function_or_gvar`, and `ND_FUNCDEF` for the frame |
| `DeclareLocal` | the declaration cases of `stmt`, with `declared_lvar`, `declare_structs` |
| `BeginStruct`, `AddField`, `EndStruct` | `defined_struct`, with `declared_lvar_undefined_type` |
| `DeclareGlobal` | `declared_gvar`, `declared_structs_gvar` |
| `Reject` | the error exits of these routines |

`phase = "error"` is the exit of the compiler, so the runs do not check for
deadlock. Not modelled: typedef names as types of parameters and members, and an
identifier that names no type, which the code treats as `int`. Both reach
`declared_lvar` the same way as a type keyword.

Properties and runs (`MCFrameLayout`):

* `frame_locals`: `TypeOK`, `LocalsDisjoint`, `FrameCoversLocals` and
  `ScalarsAdjacent`. Functions have up to four parameters and locals drawn from
  seven shapes (byte, word, struct, pointer to struct, three kinds of array),
  with one struct of up to two members; functions of words and structs alone
  have up to eight, so that the seventh parameter is refused (the constraint
  `FewLocals`). Four variables in any order reach every combination of "array
  first", stale `_offset`, and both roundings of the frame.
* `frame_structs`: `FieldsDisjoint`, `StructLayoutCanonical` and
  `CommonCoversGlobal` for two structs of up to three members, so that a struct
  can hold a struct that holds an array, and be defined after another one or
  after a function, and for globals of these types and arrays of structs
  (`FewFields` keeps these arrays out of the members).
* `frame_overlap` and `frame_int_array` show two defects: an array that is
  not the first declaration of its function overlaps others (`AnyLocalsDisjoint`),
  and a global array of several dimensions is reserved by its last one
  (`CommonCoversIntArray`). The preconditions `ArrayFirst`, `RoomyArray` and
  `CountedGlobal` of the properties that hold exclude exactly these and the kinds
  of array whose elements are given too little room.

### What is proved

`FrameLayoutProofs` proves `TypeOK`, `LocalsDisjoint`, `FrameCoversLocals`,
`FieldsDisjoint`, `CommonCoversGlobal`, `ScalarsAdjacent` and
`StructLayoutCanonical`, all the properties of these runs, as invariants of `Spec`
for every set of declarations and every bound, from `LayoutAssumption` alone (the shape of a
declaration: positive dimensions, a tag exactly on structs).

None of them is inductive by itself. Disjointness is a statement about pairs; the
step that adds a variable knows only the counter and the head of the list. The
inductive invariant `IInv` therefore says that each variable's offset is at least
its extent above the previous one's (so pairs follow by transitivity), that the
counter caught up with the head is at least every offset handed out, and the same
for the members of the struct being read and of every finished one. A frame
covers its variables because its size is computed from the caught-up counter.
The proof has one lemma per group of actions, each with a step per conjunct the
action can disturb.

`ScalarsAdjacent` and `StructLayoutCanonical` need more than bounds: `CanonicalInv`
says what the counter is. While a function of words is read, `offset` is eight
times their number (`WordsInv`; after the function it is not, since `ND_FUNCDEF`
takes one more slot); while a struct of words is read, `offset` is eight times its
members, and member i is charged 8*i bytes at 4*i*(i-1) (`MembersInv`). Its step
uses the types and phases of `IInv` and nothing else of it.

## Codegen, Machine, CSemantics

`Codegen` is one call of `gen()`: an operator from a node and the call's copy of `labelidx` to
the sequence of its parts, one operator per case. A part is a text to print, a node to
call `gen()` with, or the end of the process in `error()`. An instruction is a tuple, not text.
`Machine` EXTENDS `Printing`: a behaviour takes a program from a list (`ParseProgram`
stands for all of `program()`), prints it by the steps of `main()` and `gen()` (see `Printing` below), and then runs
the text that is on stdout (`Start`, `Execute`) on registers and memory, one action per group of instructions.
This part is the assembler and the processor, external to the repository, and
modelled from the instructions `codegen.c` uses. `CSemantics` evaluates the
same trees as C does, with neither stack nor registers, and is what the results
are compared with; for programs with pointers and members the expected value is
the one `test.sh` asserts for the test the program is taken from.

Memory holds 8-byte words at any address. A store takes the place of every word it overlaps
(`Put`), and a word that was never written, or in part overwritten, is not in the domain of `mem`. The
actions that read memory require their address to be in it, a store requires an address of a
global or among the variables of an active function (`IsVariable`; any other is
undefined in C), and a push requires that rsp does not go below 0. `idiv` needs
a divisor and a quotient the processor does not trap on. The run checks for deadlock, so a program that
read an uninitialised word, stored anywhere else, divided by zero or ran out of stack would show.
`frames` is a history variable: rsp, rbp and return
address at entry of every active call, where its variables end, and rsp at the last visit of each loop head.

Properties:

* `ResultCorrect`: main returns C's value;
* `CallAligned`: rsp is a multiple of 16 at every call;
* `StackBelowVariables`: no pop of an expression reaches into the variables;
* `FrameRestored`: every return restores the caller's rsp, rbp and place;
* `LoopKeepsStack`: between two visits of its head, a loop takes nothing off the stack;
* `LoopStack`: nor does it leave more than its statements account for: nothing for `while`,
  two words for `for`, one more for an `else`;
* `Termination`: the program ends. The only fairness is weak fairness of `Execute`:
  a processor does not stop between two instructions;
* `MachineTypeOK`: registers and memory hold words, and pc is at an instruction.

Runs (`MCMachine`): `machine` takes every operator over every arithmetic
operator with operands of both signs (304 programs); loops around branches,
blocks, loops, early returns and behind a loop that has left words (50); branches, recursion, nested calls with up
to six arguments, pointers, members and globals (37); each from both alignments
of rsp. Values wrap at 2^15 instead of 2^63, and addresses stay below 2^13: no
program overflows either. No program has more than ten definitions, or a tree higher than
`Height`, so each is printed whole. `machine_logical` shows that what 9cc.h calls `&&` is bitwise:
1 && 2 is 0. (`||` is, too, on the next lines of codegen.c; the run is not about it.)

### What is proved

`MachineProofs` proves `CallAligned`, `StackBelowVariables`, `LoopKeepsStack` and `FrameRestored`, for every list of programs, every initial rsp and every `Width`, `StackTop` and array size, from
`PrintingAssumption` and `MachineAssumption` alone (the stack lies below the globals, and both among the
words). The code is that of any tree `gen()` may get: the functions may call each other and themselves to any depth,
leave loops and blocks by `return`, and store through any pointer to a variable of any active
function. What is excluded is what ends a behaviour of `Machine`: a store elsewhere, a read of a word that was
never written, a stack that is full, a division by zero. The programs are those C has:
`Start` takes none in which `struct S` stands for a value, for which `gen()` prints nothing.

What is proved of the text can be used because `Compile` is made of `Printing`'s actions and executing changes none
of its variables (lemma `PrintsAsMain`). So `StackInv` (below) holds of the text that runs: every place of the text has
a state (`Stacks`) that says how many words an expression has at least pushed there, behind which of them each call in
progress has aligned the stack, and how far a prologue, an alignment or an epilogue has come.

`MachineInv` says that each active call is in the state of its place:

* `Shape`: the return address is at `frame.rsp`, the caller's rbp below it, unless the prologue or epilogue
  has yet to save it or has restored it, and rbp points there;
* `Evaluates`: rsp is at least h words below the variables, and below where it would have been at each loop
  head of the function with no words on the stack (`Bounds`: the head's rsp plus 8 times the words the text
  has there). What holds of one such bound holds of another, so a loop is no special case: passing its head
  adds a bound (`HeadJoins`), and at its head again rsp has to be below that one. For each call in progress there is a
  multiple of 16 (`top`) where the alignment left rsp and the number of bytes it took (`pad`), in the two
  words below `top`, or, if they are not pushed yet or popped again, in rdx. The bounds of the heights become
  exact between `top` and rsp, since a loop, which may leave words, is a statement and no call's argument contains one;
* `Running` adds what the six instructions of an alignment have in their registers; `Suspended` is the
  state of a caller, behind both words of its alignment, whatever rdx will be when it goes on;
* frames do not overlap: each one's rsp is at or below the previous one's.

None of the four properties is inductive without it: that a return finds the caller's rbp depends on no store or push
having hit the word, which depends on where rsp is in all the functions between. A step therefore has two parts. The
running function comes to its next state (`EvaluatesPush`, `EvaluatesPop`, `EvaluatesAlign`,
`EvaluatesUnalign` for the stack; `PushGoes` to `ReturnGoes`, one lemma per action), where the next place of the text is
the one the relation of the instruction (`Effect`) leads to (`Arrive`, `JumpGoes`). The others keep what they
rely on (`Kept`): a push or a call writes below them (`PushKept`), and a store to a variable misses
the words between rsp and the variables, the saved rbp and the return address (`StoreKept`). A call suspends the caller
(`CallGoes`), and a return resumes it (`ReturnFinds`, `ReturnGoes`), where what the callee left in
rdx does not matter. TLC checks the four properties; the invariant itself quantifies over states of the text
and is out of its reach.

What stays with TLC: `ResultCorrect` and `LoopStack`, whose right sides are numbers of each program (`CSemantics`
evaluates trees by `RECURSIVE` operators, which take the SMT backend away from a proof); `MachineTypeOK`, which for every
program would need bounds on its constants and its size; and `Termination`, a liveness property.

## MacroExpansion, Preprocessor

`MacroExpansion` is the promise: a map from names to bodies, and an output that
replaces each token outside definitions by the body its text was last defined as,
literals excepted. It promises nothing for an input that is not well formed: a
definition without a name, or a literal that reads like a name some definition has.

`Preprocessor` is the code. `cur` is the pointer of that name as an index;
`start` is where `right_tok_head` starts copying; `hashmap` maps a bucket to its
chain, newest entry first; `out` is the list behind `head`; `mode` says which of
the two loops of `preprocess()` runs, or how the process ended.

| Action | Code (`preprocess`) |
|---|---|
| `StartDefine`, `CopyBody`, `EndDefine` | lines 75-96: the name, the loop to `TK_DEFINE_END`, `hashmap_put` |
| `Expand`, `Copy` | lines 98-113: `hashmap_get` finds a body, or does not |
| `Finish` | lines 115-118 |
| `ReadStray` | the index `hashmap_hash` returns is negative |

`CopyBody` ends the process where the code follows the null pointer behind
`TK_EOF`. A read of `hashmap` below index 0 is undefined: the lookup either
finds an empty chain there (`Copy`) or ends in the mode "stray"; a write there
always does. A body is stored as the tokens up to its `TK_DEFINE_END`; the copy
of that token, where the loop that expands a macro stops, is left out.

Run `preprocessor` takes every input of up to four lines from thirteen kinds of
line: definitions of two names that share a bucket (`HASHMAP_SIZE` is 3) with
bodies of zero to two tokens, definitions without a name, inside one another and
of a UTF-8 string, and uses. Four lines hold two definitions, a redefinition and
a use; longer inputs repeat these. It checks

* `KeepsPromise`: the refinement, with `pos` at the `#define` as long as its line
  is read, `macros` as the map that walks along the chains compute, and `ended`
  when the mode is "done";
* `CrashExplained`: the null pointer takes a `#define` without a name;
* `StrayExplained`: a negative index takes a byte above 127, which only a
  literal can hold;
* `Termination`, under weak fairness of `Next`: the process runs until it ends.
  The mode may stay what it is then, so the run does not check for deadlock.

Run `preprocessor_literals` shows what the second exception of the promise hides:
names are compared with the text of every token, and a literal's text lacks its
quotes, so `#define a 5` also replaces `"a"` and `'a'`.

### What is proved

`PreprocessorProofs` proves `TypeOK`, `CrashExplained` and the refinement
`KeepsPromise` for every set of inputs and every table size, from
`PreprocessorAssumption`: the table has a bucket, `TK_EOF` comes last and only
there, and a `TK_DEFINE_END` follows every `TK_DEFINE`, which `tokenize()` ensures.

The inductive invariant adds to the types `ScanInv` (during a definition, `start`
is two tokens behind a `#define` and no end of line lies between it and `cur`),
`TableInv` (every entry is in the bucket of its key, and the walk for that key
stops somewhere) and `KeysInv` (every key is a name in the input). The refinement
rests on `TableInv`: without it an entry could be in the map and out of reach of
`hashmap_get`. What `hashmap_put` does to a walk is proved once (`Extended`,
`FoundNew`, `FoundOld`), and `MacrosPut` concludes that it overrides one name and
no other. `KeysInv` is what makes an expanded literal one that reads like a name.

`StrayExplained` is proved from the same invariant, with induction over the bytes
of a text: as long as no byte is above 127, every partial value of the hash is a
natural number, and so is its remainder (`HashSteps`, `HashInTable`).

The induction is that of `NatRecursion`. The theorems on induction of the library take a
predicate as a parameter, which the provers cannot instantiate, so `Induct` speaks of a
*set* of numbers, and follows from the fact that every set of naturals has a least element.
A function defined by recursion is `CHOOSE f : f = [...]`; `Recursion` says when such an
f exists, and what its values are follows by `Induct`.

`Termination` is only model-checked, being a liveness property.

## CLexemes, Tokenizer

`CLexemes` is C's rule: at each place the longest part of the text that can be a
lexeme is the next one; white space, comments and headers leave nothing behind; a
`#define` reaches to the first newline outside them. It promises nothing where no
lexeme of the subset 9cc reads begins, and `InSubset` lists what the subset lacks
(escape sequences other than `\"` inside a string, character constants with a
backslash, numbers with letters in them).

`Tokenizer` is the code: `p` is the pointer of that name, as an index; `ends` is the
stack of `end_char`s of the active calls of `tokenize_until_end_char`, since a
`#define` calls it again for its line; `tokens` is the list behind `head`; `mode` is
how the process ended. There is one action per rule of the loop, in the order the
code tries them, so the guard of a later one excludes those before it. `Single`
includes the NUL, which `strchr` finds at the end of the string it searches;
`String` steps as the loop at line 274 does, by three symbols at an escaped
quote; `Identifier` takes what no rule before it did, and may be of no letters.
`error_at` is the mode "error", a loop that leaves the buffer the mode "overrun",
and a `calloc` that fails after `MaxTokens` tokens the mode "exhausted".

Characters are abstracted to what the rules compare: one letter and one digit
stand for all, and a keyword, `#include` and `#define` are one symbol each.

Run `tokenizer` takes every text of up to five marks (quote, backslash,
apostrophe, slash, star, newline, letter), where comments and literals begin and
end inside each other, and a second line that begins with a definition, a nested
one, a header or a keyword, followed by up to three of thirteen symbols.
`MaxTokens` is 14, more than any of them needs, so only an endless loop exhausts
it; `MemoryAssumption` says so: it exceeds the length of every file.

* `ReadsAsC`: the refinement of `CLexemes`, wherever the text is in the subset;
* `StopsExplained`: tokenize() gives up, reads on behind the buffer, or fills the memory with
  empty identifiers, only where C has no lexeme of the subset;
* `DefineEnds`: the inner call always has the newline it stops at ahead of it;
* `FeedsPreprocessor`: EOF is last and only there, and a `DEFINE_END` follows every `DEFINE`;
* `TypeOK`, which includes that p never passes the NUL;
* `Termination`, under weak fairness of `Next`: the process runs until it ends.

Run `tokenizer_self_host` shows that a string literal ending in an escaped quote,
as two lines of tokenizer.c do, takes the loop past its closing quote, up to the quote that
opens the next literal. That one's text is read as code, and at its backslash, a symbol no
rule knows, the tokenizer stands still and appends empty identifiers.

### What is proved

`TokenizerProofs` proves `TypeOK`, `DefineEnds` and `FeedsPreprocessor` for every set of
files and every `MaxTokens`, from `TokenizerAssumption` (a file ends in a newline, as
read_file sees to). The inductive invariant adds `Pending`: before the end there is no EOF in
the list, and a `DEFINE` without a `DEFINE_END` behind it is one whose line is being
read. The core of the argument is that every rule but `Space` stops in front of
the last newline of the file (lemma `Text`), so that the inner call cannot be
carried past it. 

`LexemeProofs` proves `ReadsAsC` and `StopsExplained`, from the same invariant and, for the
second, `MemoryAssumption`. The refinement compares what a rule takes with the longest lexeme
at its place, and a longest prefix is a statement about all of them. The proof has three layers:

* `FirstSymbol` says which kind a lexeme is from its first symbol alone, so that
  the rules, which look at the first symbols, compete with one kind each;
* one lemma per rule (`WordReads`, `PairReads`, `BlockReads`, ..., `StringReads`) says that
  what it takes is a lexeme and that no longer prefix is one. The hard one is
  the string: the code's loop is a recursive function that steps over an escaped quote, C's rule
  speaks of the parts between the quotes. `EscapedStep`, `StopsReach` and `EndOf` solve
  the recursion by induction, and `MeaningOf` and `TextOf` relate the text without escapes to the one with them;
* one lemma per group of actions (`SpaceAsC` to `FinishAsC`): the step is a step of `CLexemes`
  or leaves its variables alone.

`StopsExplained` is not inductive: the memory fills token by token, and only the last one shows it. The
strengthening (`Explained`) counts: while the tokenizer runs, either it has no more tokens
and open definitions than symbols read (`Accounted`), and then memory lasts, or it stands at a symbol that only the
identifier rule applies to, which takes nothing and stays there (`NoRule`), and then C has no
lexeme there. TLC checked it as an invariant of run `tokenizer` before it was proved.

`Termination` is only model-checked, being a liveness property.

## Parser, Compiler, CSyntax, Reading

`Parser` has one operator per routine of `parser.c`, from the state it is called in to
what it returns and the state it leaves, `[n, s]`. The state holds the remaining tokens
and the lists (`locals`, `globals`, `structs`, `enums`, `typedefs`, the literals), `_offset`, `arg_type`,
and whether `error()` ended the process. `equality` to `mul`, and `mul_ptr`, are one operator
with a level, since they differ in nothing but their operators and what `add`
does to its right operand. The types are the declarations of `FrameLayout` with
the dimensions and with where 9cc keeps the tag of a struct.

`Compiler` is `main()` after the preprocessor, a state machine again: one turn of
`program()`'s loop (`Define`), its end (`EndParse`), and then the actions of `Printing`.
The uninitialised `ty` of `define_function_or_gvar` is a choice. `code[]` and
`literals_def[]` have a size; a write or a search behind it is the phase "overrun".

`Printing` is what follows `program()`:

| Action | Code |
|---|---|
| `PrintLiteral`, `EndLiterals` | the loop over `literals_def[]` and the line behind it |
| `PrintDefinition`, `Finish` | the loop over `code[]` |
| `Call`, `CallNull` | a call of `gen()` with a node, with NULL |
| `PrintAsm` | the printfs of a call up to its next call |
| `Error` | `error()`, with the instructions before on stdout |

`todo` is what the active calls of `gen()` have left to do, the innermost first: a call puts its
parts in front of what its caller has left. Of `program()`, the specification
`PrintSpec` states only what it leaves: trees of the shape `gen()` relies on (`DefinitionNode`,
`Trees`), whose globals are in `code[]` and whose literals are in `literals_def[]`. That
the real `program()` keeps to this is `PrintSpec` as a property of run `compiler`, under the
identity mapping: `Compiler` implements it.

`CSyntax` writes a program of C as tokens, with the parentheses the precedences need and no
others, and says which tree it means, with C's scaling of sums and indices. `Reading` compares.
A source knows which topic it is about, and each property is about one topic:

* `OperatorsAsC` (every pair of operators in both positions, `&&`, `||` and `<` three deep, prefixes,
  calls): precedence and associativity are C's, except that =, && and || are
  one level from the right, which an || behind an && shows; arguments are read by
  `add()`, so others need parentheses, and a seventh is refused;
* `PointersAsC` (sums, indices, & and * of local and global pointers and arrays): the code's
  sizes are C's exactly if `add()` knows the type of the address, the address is
  on the left, and the elements are those it counts on. This is an equivalence, so it also
  says which sums are wrong: those of global pointers, of an address on the right, of
  differences of pointers, of a char array (counted by eight), of a cast (read as `int *`),
  and those whose other operand has a `%`; and which are rejected: `&` of an array
  or of an element;
* `SizeofAsC`: `arg_type` does not outlive its operand, so a `sizeof` is not
  disturbed by another one or by the variables around it. The exceptions are operands that
  are arrays of words, chars in a sum, calls, dereferences and another `sizeof`;
* `MembersAsC`: which chains of up to three accesses, from locals, globals, pointers and a parameter, reach
  C's member. `struct_ref()` begins again in the variable's struct, so behind the first access 9cc reads the
  chain as if that access were not there: the property follows where it looks each name up, and says that the chain is
  C's exactly if every name is at the same place there as in its own struct. A name that struct
  lacks counts as offset 0, and an access behind it is rejected. So is `->` behind a
  parameter, which keeps its tag where `->` does not look;
* `StatementsAsC`: every statement in every statement, with parts of `for` missing, and the
  dangling `else`;
* `NamesAsC`: a name declared and used in nested blocks, after a function with a local
  of that name, and with a global, an enumerator or nothing behind it, is the variable C
  says, except that what a block declares stays visible behind it;
* `TargetsChecked`: `gen()` ends the process at an assignment exactly if its left side is no lvalue;
* `SymbolsDefined`: no label is printed twice, every jump has its label in its own function, and every
  literal and global that code refers to is printed;
* `PopsCovered`: from where a function has reserved its variables, no pop takes more from the stack
  than was pushed, on any path of jumps, and a loop jumps back with the stack no lower than at
  its label. `Depths` follows the printed text from an instruction on and collects the heights
  each place may be reached with; a jump carries its height to its label, and a backward jump, which
  only has to be high enough, is not followed. The words a call takes off rsp to align the stack are not counted:
  it gives them back (`CallAligned` of `Machine`). Programs in which `struct S` stands for a value are excepted:
  `primary()` accepts that, C does not, and `gen()` prints nothing for it;
* `PrintSpec`: `program()` leaves the trees `gen()` relies on, and `main()` prints them in order;
* `TypeOK`;
* `TablesHold`: the arrays are left exactly when a program has as many definitions or
  literals as they have elements: they hold one less than their size, for the NULL;
* `Progress`: every turn consumes tokens, calls `gen()` for the next element or moves on; within a
  turn, each step leaves fewer nodes to visit (`Nodes`), or as many and fewer parts to print, so
  `gen()` visits no node twice. Tokens, elements, nodes and parts are finitely many: the process ends.

Run `compiler` takes all these sources, ten thousand. `Height`, the bound on the height of a tree, is 12: none
of the sources has a higher tree (with 4, `PrintSpec` is violated).
`CodeSize` is 7 and `LiteralsSize` 6 instead of 100:
the sources about tables have up to one definition and one literal more, the others
fewer. Two levels of nesting reach each pair of routines that call each other, and
three each chain of one level. A source that ends has nothing left to do, so deadlock is not
checked. No fairness is stated: the phases have no choice to be fair about, and `Progress`, an
action property, is what the end of the process follows from.

Run `compiler_members` shows that a member behind a member of another struct type is
looked up in the struct of the variable (`NestedMembersAsC`), so that
`p->t.a` reads at the offset of a member `a` of p's struct. test_file/struct/testh.c
writes such chains and returns the right number because x is at the same offset in its four structs, and w in the
three that have it.

### What is proved

`PrintingProofs` proves `TypeOK` and `SymbolsDefined` as invariants of `PrintSpec`, and
`StackProofs` proves `PopsCovered`, from
`PrintingAssumption` alone (the arrays have an element, `Height` is a number): for every
program, however many definitions, literals and nodes, what `gen()` prints can be assembled and pops
what it has pushed. The
parser's part in it, that `Compiler` implements `PrintSpec`, is only
model-checked, and so are the properties of `Reading` and `TablesHold` and `Progress` of
`Compiler`: recursive descent is recursion over the tokens, written with
`RECURSIVE` operators, which the provers cannot unfold.

`SymbolsDefined` speaks of the finished output. What has to be maintained while it is printed
is a statement about the output and the work to do together (`PrintInv`):

* every literal and definition that the loops have passed is printed or among the work to do (`Visited`), and
  every symbol used is a global of `code[]` or an index of `literals_def[]`;
* the labels in the output and in the work are pairwise distinct, and their numbers are below `labelidx`, so
  that those of the next call are new (`Consistent`);
* every jump is settled: its label is in the output with no function between, or
  still to come in the work before the next function begins (`Settled`, `Open`).

The argument has four layers. Trees are a recursive function of their height; `TreesEquation` and
`AllTrees` solve it by induction (`NatRecursion`), so that a node's children are trees again. Each kind of call is shown to
fit the invariant: the parts of most print neither label nor jump (`QuietCalls`), those of
`if`, `while` and `for` print their labels once, and each jump's label among the same parts
(`LabelledCalls`), and a function brings only calls of trees behind its name (`FunctionCall`). One lemma says that
putting parts in front of the work (`FittingWork`), and moving a text from
the work to the output (`FittingText`), keeps the invariant; `SettleText` and `SettleFunction` are the cases for jumps,
where the end of one function and the beginning of the next matter. Last, one lemma per group of actions.

`PopsCovered` speaks of all paths through the finished output, and of what `gen()` does while it is
at a node nothing is known of the code around it. The proof therefore does not count
heights but gives each place a state with a lower bound of the height, the alignments in progress and the stage of a
prologue, an alignment or an epilogue (`Stacks`). Each instruction is a relation (`Effect`) between a state in
front of it and one behind it: a push may raise the bound by one, a pop has to find one, a jump
needs the bound its label was given, nothing is asked behind a `jmp` or `ret`, and
`sub rsp` starts from 0. Each part of the work is such a relation too (`Does`): a tree
raises the bound by one, whatever it will print. The inductive invariant (`StackInv`) is that there are
heights for the labels and a path of states through all of `out` and on through all
of `todo`. It quantifies over functions, so TLC checks `PopsCovered` and not it. The argument:

* a call of `gen()` replaces a node by parts whose states begin and end where the node's did
  (`AccessWorks` to `OutsideWorks`, one lemma per kind of node, collected in
  `TreeWorks` and `CallWorks`), if the call's labels have the height at which the call begins.
  Its number is `labelidx`, and by `PrintInv` no label in the output or
  the work has it, so the heights may be changed there (`AtLabels`, `Agreeing`, `OldLabels`);
* statements are parts of statements only, and a call's arguments are expressions (`Expressions`), so no
  label of a loop lies between an alignment and its end;
* printing moves a relation from the work to the output, and nothing else changes (`StackGen`);
* a function's path begins anew at its name, and behind its `sub rsp` at 0. The node of a typedef is printed as a sum
  without operands, which pops two words that nobody has pushed, between two functions: outside of a
  function nothing is asked (`OutsideMoves`, `OutsideWorks`);
* `Depths` is a recursive function over the text; `DepthsAbove` shows by induction that it stays above the bounds of any
  path, relative to where it starts. A pop needs a bound of at least 1, so 0 is not among its depths (`Covered`).

## Not modelled

* The build and test scripts, and the bytes of the test programs.
* `read_file`, beyond the newline it appends: plain input.
* Wording of messages, the line `error_at` prints, `debug_print`, and the copies
  into buffers of 64 bytes (`mysubstr`), which no code checks the length for: a name or literal is a value here.
* The bytes of `ND_LITERAL` and the directives of `ND_GVARDEF`, except the symbol they define and the size given to `.comm`.
* Code that never runs: nothing calls `find_gvar_literals`, `new_node_indent` or uses `expect_type`.
* What is not C and no test has, where the models end in an error or choose the plain case: sequences of base types, as in
  `int char x` or `int typedef struct S T;` (the only declaration that fills `struct_aliases`); an empty typedef
  (`typedef x;`), whose type the code leaves NULL; a struct type that is not defined, used as a value, which ends 9cc only where
  the NULL is dereferenced; an array dimension of 0, by which the code divides.
* Where `error_at` looks for the end of the line: behind a comment or character literal that the end of the file
  cuts off it reads on past the NUL. In `Tokenizer` that is the mode "error" like any other.
* Which words are keywords: a word is read as one only before the characters its rule lists, so `else{` is an
  identifier. `Tokenizer` and `CLexemes` compare where a word ends.
* The NULL `gen()` looks for behind the sixth argument of a call, where `arg[]` ends: arguments are a sequence. It is listed as a hazard.
* That `gen()` ignores the members in `&s.x`: the trees agree with C, and the programs `Machine`
  runs take the address of whole variables only. It is listed as a hazard.
