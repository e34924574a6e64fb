------------------------------ MODULE FrameLayout ------------------------------
(***************************************************************************)
(* Where 9cc puts variables.  parser.c turns every declaration of a        *)
(* function into an rbp-relative offset, every struct member into an       *)
(* offset inside the struct, and every global into a .comm size; codegen.c *)
(* derives the stack frame from them.  Names do not matter here: a         *)
(* declaration is the record [base, tag, stars, ndims, cnt, last] of its   *)
(* base type, struct tag, number of `*`, number of `[n]`, product of the   *)
(* dimensions and last dimension.                                          *)
(***************************************************************************)
EXTENDS Integers, Sequences, Types

CONSTANTS
  Tags,        \* names a struct may have
  NoTag,       \* the tag of a declaration that names no struct
  Decls,       \* the declarations the programs use
  MaxLocals,   \* bound: parameters and locals of one function
  MaxFields    \* bound: members of one struct

Kinds == {"INT", "CHAR", "BOOL", "VOID", "STRUCT"}

Declarations ==
  [base : Kinds, tag : Tags \cup {NoTag}, stars : Nat, ndims : Nat,
   cnt : Nat \ {0}, last : Nat \ {0}]

ASSUME LayoutAssumption ==
  /\ NoTag \notin Tags
  /\ \A d \in Decls : /\ d.ndims = 0 => d.cnt = 1 /\ d.last = 1
                      /\ d.ndims = 1 => d.cnt = d.last
  /\ Decls \subseteq Declarations
  /\ \A d \in Decls : d.base = "STRUCT" <=> d.tag \in Tags
  /\ MaxLocals \in Nat /\ MaxFields \in Nat

VARIABLES
  phase,    \* which routine is reading declarations; "error" once 9cc has exited
  locals,   \* the linked list `locals`, its head being the last element
  offset,   \* the static counter `_offset`
  argnum,   \* parameters of the current function
  tag,      \* struct being defined, NoTag outside defined_struct
  fields,   \* its members so far: offset inside the struct and declaration
  structs,  \* defined_structs: tag -> members and size
  emitted   \* what codegen.c reserves for the definition just finished

vars == <<phase, locals, offset, argnum, tag, fields, structs, emitted>>

Nothing == [kind |-> "none", size |-> 0]

-----------------------------------------------------------------------------
(* Sizes of types. *)

\* kind_size as parameters and struct members compute it, and as stmt() does:
\* a pointer to a struct counts as the whole struct in both.
MemberKindSize(d) ==
  IF d.base # "STRUCT" THEN get_size(d.base)
  ELSE IF d.tag = tag THEN 8 ELSE structs[d.tag].size

StmtKindSize(d) ==
  IF d.base = "STRUCT" THEN structs[d.tag].size
  ELSE IF d.base = "INT" THEN 8 ELSE 1

-----------------------------------------------------------------------------
(* Offsets. *)

CaughtUpOffset_IgnoresHead == offset

\* `_offset` after it has caught up with the head of `locals`.
CaughtUpOffset ==
  IF locals # <<>> /\ offset < locals[Len(locals)].off
  THEN locals[Len(locals)].off ELSE offset

get_next_offset(val) == CaughtUpOffset + (IF val <= 8 THEN 8 ELSE val)

declared_lvar(d, kind_size) ==
  IF d.ndims > 0 THEN ArrayOffset(d, kind_size) ELSE get_next_offset(kind_size)

OffsetAfter(d, kind_size) ==
  IF d.ndims > 0 THEN offset ELSE get_next_offset(kind_size)

-----------------------------------------------------------------------------
(* Functions. *)

\* define_function_or_gvar clears both on entry, whatever it goes on to read.
StartDefinition_StaleOffset == locals' = <<>> /\ offset' = offset

StartDefinition == locals' = <<>> /\ offset' = 0

BeginFunction ==
  /\ phase = "top"
  /\ StartDefinition
  /\ phase' = "params"
  /\ argnum' = 0
  /\ emitted' = Nothing
  /\ UNCHANGED <<tag, fields, structs>>

Declare(d, kind_size) ==
  /\ Len(locals) < MaxLocals
  /\ locals' = Append(locals, [off |-> declared_lvar(d, kind_size), d |-> d])
  /\ offset' = OffsetAfter(d, kind_size)

Defined(d) == d.base = "STRUCT" => d.tag \in DOMAIN structs

DeclareParam_Unlimited(d) ==
  /\ phase = "params"
  /\ Defined(d)
  /\ Declare(d, MemberKindSize(d))
  /\ argnum' = argnum + 1
  /\ UNCHANGED <<phase, tag, fields, structs, emitted>>

DeclareParam(d) ==
  /\ phase = "params"
  /\ argnum < 6
  /\ Defined(d)
  /\ Declare(d, MemberKindSize(d))
  /\ argnum' = argnum + 1
  /\ UNCHANGED <<phase, tag, fields, structs, emitted>>

\* stmt() has no case for VOID, and declare_structs reads no dimensions.
LocalParses(d) == d.base # "VOID" /\ (d.base = "STRUCT" => d.ndims = 0)

DeclareLocal(d) ==
  /\ phase \in {"params", "body"}
  /\ LocalParses(d)
  /\ Defined(d)
  /\ Declare(d, StmtKindSize(d))
  /\ phase' = "body"
  /\ UNCHANGED <<argnum, tag, fields, structs, emitted>>

FrameSize_CountsScalarsOnly == argnum * 8 + offset

\* func_node->offset and the rounding of variable_space in codegen.c.
FrameSize ==
  LET space == argnum * 8 + get_next_offset(8)
  IN  IF space % 16 # 0 THEN space + 8 ELSE space

EndFunction ==
  /\ phase \in {"params", "body"}
  /\ phase' = "top"
  /\ offset' = get_next_offset(8)
  /\ emitted' = [kind |-> "frame", size |-> FrameSize]
  /\ UNCHANGED <<locals, argnum, tag, fields, structs>>

-----------------------------------------------------------------------------
(* Structs. *)

BeginStruct(t) ==
  /\ phase = "top"
  /\ t \notin DOMAIN structs
  /\ StartDefinition
  /\ phase' = "struct"
  /\ tag' = t
  /\ fields' = <<>>
  /\ emitted' = Nothing
  /\ UNCHANGED <<argnum, structs>>

SelfPointer(d) == d.tag = tag /\ d.ndims = 0 /\ d.stars > 0

StructSize_WordPerMember == 8 * Len(fields)

\* The sum `offset` of defined_struct: where the next member goes.
StructSize == IF fields = <<>> THEN 0 ELSE
  fields[Len(fields)].at + fields[Len(fields)].room

\* A member is charged lvar->offset bytes, the running offset of its place in
\* the list and not its own size.
AddField(d) ==
  /\ phase = "struct"
  /\ Len(fields) < MaxFields
  /\ Defined(d) \/ SelfPointer(d)
  /\ fields' = Append(fields, [at   |-> StructSize, d |-> d,
                               room |-> declared_lvar(d, MemberKindSize(d))])
  /\ offset' = OffsetAfter(d, MemberKindSize(d))
  /\ UNCHANGED <<phase, locals, argnum, tag, structs, emitted>>

EndStruct ==
  /\ phase = "struct"
  /\ phase' = "top"
  /\ structs' = [t \in DOMAIN structs \cup {tag} |->
                   IF t = tag THEN [size |-> StructSize, fields |-> fields]
                              ELSE structs[t]]
  /\ tag' = NoTag
  /\ fields' = <<>>
  /\ UNCHANGED <<locals, offset, argnum, emitted>>

-----------------------------------------------------------------------------
(* Globals. *)

\* define_function_or_gvar has already eaten the stars of a non-struct global,
\* so its Type never is a pointer; only the last dimension counts.
declared_gvar(d) ==
  LET unit == CASE d.base = "INT" -> 8 [] d.base = "CHAR" -> 1 [] OTHER -> 0
  IN  IF d.ndims > 0 THEN unit * d.last ELSE unit

declared_structs_gvar_LastDimension(d) ==
  IF d.ndims > 0 \/ d.stars > 0 THEN 8 * d.last ELSE structs[d.tag].size

declared_structs_gvar(d) ==
  IF d.ndims > 0 THEN 8 * d.cnt
  ELSE IF d.stars > 0 THEN 8 ELSE structs[d.tag].size

GlobalType(d) == IF d.base = "STRUCT" THEN d ELSE [d EXCEPT !.stars = 0]

DeclareGlobal(d) ==
  /\ phase = "top"
  /\ Defined(d)
  /\ StartDefinition
  /\ emitted' = [kind |-> "comm", d |-> GlobalType(d),
                 size |-> IF d.base = "STRUCT" THEN declared_structs_gvar(d)
                                               ELSE declared_gvar(d)]
  /\ UNCHANGED <<phase, argnum, tag, fields, structs>>

-----------------------------------------------------------------------------
(* What ends 9cc: a seventh parameter, a struct nobody defined (an error or  *)
(* a null dereference), a local that stmt() cannot read, a member that       *)
(* contains its own struct.                                                  *)
Reject(d) ==
  /\ \/ phase = "top" /\ ~Defined(d)
     \/ phase = "params" /\ argnum >= 6
     \/ phase \in {"params", "body"} /\ (~Defined(d) \/ ~LocalParses(d))
     \/ phase = "struct" /\ ~Defined(d) /\ ~SelfPointer(d)
  /\ phase' = "error"
  /\ UNCHANGED <<locals, offset, argnum, tag, fields, structs, emitted>>

Init ==
  /\ phase = "top"
  /\ locals = <<>> /\ offset = 0 /\ argnum = 0
  /\ tag = NoTag /\ fields = <<>> /\ structs = [t \in {} |-> 0]
  /\ emitted = Nothing

Next ==
  \/ BeginFunction
  \/ \E d \in Decls : DeclareParam(d)
  \/ \E d \in Decls : DeclareLocal(d)
  \/ EndFunction
  \/ \E t \in Tags : BeginStruct(t)
  \/ \E d \in Decls : AddField(d)
  \/ EndStruct
  \/ \E d \in Decls : DeclareGlobal(d)
  \/ \E d \in Decls : Reject(d)

Spec == Init /\ [][Next]_vars

-----------------------------------------------------------------------------
(* Properties. *)

Field == [at : Nat, room : Nat, d : Decls]

(* Every variable holds a value of its type; `_offset` and list agree with   *)
(* the routine that is running.                                              *)
TypeOK ==
  /\ phase \in {"top", "params", "body", "struct", "error"}
  /\ locals \in Seq([off : Nat, d : Decls])
  /\ offset \in Nat
  /\ argnum \in 0..6
  /\ tag \in Tags \cup {NoTag}
  /\ fields \in Seq(Field)
  /\ DOMAIN structs \subseteq Tags
  /\ \A t \in DOMAIN structs : structs[t] \in [size : Nat, fields : Seq(Field)]
  /\ emitted.size \in Nat
  /\ \/ emitted = Nothing
     \/ emitted.kind = "frame"
     \/ emitted.kind = "comm" /\ emitted.d \in Declarations

\* Bytes of a variable the generated code reads or writes: every store is
\* `mov [rax], rdi`, eight bytes whatever the type, and index i of an array
\* is i * get_element_size bytes away from its start.
Extent(d) ==
  IF d.ndims > 0 THEN (d.cnt - 1) * get_element_size(d) + 8
  ELSE IF d.base = "STRUCT" /\ d.stars = 0 THEN structs[d.tag].size ELSE 8

\* Arrays whose room is computed with the stride their elements are read with.
\* The others (BOOL, char *x[n], char x[n][m], arrays of structs) are not
\* given enough.
RoomyArray(d) ==
  d.base \in {"INT", "VOID"} \/ (d.base = "CHAR" /\ d.ndims = 1 /\ d.stars = 0)

\* The functions 9cc lays out correctly: an array only comes first, because
\* declared_lvar restarts its offset at rbp.
ArrayFirst ==
  \A i \in 1..Len(locals) :
    locals[i].d.ndims > 0 => i = 1 /\ RoomyArray(locals[i].d)

Apart(v, w) == v.off <= w.off - Extent(w.d) \/ w.off <= v.off - Extent(v.d)

(* No two variables of a function share a byte, as long as an array is the   *)
(* first thing it declares (get_next_offset, declared_lvar): a variable at   *)
(* off owns the bytes [rbp-off, rbp-off+Extent).                             *)
LocalsDisjoint ==
  ArrayFirst => \A i, j \in 1..Len(locals) : i # j => Apart(locals[i], locals[j])

(* The same for any order of declarations, as char/testaa.c and              *)
(* array/testak.c write them: parameters, then arrays and scalars mixed.     *)
AnyLocalsDisjoint ==
  (\A i \in 1..Len(locals) :
     locals[i].d.ndims > 0 => i > argnum /\ RoomyArray(locals[i].d))
    => \A i, j \in 1..Len(locals) : i # j => Apart(locals[i], locals[j])

(* The prologue reserves every byte of every variable: none reaches below    *)
(* rsp, where a call would overwrite it, or up into the saved rbp and return *)
(* address (ND_FUNCDEF in codegen.c, get_next_offset).                       *)
FrameCoversLocals ==
  (emitted.kind = "frame" /\ ArrayFirst) =>
    \A i \in 1..Len(locals) : /\ locals[i].off <= emitted.size
                              /\ Extent(locals[i].d) <= locals[i].off

RoomyMember(d) == d.ndims > 0 => RoomyArray(d)

(* Members of a struct do not share bytes and lie inside its size, nested    *)
(* structs and arrays included (defined_struct).                             *)
FieldsDisjoint ==
  \A t \in DOMAIN structs :
    LET fs == structs[t].fields IN
    (\A i \in 1..Len(fs) : RoomyMember(fs[i].d)) =>
      \A i \in 1..Len(fs) :
        /\ fs[i].at + Extent(fs[i].d) <= structs[t].size
        /\ \A j \in i+1..Len(fs) : fs[i].at + Extent(fs[i].d) <= fs[j].at

(* The layout of a struct depends on its members alone, whatever was parsed  *)
(* before it (separately compiled files agree on it): k one-word members lie *)
(* at 0, 8, 24, 48, ..., because each is charged its place in the list.      *)
StructLayoutCanonical ==
  \A t \in DOMAIN structs :
    LET fs == structs[t].fields IN
    (\A i \in 1..Len(fs) : fs[i].d.ndims = 0 /\ fs[i].d.tag \in {t, NoTag}) =>
      \A i \in 1..Len(fs) : fs[i].at = 4 * i * (i - 1)

(* Consecutive one-word variables are eight bytes apart, the first just      *)
(* below rbp: test_file/derefer_addr/testab.c computes &y + 8 to reach x.    *)
ScalarsAdjacent ==
  (\A i \in 1..Len(locals) : locals[i].d.ndims = 0 /\ locals[i].d.tag = NoTag)
    => \A i \in 1..Len(locals) : locals[i].off = 8 * i

\* Globals whose .comm size is right; CHAR, BOOL and VOID, pointers to them
\* and every array of two dimensions get less than is accessed.
CountedGlobal(d) == d.base = "STRUCT" \/ (d.base = "INT" /\ d.ndims <= 1)

(* The bytes reserved for a global cover every access to it (declared_gvar,  *)
(* declared_structs_gvar, ND_GVARDEF).                                       *)
CommonCoversGlobal ==
  (emitted.kind = "comm" /\ CountedGlobal(emitted.d)) =>
    Extent(emitted.d) <= emitted.size

(* The same for an INT array of any dimensions, as test_file/array/testak.c  *)
(* uses it.                                                                  *)
CommonCoversIntArray ==
  (emitted.kind = "comm" /\ emitted.d.base = "INT") =>
    Extent(emitted.d) <= emitted.size
=============================================================================
