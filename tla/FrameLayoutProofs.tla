-------------------------- MODULE FrameLayoutProofs --------------------------
(***************************************************************************)
(* Theorems about FrameLayout, for every set of struct tags and of         *)
(* declarations and for functions and structs of any length.               *)
(***************************************************************************)
EXTENDS FrameLayout, SequenceTheorems, TLAPS

-----------------------------------------------------------------------------
(* The inductive invariant. *)

\* The Extent of d does not depend on a struct that is not yet complete.
Measured(d) ==
  (d.base = "STRUCT" /\ d.stars = 0 /\ d.ndims = 0) => d.tag \in DOMAIN structs

PhaseInv ==
  /\ phase \in {"top", "params", "body"} => tag = NoTag
  /\ phase = "struct" => tag \in Tags /\ locals = <<>>
  /\ tag \notin DOMAIN structs
  /\ phase \in {"params", "body", "struct"} => emitted = Nothing

\* The variables of a function are stacked downwards from rbp, each below the
\* bottom of the one before, and `_offset` never falls behind them.
LocalsInv ==
  /\ \A i \in 1..Len(locals) : Measured(locals[i].d)
  /\ ArrayFirst =>
       \A i \in 1..Len(locals) :
         /\ Extent(locals[i].d) <= locals[i].off
         /\ locals[i].off <= CaughtUpOffset
         /\ \A j \in 1..Len(locals) :
              i < j => locals[i].off <= locals[j].off - Extent(locals[j].d)

FrameInv ==
  (emitted.kind = "frame" /\ ArrayFirst) =>
    \A i \in 1..Len(locals) : locals[i].off <= emitted.size

\* The members of the struct being read: each has room for itself, and ends
\* where the next one begins or before.
FieldsInv ==
  \A i \in 1..Len(fields) :
    /\ Measured(fields[i].d)
    /\ RoomyMember(fields[i].d) => Extent(fields[i].d) <= fields[i].room
    /\ fields[i].at + fields[i].room <= StructSize
    /\ \A j \in 1..Len(fields) :
         i < j => fields[i].at + fields[i].room <= fields[j].at

StructsInv ==
  \A t \in DOMAIN structs :
    \A i \in 1..Len(structs[t].fields) :
      /\ Measured(structs[t].fields[i].d)
      /\ RoomyMember(structs[t].fields[i].d) =>
           /\ structs[t].fields[i].at + Extent(structs[t].fields[i].d)
                <= structs[t].size
           /\ \A j \in 1..Len(structs[t].fields) :
                i < j => structs[t].fields[i].at + Extent(structs[t].fields[i].d)
                           <= structs[t].fields[j].at

GlobalInv == emitted.kind = "comm" => Measured(emitted.d) /\ CommonCoversGlobal

IInv == TypeOK /\ PhaseInv /\ LocalsInv /\ FrameInv /\ FieldsInv /\ StructsInv
          /\ GlobalInv

-----------------------------------------------------------------------------
(* Lemmas on the sizes the layout is computed with. *)

USE LayoutAssumption

\* What a declaration is made of.
LEMMA DeclsTyped ==
  ASSUME NEW d \in Decls
  PROVE  /\ d \in Declarations
         /\ d.stars \in Nat /\ d.ndims \in Nat
         /\ d.cnt \in Nat \ {0} /\ d.last \in Nat \ {0}
         /\ d.base \in Kinds /\ d.tag \in Tags \cup {NoTag}
         /\ d.base = "STRUCT" <=> d.tag \in Tags
BY DEF Declarations

\* An element has a positive size.
LEMMA ElementSizeType ==
  ASSUME NEW d \in Decls
  PROVE  get_element_size(d) \in {1, 8}
BY DEF get_element_size, get_size

\* A variable takes a natural number of bytes.
LEMMA ExtentType ==
  ASSUME TypeOK, NEW d \in Decls, Measured(d)
  PROVE  Extent(d) \in Nat
<1>1. d.cnt - 1 \in Nat  BY DeclsTyped
<1>2. CASE d.ndims > 0
  <2>1. (d.cnt - 1) * get_element_size(d) \in Nat  BY <1>1, ElementSizeType
  <2>. QED  BY <1>2, <2>1 DEF Extent
<1>3. CASE ~(d.ndims > 0)
  BY <1>3, DeclsTyped DEF Extent, Measured, TypeOK
<1>. QED  BY <1>2, <1>3

(* What a kind_size has to satisfy for declared_lvar to give d enough room.  *)
KindSizeOK(d, kind_size) ==
  /\ kind_size \in Nat
  /\ d.ndims > 0 /\ RoomyArray(d) => kind_size = get_element_size(d)
  /\ d.ndims = 0 => Extent(d) <= 8 \/ Extent(d) <= kind_size

\* Where a word is reserved for each, an element is a char or takes the word.
LEMMA RoomyElementSize ==
  ASSUME NEW d \in Decls, d.ndims > 0, RoomyArray(d)
  PROVE  get_element_size(d) = IF d.base = "CHAR" THEN 1 ELSE 8
<1>1. TypeKind(d) = "ARRAY"  BY DEF TypeKind
<1>2. get_element_size(d) = get_size(TypeKind([d EXCEPT !.ndims = @ - 1]))
  BY <1>1 DEF get_element_size, Pointee
<1>3. TypeKind([d EXCEPT !.ndims = @ - 1]) \in {"ARRAY", "PTR", d.base}
  BY DeclsTyped DEF TypeKind, Declarations
<1>4. CASE d.base = "CHAR"
  <2>1. d.ndims = 1 /\ d.stars = 0  BY <1>4 DEF RoomyArray
  <2>2. TypeKind([d EXCEPT !.ndims = @ - 1]) = "CHAR"
    BY <1>4, <2>1, DeclsTyped DEF TypeKind, Declarations
  <2>. QED  BY <1>2, <1>4, <2>2 DEF get_size
<1>5. CASE d.base # "CHAR"
  BY <1>2, <1>3, <1>5 DEF get_size
<1>. QED  BY <1>4, <1>5

\* The size of a member, from the branch that declares it.
LEMMA MemberKindSizeOK ==
  ASSUME TypeOK, tag \notin DOMAIN structs,
         NEW d \in Decls, Defined(d) \/ SelfPointer(d)
  PROVE  Measured(d) /\ KindSizeOK(d, MemberKindSize(d))
<1>1. Measured(d)  BY DeclsTyped DEF Measured, Defined, SelfPointer
<1>2. MemberKindSize(d) \in Nat
  BY DeclsTyped DEF MemberKindSize, Defined, SelfPointer, get_size, TypeOK
<1>3. ASSUME d.ndims > 0, RoomyArray(d)
      PROVE  MemberKindSize(d) = get_element_size(d)
  BY <1>3, RoomyElementSize DEF MemberKindSize, get_size, RoomyArray
<1>4. ASSUME d.ndims = 0
      PROVE  Extent(d) <= 8 \/ Extent(d) <= MemberKindSize(d)
  BY <1>1, <1>4, DeclsTyped
     DEF Extent, MemberKindSize, Defined, SelfPointer, Measured, TypeOK
<1>. QED  BY <1>1, <1>2, <1>3, <1>4 DEF KindSizeOK

\* The size of a local, from the branch that declares it.
LEMMA StmtKindSizeOK ==
  ASSUME TypeOK, NEW d \in Decls, Defined(d), LocalParses(d)
  PROVE  Measured(d) /\ KindSizeOK(d, StmtKindSize(d))
<1>1. Measured(d)  BY DeclsTyped DEF Measured, Defined
<1>2. StmtKindSize(d) \in Nat
  BY DeclsTyped DEF StmtKindSize, Defined, TypeOK
<1>3. ASSUME d.ndims > 0, RoomyArray(d)
      PROVE  StmtKindSize(d) = get_element_size(d)
  BY <1>3, RoomyElementSize DEF StmtKindSize, LocalParses, RoomyArray
<1>4. ASSUME d.ndims = 0
      PROVE  Extent(d) <= 8 \/ Extent(d) <= StmtKindSize(d)
  BY <1>1, <1>4, DeclsTyped DEF Extent, StmtKindSize, Defined, TypeOK
<1>. QED  BY <1>1, <1>2, <1>3, <1>4 DEF KindSizeOK

\* The offset caught up with the last local does not decrease.
LEMMA CaughtUpType ==
  ASSUME TypeOK
  PROVE  CaughtUpOffset \in Nat /\ CaughtUpOffset >= offset
<1>1. locals # <<>> => locals[Len(locals)] \in [off : Nat, d : Decls]
  <2>. DEFINE L == [off : Nat, d : Decls]
  <2>1. locals \in Seq(L)  BY DEF TypeOK
  <2>. HIDE DEF L
  <2>2. locals # <<>> => Len(locals) \in Nat \ {0}  BY <2>1, EmptySeq
  <2>3. locals # <<>> => Len(locals) \in 1..Len(locals)  BY <2>2
  <2>4. locals # <<>> => locals[Len(locals)] \in L  BY <2>1, <2>3, ElementOfSeq
  <2>. QED  BY <2>4 DEF L
<1>. QED  BY <1>1 DEF TypeOK, CaughtUpOffset

(* What declared_lvar returns: room for d, and for a scalar room below       *)
(* everything placed before it.                                              *)
LEMMA DeclaredRoom ==
  ASSUME TypeOK, NEW d \in Decls, Measured(d), NEW ks, KindSizeOK(d, ks)
  PROVE  /\ declared_lvar(d, ks) \in Nat
         /\ OffsetAfter(d, ks) \in Nat
         /\ RoomyMember(d) => Extent(d) <= declared_lvar(d, ks)
         /\ d.ndims = 0 => /\ OffsetAfter(d, ks) = declared_lvar(d, ks)
                           /\ CaughtUpOffset <= declared_lvar(d, ks) - Extent(d)
<1>1. CaughtUpOffset \in Nat /\ Extent(d) \in Nat /\ ks \in Nat /\ offset \in Nat
  BY CaughtUpType, ExtentType DEF KindSizeOK, TypeOK
<1>2. CASE d.ndims > 0
  <2>1. d.cnt - 1 \in Nat  BY DeclsTyped
  <2>2. PICK q \in Nat : q = (d.cnt - 1) \div 8  BY <2>1
  <2>3. (d.cnt - 1) * ks \in Nat  BY <1>1, <2>1
  <2>4. ArrayOffset(d, ks) = (d.cnt - 1) * ks + (q + 1) * 8
    BY <2>2 DEF ArrayOffset
  <2>5. RoomyMember(d) => Extent(d) = (d.cnt - 1) * ks + 8
    BY <1>2 DEF RoomyMember, KindSizeOK, Extent
  <2>. HIDE DEF ArrayOffset, Extent
  <2>6. declared_lvar(d, ks) = ArrayOffset(d, ks) /\ OffsetAfter(d, ks) = offset
    BY <1>2 DEF declared_lvar, OffsetAfter
  <2>. QED  BY <1>1, <1>2, <2>3, <2>4, <2>5, <2>6
<1>3. CASE ~(d.ndims > 0)
  <2>1. d.ndims = 0  BY <1>3, DeclsTyped
  <2>2. get_next_offset(ks) \in Nat /\ CaughtUpOffset <= get_next_offset(ks) - Extent(d)
    BY <1>1, <2>1 DEF get_next_offset, KindSizeOK
  <2>3. declared_lvar(d, ks) = get_next_offset(ks) /\ OffsetAfter(d, ks) = get_next_offset(ks)
    BY <2>1 DEF declared_lvar, OffsetAfter
  <2>. QED  BY <1>1, <2>1, <2>2, <2>3
<1>. QED  BY <1>2, <1>3

-----------------------------------------------------------------------------
(* What each kind of step preserves. *)

\* A list of typed locals stays one when it grows.
LEMMA TypedLocals ==
  ASSUME TypeOK
  PROVE  /\ Len(locals) \in Nat
         /\ \A i \in 1..Len(locals) : /\ locals[i] \in [off : Nat, d : Decls]
                                      /\ locals[i].off \in Nat
                                      /\ locals[i].d \in Decls
         /\ Len(fields) \in Nat
         /\ \A i \in 1..Len(fields) : /\ fields[i] \in Field
                                      /\ fields[i].at \in Nat
                                      /\ fields[i].room \in Nat
                                      /\ fields[i].d \in Decls
<1>. DEFINE L == [off : Nat, d : Decls]
<1>1. locals \in Seq(L) /\ fields \in Seq(Field)  BY DEF TypeOK
<1>. HIDE DEF L
<1>2. Len(locals) \in Nat /\ Len(fields) \in Nat  BY <1>1, LenProperties
<1>3. \A i \in 1..Len(locals) : locals[i] \in L  BY <1>1, ElementOfSeq
<1>4. \A i \in 1..Len(fields) : fields[i] \in Field  BY <1>1, ElementOfSeq
<1>. QED  BY <1>2, <1>3, <1>4 DEF L, Field

\* To declare a local keeps the invariant.
LEMMA DeclareStep ==
  ASSUME TypeOK, LocalsInv, structs' = structs,
         NEW d \in Decls, Measured(d), NEW ks, KindSizeOK(d, ks), Declare(d, ks)
  PROVE  /\ locals' \in Seq([off : Nat, d : Decls])
         /\ offset' \in Nat
         /\ LocalsInv'
<1>. DEFINE n   == Len(locals)
            new == [off |-> declared_lvar(d, ks), d |-> d]
<1>1. /\ new \in [off : Nat, d : Decls]
      /\ new.off = declared_lvar(d, ks) /\ new.d = d
      /\ offset' = OffsetAfter(d, ks) /\ offset' \in Nat
  BY DeclaredRoom DEF Declare
<1>2. /\ locals' \in Seq([off : Nat, d : Decls])
      /\ n \in Nat /\ Len(locals') = n + 1
      /\ \A i \in 1..n : locals'[i] = locals[i]
      /\ locals'[n + 1] = new
  <2>1. locals' = Append(locals, new)  BY DEF Declare
  <2>. QED  BY <1>1, <2>1, TypedLocals, AppendProperties DEF TypeOK
<1>3. \A e : (Extent(e))' = Extent(e) /\ (Measured(e))' = Measured(e)
  BY DEF Extent, Measured
<1>4. CaughtUpOffset' = IF offset' < new.off THEN new.off ELSE offset'
  <2>1. locals' # <<>>  BY <1>2, EmptySeq
  <2>. QED  BY <1>2, <2>1 DEF CaughtUpOffset
<1>. HIDE DEF new
<1>5. \A i \in 1..n+1 : (Measured(locals[i].d))'
  <2>. SUFFICES ASSUME NEW i \in 1..n+1  PROVE Measured(locals'[i].d)
    BY <1>3 DEF Measured
  <2>1. CASE i \in 1..n  BY <1>2, <2>1 DEF LocalsInv
  <2>2. CASE i = n + 1    BY <1>1, <1>2, <2>2
  <2>. QED  BY <1>2, <2>1, <2>2
<1>6. ASSUME ArrayFirst'
      PROVE  /\ ArrayFirst
             /\ d.ndims > 0 => n = 0
             /\ RoomyMember(d)
  <2>1. \A i \in 1..n+1 : locals'[i].d.ndims > 0 =>
                             i = 1 /\ RoomyArray(locals'[i].d)
    BY <1>2, <1>6 DEF ArrayFirst, RoomyArray
  <2>2. ArrayFirst  BY <1>2, <2>1 DEF ArrayFirst
  <2>3. d.ndims > 0 => n + 1 = 1 /\ RoomyArray(d)
    BY <1>1, <1>2, <2>1
  <2>. QED  BY <1>2, <2>2, <2>3 DEF RoomyMember
<1>7. ASSUME ArrayFirst'
      PROVE  \A i \in 1..n+1 :
                /\ Extent(locals'[i].d) <= locals'[i].off
                /\ locals'[i].off <= CaughtUpOffset'
                /\ \A j \in 1..n+1 :
                     i < j => locals'[i].off <= locals'[j].off - Extent(locals'[j].d)
  <2>1. /\ RoomyMember(d) /\ ArrayFirst /\ (d.ndims > 0 => n = 0)
        /\ Extent(d) \in Nat /\ new.off \in Nat
        /\ Extent(d) <= new.off
        /\ d.ndims = 0 => /\ offset' = new.off
                          /\ CaughtUpOffset <= new.off - Extent(d)
    BY <1>1, <1>6, <1>7, DeclaredRoom, ExtentType
  <2>2. CaughtUpOffset \in Nat  BY CaughtUpType
  <2>3. n > 0 => d.ndims = 0  BY <1>2, <2>1, DeclsTyped
  <2>4. new.off <= CaughtUpOffset'  BY <1>1, <1>4, <2>1
  <2>5. ASSUME NEW i \in 1..n
        PROVE  /\ Extent(locals[i].d) <= locals[i].off
               /\ locals[i].off <= new.off - Extent(d)
               /\ locals[i].off \in Nat
    BY <1>2, <2>1, <2>2, <2>3, TypedLocals DEF LocalsInv
  <2>. SUFFICES ASSUME NEW i \in 1..n+1
                PROVE  /\ Extent(locals'[i].d) <= locals'[i].off
                       /\ locals'[i].off <= CaughtUpOffset'
                       /\ \A j \in 1..n+1 : i < j =>
                            locals'[i].off <= locals'[j].off - Extent(locals'[j].d)
    OBVIOUS
  <2>6. CASE i = n + 1  BY <1>1, <1>2, <2>1, <2>4, <2>6
  <2>7. CASE i \in 1..n
    <3>1. locals'[i] = locals[i] /\ new.off - Extent(d) <= new.off
      BY <1>2, <2>1, <2>7
    <3>2. CaughtUpOffset' \in Nat  BY <1>1, <1>4, <2>1
    <3>3. locals[i].off <= CaughtUpOffset'
      BY <2>1, <2>4, <2>5, <2>7, <3>1, <3>2
    <3>4. ASSUME NEW j \in 1..n+1, i < j
          PROVE  locals'[i].off <= locals'[j].off - Extent(locals'[j].d)
      <4>1. CASE j \in 1..n  BY <1>2, <2>1, <2>7, <3>4, <4>1 DEF LocalsInv
      <4>2. CASE j = n + 1   BY <1>1, <1>2, <2>5, <2>7, <3>1, <4>2
      <4>. QED  BY <1>2, <4>1, <4>2
    <3>. QED  BY <2>5, <2>7, <3>1, <3>3, <3>4
  <2>. QED  BY <1>2, <2>6, <2>7
<1>8. LocalsInv'
  BY <1>2, <1>3, <1>5, <1>7 DEF LocalsInv
<1>. QED  BY <1>1, <1>2, <1>8

\* The size of a struct is a number.
LEMMA StructSizeType ==
  ASSUME TypeOK
  PROVE  StructSize \in Nat
<1>1. fields # <<>> => Len(fields) \in 1..Len(fields)
  <2>1. fields \in Seq(Field)  BY DEF TypeOK
  <2>2. fields # <<>> => Len(fields) \in Nat \ {0}  BY <2>1, EmptySeq
  <2>. QED  BY <2>2
<1>. QED  BY <1>1, TypedLocals DEF StructSize

\* To add a member keeps the invariant.
LEMMA AddFieldStep ==
  ASSUME TypeOK, PhaseInv, FieldsInv, NEW d \in Decls, AddField(d)
  PROVE  /\ fields' \in Seq(Field)
         /\ offset' \in Nat
         /\ FieldsInv'
<1>. DEFINE ks  == MemberKindSize(d)
            n   == Len(fields)
            new == [at |-> StructSize, d |-> d, room |-> declared_lvar(d, ks)]
<1>1. Measured(d) /\ KindSizeOK(d, ks)
  BY MemberKindSizeOK DEF PhaseInv, AddField
<1>. HIDE DEF ks
<1>2. /\ new \in Field
      /\ new.at = StructSize /\ new.room = declared_lvar(d, ks) /\ new.d = d
      /\ new.room \in Nat /\ StructSize \in Nat
      /\ RoomyMember(d) => Extent(d) <= new.room
      /\ OffsetAfter(d, ks) \in Nat
  BY <1>1, DeclaredRoom, StructSizeType DEF Field
<1>3. fields' = Append(fields, new) /\ offset' = OffsetAfter(d, ks)
  BY DEF AddField, ks
<1>. HIDE DEF new
<1>4. /\ fields' \in Seq(Field)
      /\ n \in Nat /\ Len(fields') = n + 1
      /\ \A i \in 1..n : fields'[i] = fields[i]
      /\ fields'[n + 1] = new
  BY <1>2, <1>3, TypedLocals, AppendProperties DEF TypeOK
<1>5. \A e : (Extent(e))' = Extent(e) /\ (Measured(e))' = Measured(e)
  BY DEF AddField, Extent, Measured
<1>6. StructSize' = new.at + new.room
  <2>1. fields' # <<>>  BY <1>4, EmptySeq
  <2>. QED  BY <1>4, <2>1 DEF StructSize
<1>7. StructSize <= StructSize'  BY <1>2, <1>6
<1>8. ASSUME NEW i \in 1..n+1
      PROVE  /\ Measured(fields'[i].d)
             /\ RoomyMember(fields'[i].d) => Extent(fields'[i].d) <= fields'[i].room
             /\ fields'[i].at + fields'[i].room <= StructSize'
             /\ \A j \in 1..n+1 :
                  i < j => fields'[i].at + fields'[i].room <= fields'[j].at
  <2>1. CASE i = n + 1  BY <1>1, <1>2, <1>4, <1>6, <2>1
  <2>2. CASE i \in 1..n
    <3>1. fields[i].at \in Nat /\ fields[i].room \in Nat  BY <2>2, TypedLocals
    <3>2. fields[i].at + fields[i].room <= StructSize'
      BY <1>2, <1>6, <1>7, <2>2, <3>1 DEF FieldsInv
    <3>3. ASSUME NEW j \in 1..n+1, i < j
          PROVE  fields[i].at + fields[i].room <= fields'[j].at
      <4>1. CASE j \in 1..n  BY <1>4, <2>2, <3>3, <4>1 DEF FieldsInv
      <4>2. CASE j = n + 1   BY <1>2, <1>4, <2>2, <4>2 DEF FieldsInv
      <4>. QED  BY <1>4, <4>1, <4>2
    <3>. QED  BY <1>4, <2>2, <3>2, <3>3 DEF FieldsInv
  <2>. QED  BY <1>4, <2>1, <2>2
<1>9. FieldsInv'
  BY <1>4, <1>5, <1>8 DEF FieldsInv, RoomyMember, RoomyArray
<1>. QED  BY <1>2, <1>3, <1>4, <1>9

(* Finishing a struct leaves the Extent of every declaration that was        *)
(* measurable before as it was.                                              *)
LEMMA EndStructStep ==
  ASSUME TypeOK, PhaseInv, FieldsInv, StructsInv, EndStruct
  PROVE  /\ DOMAIN structs' \subseteq Tags
         /\ \A t \in DOMAIN structs' :
              structs'[t] \in [size : Nat, fields : Seq(Field)]
         /\ StructsInv'
<1>1. tag \in Tags /\ tag \notin DOMAIN structs  BY DEF PhaseInv, EndStruct
<1>. DEFINE new == [size |-> StructSize, fields |-> fields]
<1>2. /\ DOMAIN structs' = DOMAIN structs \cup {tag}
      /\ structs'[tag] = new
      /\ \A t \in DOMAIN structs : structs'[t] = structs[t]
  BY <1>1 DEF EndStruct
<1>3. new \in [size : Nat, fields : Seq(Field)]
  BY StructSizeType DEF TypeOK
<1>4. ASSUME NEW e \in Decls, Measured(e)
      PROVE  (Measured(e))' /\ (Extent(e))' = Extent(e)
  <2>1. e.ndims \in Nat  BY DeclsTyped
  <2>2. (Measured(e))'  BY <1>2, <1>4 DEF Measured
  <2>3. CASE e.ndims > 0  BY <2>2, <2>3 DEF Extent
  <2>4. CASE e.ndims = 0
    <3>1. CASE e.base = "STRUCT" /\ e.stars = 0
      <4>1. e.tag \in DOMAIN structs  BY <1>4, <2>4, <3>1 DEF Measured
      <4>. QED  BY <1>2, <2>2, <2>4, <4>1 DEF Extent
    <3>2. CASE ~(e.base = "STRUCT" /\ e.stars = 0)
      BY <2>2, <2>4, <3>2 DEF Extent
    <3>. QED  BY <3>1, <3>2
  <2>. QED  BY <2>1, <2>3, <2>4
<1>5. ASSUME NEW t \in DOMAIN structs'
      PROVE  structs'[t] \in [size : Nat, fields : Seq(Field)]
  BY <1>2, <1>3 DEF TypeOK
<1>. HIDE DEF new
<1>6. ASSUME NEW t \in DOMAIN structs', NEW i \in 1..Len(structs'[t].fields)
      PROVE  /\ (Measured(structs[t].fields[i].d))'
             /\ RoomyMember(structs'[t].fields[i].d) =>
                  /\ structs'[t].fields[i].at + (Extent(structs[t].fields[i].d))'
                       <= structs'[t].size
                  /\ \A j \in 1..Len(structs'[t].fields) :
                       i < j => structs'[t].fields[i].at
                                  + (Extent(structs[t].fields[i].d))'
                                  <= structs'[t].fields[j].at
  <2>1. CASE t = tag
    <3>1. structs'[t].fields = fields /\ structs'[t].size = StructSize
      BY <1>2, <2>1 DEF new
    <3>2. /\ fields[i].d \in Decls /\ fields[i].at \in Nat /\ fields[i].room \in Nat
          /\ Measured(fields[i].d)
      BY <1>6, <3>1, TypedLocals DEF FieldsInv
    <3>3. Extent(fields[i].d) \in Nat /\ StructSize \in Nat
      BY <3>2, ExtentType, StructSizeType
    <3>4. /\ (Measured(structs[t].fields[i].d))'
          /\ (Extent(structs[t].fields[i].d))' = Extent(fields[i].d)
      BY <1>4, <3>1, <3>2 DEF Measured, Extent
    <3>5. ASSUME RoomyMember(fields[i].d)
          PROVE  /\ fields[i].at + Extent(fields[i].d) <= StructSize
                 /\ \A j \in 1..Len(fields) :
                      i < j => fields[i].at + Extent(fields[i].d) <= fields[j].at
      <4>. i \in 1..Len(fields)  BY <1>6, <3>1
      <4>1. /\ Extent(fields[i].d) <= fields[i].room
            /\ fields[i].at + fields[i].room <= StructSize
        BY <3>5 DEF FieldsInv
      <4>2. ASSUME NEW j \in 1..Len(fields), i < j
            PROVE  /\ fields[i].at + fields[i].room <= fields[j].at
                   /\ fields[j].at \in Nat
        BY <4>2, TypedLocals DEF FieldsInv
      <4>. QED  BY <3>2, <3>3, <4>1, <4>2
    <3>. QED  BY <3>1, <3>4, <3>5
  <2>2. CASE t # tag
    <3>1. t \in DOMAIN structs /\ structs'[t] = structs[t]  BY <1>2, <1>6, <2>2
    <3>2. structs[t].fields[i] \in Field
      BY <1>6, <3>1, ElementOfSeq DEF TypeOK
    <3>3. structs[t].fields[i].d \in Decls /\ Measured(structs[t].fields[i].d)
      BY <1>6, <3>1, <3>2 DEF Field, StructsInv
    <3>4. /\ (Measured(structs[t].fields[i].d))'
          /\ (Extent(structs[t].fields[i].d))' = Extent(structs[t].fields[i].d)
      BY <1>4, <3>1, <3>3 DEF Measured, Extent
    <3>. QED  BY <1>6, <3>1, <3>4 DEF StructsInv
  <2>. QED  BY <2>1, <2>2
<1>7. StructsInv'
  BY <1>6 DEF StructsInv, RoomyMember, RoomyArray
<1>. QED  BY <1>1, <1>2, <1>5, <1>7 DEF TypeOK

\* The bytes a global is given hold it.
LEMMA GlobalRoom ==
  ASSUME TypeOK, NEW d \in Decls, Defined(d), DeclareGlobal(d)
  PROVE  /\ emitted'.size \in Nat
         /\ emitted'.kind = "comm" /\ emitted'.d \in Declarations
         /\ (Measured(emitted.d))'
         /\ CommonCoversGlobal'
<1>. DEFINE g    == GlobalType(d)
            size == IF d.base = "STRUCT" THEN declared_structs_gvar(d)
                                         ELSE declared_gvar(d)
<1>1. emitted' = [kind |-> "comm", d |-> g, size |-> size] /\ structs' = structs
  BY DEF DeclareGlobal
<1>2. /\ g \in Declarations
      /\ g.base = d.base /\ g.tag = d.tag /\ g.ndims = d.ndims /\ g.cnt = d.cnt
      /\ d.base = "STRUCT" => g = d
      /\ d.base # "STRUCT" => g.stars = 0
  BY DeclsTyped DEF GlobalType, Declarations
<1>3. Measured(g)  BY <1>2 DEF Measured, Defined
<1>4. size \in Nat
  <2>1. CASE d.base = "STRUCT"
    BY <2>1, DeclsTyped DEF declared_structs_gvar, Defined, TypeOK
  <2>2. CASE d.base # "STRUCT"
    BY <2>2, DeclsTyped DEF declared_gvar
  <2>. QED  BY <2>1, <2>2
<1>. HIDE DEF g, size
<1>5. ASSUME CountedGlobal(g)  PROVE Extent(g) <= size
  <2>1. CASE d.base = "STRUCT" /\ d.ndims > 0
    <3>1. get_element_size(d) = 8
      <4>1. TypeKind([d EXCEPT !.ndims = @ - 1]) \in {"ARRAY", "PTR", "STRUCT"}
        BY <2>1, DeclsTyped DEF TypeKind, Declarations
      <4>. QED  BY <2>1, <4>1 DEF get_element_size, get_size, TypeKind, Pointee
    <3>2. Extent(g) = 8 * d.cnt  BY <1>2, <2>1, <3>1, DeclsTyped DEF Extent
    <3>. QED  BY <2>1, <3>2, DeclsTyped DEF size, declared_structs_gvar
  <2>2. CASE d.base = "STRUCT" /\ d.ndims = 0
    <3>1. structs[d.tag].size \in Nat  BY <2>2 DEF Defined, TypeOK
    <3>. QED
      BY <1>2, <2>2, <3>1, DeclsTyped DEF Extent, size, declared_structs_gvar
  <2>3. CASE d.base # "STRUCT"
    <3>1. d.base = "INT" /\ d.ndims <= 1  BY <1>2, <1>5, <2>3 DEF CountedGlobal
    <3>2. CASE d.ndims = 0
      BY <1>2, <2>3, <3>1, <3>2 DEF Extent, size, declared_gvar
    <3>3. CASE d.ndims = 1
      <4>1. d.cnt = d.last /\ d.cnt \in Nat  BY <3>3, DeclsTyped
      <4>2. get_element_size(g) = 8
        <5>1. TypeKind([g EXCEPT !.ndims = @ - 1]) = "INT"
          BY <1>2, <2>3, <3>1, <3>3 DEF TypeKind, Declarations
        <5>. QED
          BY <1>2, <3>3, <5>1 DEF get_element_size, get_size, TypeKind, Pointee
      <4>3. Extent(g) = 8 * d.cnt  BY <1>2, <3>3, <4>1, <4>2 DEF Extent
      <4>. QED  BY <3>1, <3>3, <4>1, <4>3 DEF size, declared_gvar
    <3>. QED  BY <3>1, <3>2, <3>3, DeclsTyped
  <2>. QED  BY <2>1, <2>2, <2>3, DeclsTyped
<1>6. (Extent(g))' = Extent(g) /\ (Measured(g))' = Measured(g)
  BY <1>1 DEF Extent, Measured, g, GlobalType
<1>7. emitted'.d = g /\ emitted'.size = size /\ emitted'.kind = "comm"
  BY <1>1
<1>. QED
  BY <1>1, <1>2, <1>3, <1>4, <1>5, <1>6, <1>7
  DEF CommonCoversGlobal, Measured, Extent, CountedGlobal

(* What a step that leaves the variables of a conjunct alone preserves.      *)
LEMMA Kept ==
  /\ LocalsInv /\ UNCHANGED <<locals, offset, structs>> => LocalsInv'
  /\ StartDefinition /\ TypeOK => LocalsInv' /\ offset' \in Nat
                                  /\ locals' \in Seq([off : Nat, d : Decls])
  /\ FieldsInv /\ UNCHANGED <<fields, structs>> => FieldsInv'
  /\ fields' = <<>> => FieldsInv'
  /\ StructsInv /\ UNCHANGED structs => StructsInv'
  /\ GlobalInv /\ UNCHANGED <<emitted, structs>> => GlobalInv'
  /\ emitted' = Nothing => FrameInv' /\ GlobalInv'
  /\ FrameInv /\ UNCHANGED <<emitted, locals>> => FrameInv'
<1>1. LocalsInv /\ UNCHANGED <<locals, offset, structs>> => LocalsInv'
  BY DEF LocalsInv, Measured, Extent, ArrayFirst, RoomyArray, CaughtUpOffset
<1>2. StartDefinition /\ TypeOK => LocalsInv' /\ offset' \in Nat
                                  /\ locals' \in Seq([off : Nat, d : Decls])
  <2>. SUFFICES ASSUME StartDefinition, TypeOK
                PROVE  LocalsInv' /\ offset' \in Nat
                         /\ locals' \in Seq([off : Nat, d : Decls])
    OBVIOUS
  <2>1. offset' = 0 /\ locals' = <<>> /\ Len(locals') = 0  BY DEF StartDefinition
  <2>2. \A i \in 1..Len(locals') : FALSE  BY <2>1
  <2>3. LocalsInv'  BY <2>2 DEF LocalsInv
  <2>. QED  BY <2>1, <2>3, EmptySeq
<1>3. FieldsInv /\ UNCHANGED <<fields, structs>> => FieldsInv'
  BY DEF FieldsInv, Measured, Extent, RoomyMember, RoomyArray, StructSize
<1>4. fields' = <<>> => FieldsInv'
  <2>. SUFFICES ASSUME fields' = <<>>  PROVE FieldsInv'
    OBVIOUS
  <2>1. \A i \in 1..Len(fields') : FALSE  OBVIOUS
  <2>. QED  BY <2>1 DEF FieldsInv
<1>5. StructsInv /\ UNCHANGED structs => StructsInv'
  BY DEF StructsInv, Measured, Extent, RoomyMember, RoomyArray
<1>6. GlobalInv /\ UNCHANGED <<emitted, structs>> => GlobalInv'
  BY DEF GlobalInv, Measured, CommonCoversGlobal, CountedGlobal, Extent
<1>7. emitted' = Nothing => FrameInv' /\ GlobalInv'
  BY DEF Nothing, FrameInv, GlobalInv
<1>8. FrameInv /\ UNCHANGED <<emitted, locals>> => FrameInv'
  BY DEF FrameInv, ArrayFirst, RoomyArray
<1>. QED  BY <1>1, <1>2, <1>3, <1>4, <1>5, <1>6, <1>7, <1>8

\* The bytes a frame reserves hold its locals.
LEMMA FrameRoom ==
  ASSUME TypeOK
  PROVE  FrameSize \in Nat /\ CaughtUpOffset <= FrameSize
<1>1. CaughtUpOffset \in Nat /\ argnum \in 0..6  BY CaughtUpType DEF TypeOK
<1>2. get_next_offset(8) = CaughtUpOffset + 8  BY DEF get_next_offset
<1>. DEFINE space == argnum * 8 + get_next_offset(8)
<1>3. space \in Nat /\ CaughtUpOffset <= space  BY <1>1, <1>2
<1>4. FrameSize = IF space % 16 # 0 THEN space + 8 ELSE space  BY DEF FrameSize
<1>. HIDE DEF space
<1>5. FrameSize = space \/ FrameSize = space + 8  BY <1>4
<1>. QED  BY <1>1, <1>3, <1>5

\* To end a function keeps the invariant.
LEMMA EndFunctionStep ==
  ASSUME TypeOK, LocalsInv, EndFunction
  PROVE  LocalsInv' /\ FrameInv' /\ offset' \in Nat /\ emitted'.size \in Nat
<1>1. CaughtUpOffset \in Nat /\ FrameSize \in Nat /\ CaughtUpOffset <= FrameSize
  BY CaughtUpType, FrameRoom
<1>2. /\ offset' = CaughtUpOffset + 8
      /\ locals' = locals /\ structs' = structs
      /\ emitted' = [kind |-> "frame", size |-> FrameSize]
  BY DEF EndFunction, get_next_offset
<1>3. CaughtUpOffset <= CaughtUpOffset' /\ CaughtUpOffset' \in Nat
  <2>1. locals # <<>> => locals[Len(locals)].off \in Nat
    <3>1. locals # <<>> => Len(locals) \in Nat \ {0}  BY EmptySeq DEF TypeOK
    <3>2. locals # <<>> => Len(locals) \in 1..Len(locals)  BY <3>1
    <3>. QED  BY <3>2, TypedLocals
  <2>2. CaughtUpOffset' = IF locals # <<>> /\ offset' < locals[Len(locals)].off
                         THEN locals[Len(locals)].off ELSE offset'
    BY <1>2 DEF CaughtUpOffset
  <2>. HIDE DEF CaughtUpOffset
  <2>. QED  BY <1>1, <1>2, <2>1, <2>2
<1>4. ArrayFirst' <=> ArrayFirst  BY <1>2 DEF ArrayFirst, RoomyArray
<1>5. \A e : (Extent(e))' = Extent(e) /\ (Measured(e))' = Measured(e)
  BY <1>2 DEF Extent, Measured
<1>6. ASSUME ArrayFirst, NEW i \in 1..Len(locals)
      PROVE  locals[i].off <= CaughtUpOffset' /\ locals[i].off <= FrameSize
  <2>1. locals[i].off <= CaughtUpOffset /\ locals[i].off \in Nat
    BY <1>6, TypedLocals DEF LocalsInv
  <2>. QED  BY <1>1, <1>3, <2>1
<1>7. LocalsInv'
  BY <1>2, <1>4, <1>5, <1>6 DEF LocalsInv
<1>. QED  BY <1>1, <1>2, <1>4, <1>6, <1>7 DEF FrameInv

-----------------------------------------------------------------------------
(* The invariant holds initially and every step preserves it. *)

\* The invariant holds at first.
LEMMA InitInv == Init => IInv
<1>. SUFFICES ASSUME Init  PROVE IInv
  OBVIOUS
<1>1. Len(locals) = 0 /\ Len(fields) = 0 /\ DOMAIN structs = {}  BY DEF Init
<1>2. TypeOK
  BY EmptySeq, <1>1 DEF Init, TypeOK, Nothing
<1>3. PhaseInv  BY <1>1 DEF Init, PhaseInv
<1>4. (\A i \in 1..Len(locals) : FALSE) /\ (\A i \in 1..Len(fields) : FALSE)
  BY <1>1
<1>5. LocalsInv /\ FrameInv /\ FieldsInv  BY <1>4 DEF LocalsInv, FrameInv, FieldsInv
<1>6. StructsInv /\ GlobalInv  BY <1>1 DEF Init, Nothing, StructsInv, GlobalInv
<1>. QED  BY <1>2, <1>3, <1>5, <1>6 DEF IInv

\* Every step keeps it.
LEMMA NextInv == IInv /\ [Next]_vars => IInv'
<1>. SUFFICES ASSUME IInv, [Next]_vars  PROVE IInv'
  OBVIOUS
<1>. USE DEF IInv
<1>1. CASE BeginFunction
  <2>1. TypeOK'    BY <1>1, Kept DEF BeginFunction, TypeOK, Nothing
  <2>2. PhaseInv'  BY <1>1 DEF BeginFunction, PhaseInv
  <2>. QED  BY <1>1, <2>1, <2>2, Kept DEF BeginFunction
<1>2. ASSUME NEW d \in Decls, DeclareParam(d)  PROVE IInv'
  <2>1. Measured(d) /\ KindSizeOK(d, MemberKindSize(d))
    BY <1>2, MemberKindSizeOK DEF DeclareParam, PhaseInv
  <2>2. /\ locals' \in Seq([off : Nat, d : Decls]) /\ offset' \in Nat /\ LocalsInv'
    BY <1>2, <2>1, DeclareStep DEF DeclareParam
  <2>3. TypeOK'    BY <1>2, <2>2 DEF DeclareParam, TypeOK
  <2>4. PhaseInv'  BY <1>2 DEF DeclareParam, PhaseInv
  <2>. QED  BY <1>2, <2>2, <2>3, <2>4, Kept DEF DeclareParam, PhaseInv
<1>3. ASSUME NEW d \in Decls, DeclareLocal(d)  PROVE IInv'
  <2>1. Measured(d) /\ KindSizeOK(d, StmtKindSize(d))
    BY <1>3, StmtKindSizeOK DEF DeclareLocal
  <2>2. /\ locals' \in Seq([off : Nat, d : Decls]) /\ offset' \in Nat /\ LocalsInv'
    BY <1>3, <2>1, DeclareStep DEF DeclareLocal
  <2>3. TypeOK'    BY <1>3, <2>2 DEF DeclareLocal, TypeOK
  <2>4. PhaseInv'  BY <1>3 DEF DeclareLocal, PhaseInv
  <2>. QED  BY <1>3, <2>2, <2>3, <2>4, Kept DEF DeclareLocal, PhaseInv
<1>4. CASE EndFunction
  <2>1. LocalsInv' /\ FrameInv' /\ offset' \in Nat /\ emitted'.size \in Nat
    BY <1>4, EndFunctionStep
  <2>2. emitted'.kind = "frame"  BY <1>4 DEF EndFunction
  <2>3. TypeOK'    BY <1>4, <2>1, <2>2 DEF EndFunction, TypeOK
  <2>4. PhaseInv'  BY <1>4 DEF EndFunction, PhaseInv
  <2>. QED  BY <1>4, <2>1, <2>2, <2>3, <2>4, Kept DEF EndFunction, GlobalInv
<1>5. ASSUME NEW t \in Tags, BeginStruct(t)  PROVE IInv'
  <2>1. TypeOK'    BY <1>5, Kept, EmptySeq DEF BeginStruct, TypeOK, Nothing
  <2>2. PhaseInv'  BY <1>5 DEF BeginStruct, StartDefinition, PhaseInv
  <2>. QED  BY <1>5, <2>1, <2>2, Kept DEF BeginStruct
<1>6. ASSUME NEW d \in Decls, AddField(d)  PROVE IInv'
  <2>1. fields' \in Seq(Field) /\ offset' \in Nat /\ FieldsInv'
    BY <1>6, AddFieldStep
  <2>2. LocalsInv'
    <3>1. locals' = <<>>  BY <1>6 DEF AddField, PhaseInv
    <3>2. \A i \in 1..Len(locals') : FALSE  BY <3>1
    <3>. QED  BY <3>2 DEF LocalsInv
  <2>3. TypeOK'    BY <1>6, <2>1 DEF AddField, TypeOK
  <2>4. PhaseInv'  BY <1>6 DEF AddField, PhaseInv
  <2>. QED  BY <1>6, <2>1, <2>2, <2>3, <2>4, Kept DEF AddField, PhaseInv
<1>7. CASE EndStruct
  <2>1. /\ DOMAIN structs' \subseteq Tags
        /\ \A t \in DOMAIN structs' :
             structs'[t] \in [size : Nat, fields : Seq(Field)]
        /\ StructsInv'
    BY <1>7, EndStructStep
  <2>2. LocalsInv'
    <3>1. locals' = <<>>  BY <1>7 DEF EndStruct, PhaseInv
    <3>2. \A i \in 1..Len(locals') : FALSE  BY <3>1
    <3>. QED  BY <3>2 DEF LocalsInv
  <2>3. TypeOK'    BY <1>7, <2>1, EmptySeq DEF EndStruct, TypeOK
  <2>4. PhaseInv'
    <3>1. DOMAIN structs' \subseteq Tags /\ tag' = NoTag  BY <1>7, <2>1 DEF EndStruct
    <3>2. tag' \notin DOMAIN structs'  BY <3>1
    <3>. QED  BY <1>7, <3>1, <3>2 DEF EndStruct, PhaseInv
  <2>5. emitted' = Nothing /\ fields' = <<>>  BY <1>7 DEF EndStruct, PhaseInv
  <2>. QED  BY <2>1, <2>2, <2>3, <2>4, <2>5, Kept
<1>8. ASSUME NEW d \in Decls, DeclareGlobal(d)  PROVE IInv'
  <2>1. /\ emitted'.size \in Nat
        /\ emitted'.kind = "comm" /\ emitted'.d \in Declarations
        /\ (Measured(emitted.d))' /\ CommonCoversGlobal'
    BY <1>8, GlobalRoom DEF DeclareGlobal
  <2>2. TypeOK'    BY <1>8, <2>1, Kept DEF DeclareGlobal, TypeOK
  <2>3. PhaseInv'  BY <1>8 DEF DeclareGlobal, PhaseInv
  <2>. QED
    BY <1>8, <2>1, <2>2, <2>3, Kept DEF DeclareGlobal, FrameInv, GlobalInv
<1>9. ASSUME NEW d \in Decls, Reject(d)  PROVE IInv'
  <2>1. TypeOK'    BY <1>9 DEF Reject, TypeOK
  <2>2. PhaseInv'  BY <1>9 DEF Reject, PhaseInv
  <2>. QED  BY <1>9, <2>1, <2>2, Kept DEF Reject
<1>10. CASE UNCHANGED vars
  <2>1. TypeOK'    BY <1>10 DEF vars, TypeOK
  <2>2. PhaseInv'  BY <1>10 DEF vars, PhaseInv
  <2>. QED  BY <1>10, <2>1, <2>2, Kept DEF vars
<1>. QED
  BY <1>1, <1>2, <1>3, <1>4, <1>5, <1>6, <1>7, <1>8, <1>9, <1>10 DEF Next

-----------------------------------------------------------------------------
(* Theorems. *)

(* The layout invariant holds in every state of the compiler.               *)
THEOREM Layout == Spec => []IInv
  BY InitInv, NextInv, PTL DEF Spec

(* Every variable keeps its type, whatever the program declares.             *)
THEOREM TypeCorrect == Spec => []TypeOK
<1>1. IInv => TypeOK  BY DEF IInv
<1>. QED  BY <1>1, Layout, PTL

(* No two variables of a function whose only array comes first share a byte. *)
THEOREM LocalsNeverOverlap == Spec => []LocalsDisjoint
<1>1. IInv => LocalsDisjoint
  <2>. SUFFICES ASSUME IInv, ArrayFirst,
                       NEW i \in 1..Len(locals), NEW j \in 1..Len(locals), i # j
                PROVE  Apart(locals[i], locals[j])
    BY DEF LocalsDisjoint
  <2>1. Len(locals) \in Nat  BY TypedLocals DEF IInv
  <2>2. CASE i < j  BY <2>2 DEF IInv, LocalsInv, Apart
  <2>3. CASE j < i  BY <2>3 DEF IInv, LocalsInv, Apart
  <2>. QED  BY <2>1, <2>2, <2>3
<1>. QED  BY <1>1, Layout, PTL

(* The prologue of such a function reserves every byte of its variables, and *)
(* none reaches up into the saved rbp.                                       *)
THEOREM FrameAlwaysCovers == Spec => []FrameCoversLocals
<1>1. IInv => FrameCoversLocals
  BY DEF IInv, LocalsInv, FrameInv, FrameCoversLocals
<1>. QED  BY <1>1, Layout, PTL

(* The members of a struct never share a byte and never leave the struct,    *)
(* for structs of any number of members nested to any depth.                 *)
THEOREM FieldsNeverOverlap == Spec => []FieldsDisjoint
<1>1. IInv => FieldsDisjoint
  <2>. SUFFICES ASSUME IInv, NEW t \in DOMAIN structs,
                       NEW i \in 1..Len(structs[t].fields),
                       RoomyMember(structs[t].fields[i].d)
                PROVE  /\ structs[t].fields[i].at + Extent(structs[t].fields[i].d)
                            <= structs[t].size
                       /\ \A j \in i+1..Len(structs[t].fields) :
                            structs[t].fields[i].at + Extent(structs[t].fields[i].d)
                              <= structs[t].fields[j].at
    BY DEF FieldsDisjoint
  <2>1. Len(structs[t].fields) \in Nat  BY LenProperties DEF IInv, TypeOK
  <2>2. \A j \in i+1..Len(structs[t].fields) :
          j \in 1..Len(structs[t].fields) /\ i < j
    BY <2>1
  <2>. QED  BY <2>2 DEF IInv, StructsInv
<1>. QED  BY <1>1, Layout, PTL

(* The bytes reserved for a global always cover every access to it, for the  *)
(* globals whose size 9cc computes from all their dimensions.                *)
THEOREM GlobalsCovered == Spec => []CommonCoversGlobal
<1>1. IInv => CommonCoversGlobal
  BY DEF IInv, GlobalInv, CommonCoversGlobal
<1>. QED  BY <1>1, Layout, PTL
-----------------------------------------------------------------------------
(* Where words go: an invariant of its own, on top of the layout's. *)

ScalarLocals == \A i \in 1..Len(locals) : locals[i].d.ndims = 0 /\ locals[i].d.tag = NoTag

PlainMembers(fs, t) == \A i \in 1..Len(fs) : fs[i].d.ndims = 0 /\ fs[i].d.tag \in {t, NoTag}

\* While a function is read, `_offset` is where its last word was put.
WordsInv ==
  ScalarLocals =>
    /\ \A i \in 1..Len(locals) : locals[i].off = 8 * i
    /\ phase \in {"params", "body"} => offset = 8 * Len(locals)

\* While a struct is read, member i is charged 8 * i bytes.
MembersInv ==
  phase = "struct" /\ PlainMembers(fields, tag) =>
    /\ offset = 8 * Len(fields)
    /\ \A i \in 1..Len(fields) : /\ fields[i].at = 4 * i * (i - 1)
                                 /\ fields[i].room = 8 * i

CanonicalInv == WordsInv /\ MembersInv /\ StructLayoutCanonical

\* A one-word variable goes eight bytes below the last.
LEMMA WordOffset ==
  ASSUME TypeOK, NEW d \in Decls, d.ndims = 0, NEW ks \in Nat, ks <= 8
  PROVE  /\ declared_lvar(d, ks) = CaughtUpOffset + 8
         /\ OffsetAfter(d, ks) = CaughtUpOffset + 8
BY DEF declared_lvar, OffsetAfter, get_next_offset

\* A step keeps what FrameInWords says of the locals.
LEMMA WordsStep ==
  ASSUME TypeOK, WordsInv, phase \in {"params", "body"},
         NEW d \in Decls, NEW ks \in Nat, d.tag = NoTag => ks <= 8, Declare(d, ks)
  PROVE  WordsInv'
<1>. DEFINE n   == Len(locals)
            new == [off |-> declared_lvar(d, ks), d |-> d]
<1>. SUFFICES ASSUME ScalarLocals'
              PROVE  /\ \A i \in 1..Len(locals') : locals'[i].off = 8 * i
                     /\ offset' = 8 * Len(locals')
  BY DEF WordsInv
<1>1. n \in Nat /\ locals \in Seq([off : Nat, d : Decls])  BY TypedLocals DEF TypeOK
<1>2. locals' = Append(locals, new) /\ offset' = OffsetAfter(d, ks)  BY DEF Declare
<1>3. /\ Len(locals') = n + 1
      /\ \A i \in 1..n : locals'[i] = locals[i]
      /\ locals'[n + 1] = new
  BY <1>1, <1>2
<1>4. new.d = d /\ new.off = declared_lvar(d, ks)  OBVIOUS
<1>. HIDE DEF new
<1>5. ScalarLocals
  <2>1. \A i \in 1..n : i \in 1..(n + 1)  BY <1>1
  <2>. QED  BY <1>3, <2>1 DEF ScalarLocals
<1>6. d.ndims = 0 /\ d.tag = NoTag
  <2>1. n + 1 \in 1..(n + 1)  BY <1>1
  <2>. QED  BY <1>3, <1>4, <2>1 DEF ScalarLocals
<1>7. offset = 8 * n /\ \A i \in 1..n : locals[i].off = 8 * i  BY <1>5 DEF WordsInv
<1>8. CaughtUpOffset = 8 * n
  <2>1. CASE locals = <<>>  BY <1>7, <2>1 DEF CaughtUpOffset
  <2>2. CASE locals # <<>>
    <3>1. n \in 1..n
      <4>1. n \in Nat \ {0}  BY <1>1, <2>2, EmptySeq
      <4>. QED  BY <4>1
    <3>. QED  BY <1>7, <3>1 DEF CaughtUpOffset
  <2>. QED  BY <2>1, <2>2
<1>9. declared_lvar(d, ks) = 8 * n + 8 /\ OffsetAfter(d, ks) = 8 * n + 8
  BY <1>6, <1>8, WordOffset
<1>10. ASSUME NEW i \in 1..n+1  PROVE locals'[i].off = 8 * i
  <2>1. CASE i \in 1..n    BY <1>3, <1>7, <2>1
  <2>2. CASE i = n + 1     BY <1>1, <1>3, <1>4, <1>9, <2>2
  <2>. QED  BY <1>1, <2>1, <2>2
<1>. QED  BY <1>1, <1>2, <1>3, <1>9, <1>10

\* A step keeps what is said of the members.
LEMMA MembersStep ==
  ASSUME TypeOK, PhaseInv, MembersInv, NEW d \in Decls, AddField(d)
  PROVE  MembersInv'
<1>. DEFINE n   == Len(fields)
            ks  == MemberKindSize(d)
            new == [at |-> StructSize, d |-> d, room |-> declared_lvar(d, ks)]
<1>. SUFFICES ASSUME PlainMembers(fields', tag)
              PROVE  /\ offset' = 8 * Len(fields')
                     /\ \A i \in 1..Len(fields') : /\ fields'[i].at = 4 * i * (i - 1)
                                                   /\ fields'[i].room = 8 * i
  BY DEF MembersInv, AddField
<1>1. n \in Nat /\ fields \in Seq(Field)  BY TypedLocals DEF TypeOK
<1>2. fields' = Append(fields, new) /\ offset' = OffsetAfter(d, ks) /\ phase = "struct"
  BY DEF AddField
<1>3. /\ Len(fields') = n + 1
      /\ \A i \in 1..n : fields'[i] = fields[i]
      /\ fields'[n + 1] = new
  BY <1>1, <1>2
<1>4. new.d = d /\ new.at = StructSize /\ new.room = declared_lvar(d, ks)  OBVIOUS
<1>5. ks = MemberKindSize(d)  OBVIOUS
<1>. HIDE DEF new, ks
<1>6. PlainMembers(fields, tag)
  <2>1. \A i \in 1..n : i \in 1..(n + 1)  BY <1>1
  <2>. QED  BY <1>3, <2>1 DEF PlainMembers
<1>7. d.ndims = 0 /\ d.tag \in {tag, NoTag}
  <2>1. n + 1 \in 1..(n + 1)  BY <1>1
  <2>. QED  BY <1>3, <1>4, <2>1 DEF PlainMembers
<1>8. /\ offset = 8 * n
      /\ \A i \in 1..n : fields[i].at = 4 * i * (i - 1) /\ fields[i].room = 8 * i
  BY <1>2, <1>6 DEF MembersInv
<1>9. ks \in Nat /\ ks <= 8
  <2>1. d.base # "STRUCT" \/ d.tag = tag  BY <1>7, DeclsTyped
  <2>. QED  BY <1>5, <2>1 DEF MemberKindSize, get_size
<1>10. CaughtUpOffset = 8 * n  BY <1>2, <1>8 DEF CaughtUpOffset, PhaseInv
<1>11. declared_lvar(d, ks) = 8 * n + 8 /\ OffsetAfter(d, ks) = 8 * n + 8
  BY <1>7, <1>9, <1>10, WordOffset
<1>12. StructSize = 4 * (n + 1) * n
  <2>1. CASE fields = <<>>
    <3>1. n = 0 /\ StructSize = 0  BY <2>1 DEF StructSize
    <3>. QED  BY <3>1
  <2>2. CASE fields # <<>>
    <3>1. n \in 1..n
      <4>1. n \in Nat \ {0}  BY <1>1, <2>2, EmptySeq
      <4>. QED  BY <4>1
    <3>2. StructSize = 4 * n * (n - 1) + 8 * n  BY <1>8, <2>2, <3>1 DEF StructSize
    <3>3. 4 * n * (n - 1) + 8 * n = 4 * (n + 1) * n  BY <1>1
    <3>. QED  BY <3>2, <3>3
  <2>. QED  BY <2>1, <2>2
<1>13. ASSUME NEW i \in 1..n+1
       PROVE  fields'[i].at = 4 * i * (i - 1) /\ fields'[i].room = 8 * i
  <2>1. CASE i \in 1..n    BY <1>3, <1>8, <2>1
  <2>2. CASE i = n + 1
    <3>1. i - 1 = n  BY <1>1, <2>2
    <3>. QED  BY <1>1, <1>3, <1>4, <1>11, <1>12, <2>2, <3>1
  <2>. QED  BY <1>1, <2>1, <2>2
<1>. QED  BY <1>1, <1>2, <1>3, <1>11, <1>13

(* What a step that leaves the variables of a conjunct alone preserves.      *)
LEMMA CanonicalKept ==
  /\ WordsInv /\ UNCHANGED locals /\ (phase' \in {"params", "body"} => UNCHANGED <<phase, offset>>)
       => WordsInv'
  /\ StartDefinition => WordsInv'
  /\ phase' # "struct" => MembersInv'
  /\ StructLayoutCanonical /\ UNCHANGED structs => StructLayoutCanonical'
<1>1. WordsInv /\ UNCHANGED locals /\ (phase' \in {"params", "body"} => UNCHANGED <<phase, offset>>)
        => WordsInv'
  BY DEF WordsInv, ScalarLocals
<1>2. StartDefinition => WordsInv'
  <2>. SUFFICES ASSUME StartDefinition  PROVE WordsInv'
    OBVIOUS
  <2>1. Len(locals') = 0 /\ offset' = 0  BY DEF StartDefinition
  <2>2. \A i \in 1..Len(locals') : FALSE  BY <2>1
  <2>. QED  BY <2>1, <2>2 DEF WordsInv
<1>3. phase' # "struct" => MembersInv'  BY DEF MembersInv
<1>4. StructLayoutCanonical /\ UNCHANGED structs => StructLayoutCanonical'
  BY DEF StructLayoutCanonical
<1>. QED  BY <1>1, <1>2, <1>3, <1>4

\* The canonical invariant holds at first.
LEMMA InitCanonical == Init => CanonicalInv
<1>. SUFFICES ASSUME Init  PROVE CanonicalInv
  OBVIOUS
<1>1. Len(locals) = 0 /\ DOMAIN structs = {} /\ phase = "top"  BY DEF Init
<1>2. \A i \in 1..Len(locals) : FALSE  BY <1>1
<1>. QED  BY <1>1, <1>2 DEF CanonicalInv, WordsInv, MembersInv, StructLayoutCanonical

\* Every step keeps it.
LEMMA NextCanonical == IInv /\ CanonicalInv /\ [Next]_vars => CanonicalInv'
<1>. SUFFICES ASSUME IInv, CanonicalInv, [Next]_vars  PROVE CanonicalInv'
  OBVIOUS
<1>. USE DEF CanonicalInv
<1>0. TypeOK /\ PhaseInv  BY DEF IInv
<1>1. CASE BeginFunction
  BY <1>1, CanonicalKept DEF BeginFunction
<1>2. ASSUME NEW d \in Decls, DeclareParam(d)  PROVE CanonicalInv'
  <2>1. MemberKindSize(d) \in Nat /\ (d.tag = NoTag => MemberKindSize(d) <= 8)
    BY <1>0, <1>2, DeclsTyped DEF MemberKindSize, Defined, get_size, TypeOK, DeclareParam
  <2>2. WordsInv'  BY <1>0, <1>2, <2>1, WordsStep DEF DeclareParam
  <2>. QED  BY <1>2, <2>2, CanonicalKept DEF DeclareParam
<1>3. ASSUME NEW d \in Decls, DeclareLocal(d)  PROVE CanonicalInv'
  <2>1. StmtKindSize(d) \in Nat /\ (d.tag = NoTag => StmtKindSize(d) <= 8)
    BY <1>0, <1>3, DeclsTyped DEF StmtKindSize, Defined, TypeOK, DeclareLocal
  <2>2. WordsInv'  BY <1>0, <1>3, <2>1, WordsStep DEF DeclareLocal
  <2>. QED  BY <1>3, <2>2, CanonicalKept DEF DeclareLocal
<1>4. CASE EndFunction
  BY <1>4, CanonicalKept DEF EndFunction
<1>5. ASSUME NEW t \in Tags, BeginStruct(t)  PROVE CanonicalInv'
  <2>1. Len(fields') = 0 /\ offset' = 0  BY <1>5 DEF BeginStruct, StartDefinition
  <2>2. \A i \in 1..Len(fields') : FALSE  BY <2>1
  <2>3. MembersInv'  BY <2>1, <2>2 DEF MembersInv
  <2>. QED  BY <1>5, <2>3, CanonicalKept DEF BeginStruct
<1>6. ASSUME NEW d \in Decls, AddField(d)  PROVE CanonicalInv'
  <2>1. MembersInv'  BY <1>0, <1>6, MembersStep
  <2>. QED  BY <1>6, <2>1, CanonicalKept DEF AddField
<1>7. CASE EndStruct
  <2>1. phase = "struct" /\ phase' = "top" /\ locals' = locals  BY <1>7 DEF EndStruct
  <2>2. ASSUME NEW t \in DOMAIN structs', PlainMembers(structs'[t].fields, t)
        PROVE  \A i \in 1..Len(structs'[t].fields) :
                 structs'[t].fields[i].at = 4 * i * (i - 1)
    <3>1. CASE t = tag
      <4>1. structs'[t].fields = fields  BY <1>7, <3>1 DEF EndStruct
      <4>. QED  BY <2>1, <2>2, <3>1, <4>1 DEF MembersInv
    <3>2. CASE t # tag
      <4>1. t \in DOMAIN structs /\ structs'[t] = structs[t]  BY <1>7, <3>2 DEF EndStruct
      <4>. QED  BY <2>2, <4>1 DEF StructLayoutCanonical, PlainMembers
    <3>. QED  BY <3>1, <3>2
  <2>3. StructLayoutCanonical'  BY <2>2 DEF StructLayoutCanonical, PlainMembers
  <2>. QED  BY <2>1, <2>3, CanonicalKept
<1>8. ASSUME NEW d \in Decls, DeclareGlobal(d)  PROVE CanonicalInv'
  BY <1>8, CanonicalKept DEF DeclareGlobal
<1>9. ASSUME NEW d \in Decls, Reject(d)  PROVE CanonicalInv'
  BY <1>9, CanonicalKept DEF Reject
<1>10. CASE UNCHANGED vars
  <2>1. MembersInv'  BY <1>10 DEF vars, MembersInv
  <2>. QED  BY <1>10, <2>1, CanonicalKept DEF vars
<1>. QED
  BY <1>1, <1>2, <1>3, <1>4, <1>5, <1>6, <1>7, <1>8, <1>9, <1>10 DEF Next

(* Words are placed canonically in every state of the compiler.              *)
LEMMA Canonical == Spec => []CanonicalInv
<1>1. IInv /\ IInv' /\ CanonicalInv /\ [Next]_vars => CanonicalInv'  BY NextCanonical
<1>. QED  BY <1>1, InitCanonical, Layout, PTL DEF Spec

(* The words of a function are eight bytes apart, the first just below rbp,  *)
(* as get_next_offset hands them out, for functions of any length.           *)
THEOREM ScalarsAlwaysAdjacent == Spec => []ScalarsAdjacent
<1>1. CanonicalInv => ScalarsAdjacent
  BY DEF CanonicalInv, WordsInv, ScalarLocals, ScalarsAdjacent
<1>. QED  BY <1>1, Canonical, PTL

(* The layout defined_struct gives to words and pointers to the struct       *)
(* itself depends on nothing that was parsed before, for any number of them. *)
THEOREM StructLayoutIndependent == Spec => []StructLayoutCanonical
<1>1. CanonicalInv => StructLayoutCanonical  BY DEF CanonicalInv
<1>. QED  BY <1>1, Canonical, PTL
=============================================================================
