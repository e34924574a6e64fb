------------------------------ MODULE PrintingProofs ------------------------------
(***************************************************************************)
(* Theorems about Printing, for every program and every tree: what gen()   *)
(* prints can be assembled.                                                *)
(***************************************************************************)
EXTENDS Printing, NatRecursion

-----------------------------------------------------------------------------
(* Sequences of anything. *)

IsSeq(q) == \E S : q \in Seq(S)

\* What a sequence of any elements is.
LEMMA SeqFacts ==
  ASSUME NEW q, IsSeq(q)
  PROVE  Len(q) \in Nat /\ DOMAIN q = 1..Len(q)
BY DEF IsSeq

\* Concatenation, element by element.
LEMMA Concat ==
  ASSUME NEW q, NEW r, IsSeq(q), IsSeq(r)
  PROVE  /\ IsSeq(q \o r) /\ Len(q \o r) = Len(q) + Len(r)
         /\ \A i \in 1..Len(q) : (q \o r)[i] = q[i]
         /\ \A i \in 1..Len(r) : (q \o r)[Len(q) + i] = r[i]
<1>1. PICK S : q \in Seq(S)  BY DEF IsSeq
<1>2. PICK T : r \in Seq(T)  BY DEF IsSeq
<1>. DEFINE U == S \cup T
<1>3. q \in Seq(U) /\ r \in Seq(U)  BY <1>1, <1>2
<1>. HIDE DEF U
<1>4. q \o r \in Seq(U)  BY <1>3
<1>. QED  BY <1>3, <1>4 DEF IsSeq

\* A sequence that is not empty is its head and its tail.
LEMMA HeadTail ==
  ASSUME NEW q, IsSeq(q), q # <<>>
  PROVE  /\ IsSeq(Tail(q)) /\ IsSeq(<<Head(q)>>)
         /\ q = <<Head(q)>> \o Tail(q)
         /\ Len(Tail(q)) = Len(q) - 1
         /\ \A i \in 1..Len(q) - 1 : Tail(q)[i] = q[i + 1]
         /\ Len(q) > 0 /\ Head(q) = q[1]
<1>1. PICK S : q \in Seq(S)  BY DEF IsSeq
<1>2. Tail(q) \in Seq(S) /\ <<Head(q)>> \in Seq(S)  BY <1>1
<1>3. Len(q) \in Nat \ {0}  BY <1>1
<1>4. q = <<Head(q)>> \o Tail(q)
  <2>1. Len(<<Head(q)>> \o Tail(q)) = Len(q)  BY <1>1, <1>2, <1>3
  <2>2. \A i \in 1..Len(q) : (<<Head(q)>> \o Tail(q))[i] = q[i]  BY <1>1, <1>2, <1>3
  <2>3. <<Head(q)>> \o Tail(q) \in Seq(S)  BY <1>2
  <2>. QED  BY <1>1, <2>1, <2>2, <2>3
<1>. QED  BY <1>1, <1>2, <1>3, <1>4 DEF IsSeq

\* Tuples are sequences.
LEMMA Tuple ==
  /\ IsSeq(<<>>) /\ Len(<<>>) = 0
  /\ \A a : IsSeq(<<a>>) /\ Len(<<a>>) = 1 /\ <<a>>[1] = a
  /\ \A a, b : IsSeq(<<a, b>>) /\ Len(<<a, b>>) = 2 /\ <<a, b>>[1] = a /\ <<a, b>>[2] = b
  /\ \A a, b, c : /\ IsSeq(<<a, b, c>>) /\ Len(<<a, b, c>>) = 3
                  /\ <<a, b, c>>[1] = a /\ <<a, b, c>>[2] = b /\ <<a, b, c>>[3] = c
<1>1. IsSeq(<<>>)
  <2>1. <<>> \in Seq({})  OBVIOUS
  <2>. QED  BY <2>1 DEF IsSeq
<1>2. ASSUME NEW a  PROVE IsSeq(<<a>>)
  <2>1. <<a>> \in Seq({a})  OBVIOUS
  <2>. QED  BY <2>1 DEF IsSeq
<1>3. ASSUME NEW a, NEW b  PROVE IsSeq(<<a, b>>)
  <2>1. <<a, b>> \in Seq({a, b})  OBVIOUS
  <2>. QED  BY <2>1 DEF IsSeq
<1>4. ASSUME NEW a, NEW b, NEW c  PROVE IsSeq(<<a, b, c>>)
  <2>1. <<a, b, c>> \in Seq({a, b, c})  OBVIOUS
  <2>. QED  BY <2>1 DEF IsSeq
<1>. QED  BY <1>1, <1>2, <1>3, <1>4

-----------------------------------------------------------------------------
(* What a text defines and refers to. *)

Ops(c, op) == { i \in DOMAIN c : c[i][1] = op }
Named(c, op) == { c[i][2] : i \in Ops(c, op) }
Jumped(c) == Named(c, "jmp") \cup Named(c, "je")
Used(c) == { c[i][3] : i \in Ops(c, "lea") }

\* No label is printed twice.
Distinct(c) == \A i, j \in Ops(c, "label") : c[i][2] = c[j][2] => i = j

\* The symbols of two texts, one behind the other.
LEMMA CodeConcat ==
  ASSUME NEW c, NEW d, IsSeq(c), IsSeq(d)
  PROVE  /\ IsSeq(c \o d)
         /\ \A op : Named(c \o d, op) = Named(c, op) \cup Named(d, op)
         /\ Jumped(c \o d) = Jumped(c) \cup Jumped(d)
         /\ Used(c \o d) = Used(c) \cup Used(d)
         /\ \A op : Ops(c, op) = {} /\ Ops(d, op) = {} => Ops(c \o d, op) = {}
         /\ Distinct(c) /\ Distinct(d) /\ Named(c, "label") \cap Named(d, "label") = {}
              => Distinct(c \o d)
<1>. DEFINE e == c \o d
            n == Len(c)
            m == Len(d)
<1>1. /\ IsSeq(e) /\ Len(e) = n + m /\ n \in Nat /\ m \in Nat
      /\ DOMAIN c = 1..n /\ DOMAIN d = 1..m /\ DOMAIN e = 1..n + m
      /\ \A i \in 1..n : e[i] = c[i]
      /\ \A i \in 1..m : e[n + i] = d[i]
  BY Concat, SeqFacts
<1>. HIDE DEF e, n, m
<1>2. \A op : \A i \in Ops(e, op) :
        \/ i \in Ops(c, op) /\ e[i] = c[i]
        \/ i - n \in Ops(d, op) /\ e[i] = d[i - n]
  <2>1. ASSUME NEW i \in 1..n + m
        PROVE  i \in 1..n \/ (i - n \in 1..m /\ n + (i - n) = i)
    BY <1>1
  <2>. QED  BY <2>1, <1>1 DEF Ops
<1>3. \A op : \A i \in Ops(c, op) : i \in Ops(e, op) /\ e[i] = c[i] /\ i <= n
  BY <1>1 DEF Ops
<1>4. \A op : \A i \in Ops(d, op) : n + i \in Ops(e, op) /\ e[n + i] = d[i] /\ n + i > n
  BY <1>1 DEF Ops
<1>5. ASSUME NEW op  PROVE Named(e, op) = Named(c, op) \cup Named(d, op)
  BY <1>2, <1>3, <1>4 DEF Named
<1>6. Used(e) = Used(c) \cup Used(d)
  BY <1>2, <1>3, <1>4 DEF Used
<1>7. \A op : Ops(c, op) = {} /\ Ops(d, op) = {} => Ops(e, op) = {}
  BY <1>2
<1>8. ASSUME Distinct(c), Distinct(d), Named(c, "label") \cap Named(d, "label") = {},
             NEW i \in Ops(e, "label"), NEW j \in Ops(e, "label"), e[i][2] = e[j][2]
      PROVE  i = j
  <2>1. \/ i \in Ops(c, "label") /\ e[i] = c[i]
        \/ i - n \in Ops(d, "label") /\ e[i] = d[i - n]
    BY <1>2
  <2>2. \/ j \in Ops(c, "label") /\ e[j] = c[j]
        \/ j - n \in Ops(d, "label") /\ e[j] = d[j - n]
    BY <1>2
  <2>3. i \in Int /\ j \in Int /\ n \in Int  BY <1>1 DEF Ops
  <2>. QED  BY <1>8, <2>1, <2>2, <2>3 DEF Distinct, Named
<1>9. Jumped(e) = Jumped(c) \cup Jumped(d)  BY <1>5 DEF Jumped
<1>. QED  BY <1>1, <1>5, <1>6, <1>7, <1>8, <1>9 DEF Distinct, e

Marks == {"label", "jmp", "je", "lea", "fn"}

\* Text without labels, jumps, symbols and functions.
Plain(c) == IsSeq(c) /\ \A i \in DOMAIN c : c[i][1] \notin Marks

\* Plain text names nothing.
LEMMA PlainText ==
  ASSUME NEW c, Plain(c)
  PROVE  /\ Named(c, "label") = {} /\ Jumped(c) = {} /\ Used(c) = {}
         /\ Ops(c, "fn") = {} /\ Distinct(c)
BY DEF Plain, Marks, Named, Jumped, Used, Ops, Distinct

\* Plain text from plain text.
LEMMA PlainConcat ==
  ASSUME NEW c, NEW d, Plain(c), Plain(d)
  PROVE  Plain(c \o d)
<1>1. IsSeq(c) /\ IsSeq(d)  BY DEF Plain
<1>2. IsSeq(c \o d) /\ DOMAIN (c \o d) = 1..Len(c) + Len(d)
  BY <1>1, Concat, SeqFacts
<1>3. ASSUME NEW i \in DOMAIN (c \o d)  PROVE (c \o d)[i][1] \notin Marks
  <2>0. Len(c) \in Nat /\ Len(d) \in Nat /\ DOMAIN c = 1..Len(c) /\ DOMAIN d = 1..Len(d)
    BY <1>1, SeqFacts
  <2>1. CASE i \in 1..Len(c)
    <3>1. (c \o d)[i] = c[i]  BY <1>1, <2>1, Concat
    <3>. QED  BY <3>1, <2>0, <2>1 DEF Plain
  <2>2. CASE i \notin 1..Len(c)
    <3>1. i - Len(c) \in 1..Len(d) /\ Len(c) + (i - Len(c)) = i  BY <1>2, <2>0, <2>2
    <3>2. (c \o d)[i] = d[i - Len(c)]  BY <1>1, <3>1, Concat
    <3>. QED  BY <3>1, <3>2, <2>0 DEF Plain
  <2>. QED  BY <2>1, <2>2
<1>. QED  BY <1>2, <1>3 DEF Plain

\* Text of plain instructions.
LEMMA PlainOf ==
  ASSUME NEW S, NEW c \in Seq(S), \A x \in S : x[1] \notin Marks
  PROVE  Plain(c)
BY DEF Plain, IsSeq

\* The texts that are plain.
LEMMA PlainTexts ==
  /\ Plain(<<>>)
  /\ \A a, b : a \notin Marks => Plain(<<<<a, b>>>>)
  /\ \A a, b, x : a \notin Marks => Plain(<<<<a, b, x>>>>)
  /\ Plain(Drop) /\ Plain(Keep) /\ Plain(AlignStack) /\ Plain(UnalignStack) /\ Plain(Epilogue)
  /\ \A offset : Plain(PushLocal(offset))
  /\ \A kind \in Binary : Plain(Operate(kind))
  /\ \A n \in Nat : Plain(PopArguments(n))
<1>1. Plain(<<>>)  BY Tuple DEF Plain
<1>2. ASSUME NEW a, NEW b, a \notin Marks  PROVE Plain(<<<<a, b>>>>)
  BY <1>2, Tuple DEF Plain
<1>3. ASSUME NEW a, NEW b, NEW x, a \notin Marks  PROVE Plain(<<<<a, b, x>>>>)
  BY <1>3, Tuple DEF Plain
<1>4. Plain(Drop) /\ Plain(Keep)
  BY <1>2 DEF Drop, Keep, Marks
<1>5. Plain(AlignStack)
  <2>. DEFINE S == {<<"mov", "rax", "rsp">>, <<"mov_imm", "rdi", 16>>, <<"cqo">>,
                    <<"idiv", "rdi">>, <<"sub", "rsp", "rdx">>, <<"push", "rdx">>}
  <2>1. AlignStack \in Seq(S)  BY DEF AlignStack
  <2>2. \A x \in S : x[1] \notin Marks  BY DEF Marks
  <2>. QED  BY <2>1, <2>2, PlainOf
<1>6. Plain(UnalignStack)
  <2>. DEFINE S == {<<"pop", "rdx">>, <<"add", "rsp", "rdx">>, <<"push", "rax">>}
  <2>1. UnalignStack \in Seq(S)  BY DEF UnalignStack
  <2>2. \A x \in S : x[1] \notin Marks  BY DEF Marks
  <2>. QED  BY <2>1, <2>2, PlainOf
<1>7. Plain(Epilogue)
  <2>. DEFINE S == {<<"mov", "rsp", "rbp">>, <<"pop", "rbp">>, <<"ret">>}
  <2>1. Epilogue \in Seq(S)  BY DEF Epilogue
  <2>2. \A x \in S : x[1] \notin Marks  BY DEF Marks
  <2>. QED  BY <2>1, <2>2, PlainOf
<1>8. ASSUME NEW offset  PROVE Plain(PushLocal(offset))
  <2>. DEFINE S == {<<"mov", "rax", "rbp">>, <<"sub_imm", "rax", offset>>, <<"push", "rax">>}
  <2>1. PushLocal(offset) \in Seq(S)  BY DEF PushLocal
  <2>2. \A x \in S : x[1] \notin Marks  BY DEF Marks
  <2>. QED  BY <2>1, <2>2, PlainOf
<1>9. ASSUME NEW kind \in Binary  PROVE Plain(Operate(kind))
  <2>2. \A cc : Plain(<<<<"cmp", "rax", "rdi">>, <<"set", cc>>, <<"movzb">>>>)
    BY Tuple DEF Plain, Marks
  <2>3. Plain(<<<<"cqo">>, <<"idiv", "rdi">>>>) /\ Plain(<<<<"push", "rdx">>, <<"pop", "rax">>>>)
    BY Tuple DEF Plain, Marks
  <2>4. Plain(<<<<"cqo">>, <<"idiv", "rdi">>>> \o <<<<"push", "rdx">>, <<"pop", "rax">>>>)
    BY <2>3, PlainConcat
  <2>5. \A op \in {"add", "sub", "imul", "and", "or"} : Plain(<<<<op, "rax", "rdi">>>>)
    BY <1>3 DEF Marks
  <2>. QED  BY <2>2, <2>3, <2>4, <2>5 DEF Operate, Binary
<1>10. ASSUME NEW n \in Nat  PROVE Plain(PopArguments(n))
  <2>. DEFINE S == {<<"pop", arglist[n + 1 - i]>> : i \in 1..n}
              c == PopArguments(n)
  <2>1. c \in [1..n -> S]  BY DEF PopArguments
  <2>2. \A x \in S : x[1] \notin Marks  BY DEF Marks
  <2>. HIDE DEF c, S
  <2>3. c \in Seq(S)  BY <2>1
  <2>4. Plain(c)  BY <2>2, <2>3, PlainOf
  <2>. QED  BY <2>4 DEF c
<1>. QED  BY <1>1, <1>2, <1>3, <1>4, <1>5, <1>6, <1>7, <1>8, <1>9, <1>10

\* What a text has: its labels, the labels it jumps to, the symbols it uses.
Prints(c, labels, jumps, uses) ==
  /\ IsSeq(c) /\ Distinct(c) /\ Ops(c, "fn") = {}
  /\ Named(c, "label") = labels /\ Jumped(c) = jumps /\ Used(c) = uses

\* Plain text has none of these.
LEMMA PrintsPlain ==
  ASSUME NEW c, Plain(c)
  PROVE  Prints(c, {}, {}, {})
BY PlainText DEF Prints, Plain

\* A text behind another.
LEMMA PrintsConcat ==
  ASSUME NEW c, NEW A, NEW B, NEW C, Prints(c, A, B, C),
         NEW d, NEW D, NEW E, NEW F, Prints(d, D, E, F),
         A \cap D = {}
  PROVE  Prints(c \o d, A \cup D, B \cup E, C \cup F)
<1>1. IsSeq(c) /\ IsSeq(d)  BY DEF Prints
<1>2. /\ IsSeq(c \o d)
      /\ Named(c \o d, "label") = Named(c, "label") \cup Named(d, "label")
      /\ Jumped(c \o d) = Jumped(c) \cup Jumped(d)
      /\ Used(c \o d) = Used(c) \cup Used(d)
      /\ Ops(c, "fn") = {} /\ Ops(d, "fn") = {} => Ops(c \o d, "fn") = {}
      /\ Distinct(c) /\ Distinct(d) /\ Named(c, "label") \cap Named(d, "label") = {}
           => Distinct(c \o d)
  BY <1>1, CodeConcat
<1>. QED  BY <1>2 DEF Prints

\* One label, one jump, one use of a symbol.
LEMMA PrintsOne ==
  ASSUME NEW p, NEW l
  PROVE  /\ Prints(<<Label(p, l)>>, {<<p, l>>}, {}, {})
         /\ Prints(<<Jump("jmp", p, l)>>, {}, {<<p, l>>}, {})
         /\ Prints(<<Jump("je", p, l)>>, {}, {<<p, l>>}, {})
         /\ Prints(<<<<"lea", "rax", p>>>>, {}, {}, {p})
<1>1. ASSUME NEW x
      PROVE  /\ IsSeq(<<x>>) /\ DOMAIN <<x>> = {1} /\ <<x>>[1] = x
             /\ \A op : Ops(<<x>>, op) = IF x[1] = op THEN {1} ELSE {}
             /\ Distinct(<<x>>)
  <2>1. IsSeq(<<x>>) /\ Len(<<x>>) = 1 /\ <<x>>[1] = x  BY Tuple
  <2>2. DOMAIN <<x>> = {1}  OBVIOUS
  <2>3. \A op : Ops(<<x>>, op) = IF x[1] = op THEN {1} ELSE {}  BY <2>1, <2>2 DEF Ops
  <2>. QED  BY <2>1, <2>2, <2>3 DEF Distinct
<1>2. Prints(<<Label(p, l)>>, {<<p, l>>}, {}, {})
  <2>. DEFINE c == <<Label(p, l)>>
  <2>1. IsSeq(c) /\ Distinct(c) /\ Ops(c, "label") = {1} /\ c[1] = <<"label", <<p, l>>>>
        /\ Ops(c, "jmp") = {} /\ Ops(c, "je") = {} /\ Ops(c, "lea") = {} /\ Ops(c, "fn") = {}
    BY <1>1 DEF Label
  <2>. HIDE DEF c
  <2>2. Prints(c, {<<p, l>>}, {}, {})  BY <2>1 DEF Prints, Named, Jumped, Used
  <2>. QED  BY <2>2 DEF c
<1>3. ASSUME NEW op \in {"jmp", "je"}
      PROVE  Prints(<<Jump(op, p, l)>>, {}, {<<p, l>>}, {})
  <2>. DEFINE c == <<Jump(op, p, l)>>
  <2>1. IsSeq(c) /\ Distinct(c) /\ Ops(c, op) = {1} /\ c[1] = <<op, <<p, l>>>>
        /\ (\A k \in {"jmp", "je"} \ {op} : Ops(c, k) = {})
        /\ Ops(c, "label") = {} /\ Ops(c, "lea") = {} /\ Ops(c, "fn") = {}
    BY <1>1 DEF Jump
  <2>. HIDE DEF c
  <2>2. Prints(c, {}, {<<p, l>>}, {})  BY <2>1 DEF Prints, Named, Jumped, Used
  <2>. QED  BY <2>2 DEF c
<1>4. Prints(<<<<"lea", "rax", p>>>>, {}, {}, {p})
  <2>. DEFINE c == <<<<"lea", "rax", p>>>>
  <2>1. IsSeq(c) /\ Distinct(c) /\ Ops(c, "lea") = {1} /\ c[1] = <<"lea", "rax", p>>
        /\ Ops(c, "jmp") = {} /\ Ops(c, "je") = {} /\ Ops(c, "label") = {} /\ Ops(c, "fn") = {}
    BY <1>1
  <2>. HIDE DEF c
  <2>2. Prints(c, {}, {}, {p})  BY <2>1 DEF Prints, Named, Jumped, Used
  <2>. QED  BY <2>2 DEF c
<1>. QED  BY <1>2, <1>3, <1>4

\* The texts of gen() that are not plain.
LEMMA MarkedTexts ==
  ASSUME NEW l
  PROVE  /\ \A p : Prints(IfZero(p, l), {}, {<<p, l>>}, {})
         /\ \A p : Prints(Drop \o <<Label(p, l)>> \o Keep, {<<p, l>>}, {}, {})
         /\ \A p, r : /\ Prints(<<Jump("jmp", p, l), Label(r, l)>>, {<<r, l>>}, {<<p, l>>}, {})
                      /\ Prints(<<Jump("jmp", p, l), Label(r, l)>> \o Keep, {<<r, l>>}, {<<p, l>>}, {})
                      /\ Prints(Drop \o <<Jump("jmp", p, l), Label(r, l)>> \o Keep,
                                {<<r, l>>}, {<<p, l>>}, {})
         /\ \A p : /\ Prints(<<Label(p, l)>> \o <<<<"push_imm", 1>>>>, {<<p, l>>}, {}, {})
                   /\ Prints(<<Label(p, l)>> \o <<>>, {<<p, l>>}, {}, {})
         /\ \A p : Prints(PushSymbol(p), {}, {}, {p})
<1>1. /\ Prints(Drop, {}, {}, {}) /\ Prints(Keep, {}, {}, {}) /\ Prints(<<>>, {}, {}, {})
      /\ Prints(<<<<"push_imm", 1>>>>, {}, {}, {})
  <2>1. Plain(<<<<"push_imm", 1>>>>)  BY PlainTexts DEF Marks
  <2>. QED  BY <2>1, PlainTexts, PrintsPlain
<1>2. ASSUME NEW p  PROVE Prints(IfZero(p, l), {}, {<<p, l>>}, {})
  <2>. DEFINE Start == <<<<"pop", "rax">>, <<"cmp_imm", "rax", 0>>>>
              J == <<Jump("je", p, l)>>
  <2>1. Plain(Start)  BY Tuple DEF Plain, Marks
  <2>2. Prints(J, {}, {<<p, l>>}, {})  BY PrintsOne
  <2>3. IfZero(p, l) = Start \o J  BY DEF IfZero
  <2>. HIDE DEF Start, J
  <2>4. Prints(Start \o J, {} \cup {}, {} \cup {<<p, l>>}, {} \cup {})
    BY <2>1, <2>2, PrintsPlain, PrintsConcat
  <2>. QED  BY <2>3, <2>4
<1>3. ASSUME NEW p  PROVE Prints(Drop \o <<Label(p, l)>> \o Keep, {<<p, l>>}, {}, {})
  <2>. DEFINE L == <<Label(p, l)>>
  <2>1. Prints(L, {<<p, l>>}, {}, {})  BY PrintsOne
  <2>. HIDE DEF L
  <2>2. Prints(Drop \o L, {} \cup {<<p, l>>}, {} \cup {}, {} \cup {})
    BY <2>1, <1>1, PrintsConcat
  <2>3. Prints(Drop \o L, {<<p, l>>}, {}, {})  BY <2>2
  <2>4. Prints(Drop \o L \o Keep, {<<p, l>>} \cup {}, {} \cup {}, {} \cup {})
    BY <2>3, <1>1, PrintsConcat
  <2>5. Prints(Drop \o L \o Keep, {<<p, l>>}, {}, {})  BY <2>4
  <2>. QED  BY <2>5 DEF L
<1>4. ASSUME NEW p, NEW r
      PROVE  /\ Prints(<<Jump("jmp", p, l), Label(r, l)>>, {<<r, l>>}, {<<p, l>>}, {})
             /\ Prints(<<Jump("jmp", p, l), Label(r, l)>> \o Keep, {<<r, l>>}, {<<p, l>>}, {})
             /\ Prints(Drop \o <<Jump("jmp", p, l), Label(r, l)>> \o Keep,
                       {<<r, l>>}, {<<p, l>>}, {})
  <2>. DEFINE J == <<Jump("jmp", p, l)>>
              L == <<Label(r, l)>>
              B == <<Jump("jmp", p, l), Label(r, l)>>
  <2>1. Prints(J, {}, {<<p, l>>}, {}) /\ Prints(L, {<<r, l>>}, {}, {})  BY PrintsOne
  <2>2. B = J \o L  OBVIOUS
  <2>. HIDE DEF J, L
  <2>3. Prints(J \o L, {} \cup {<<r, l>>}, {<<p, l>>} \cup {}, {} \cup {})
    BY <2>1, PrintsConcat
  <2>. HIDE DEF B
  <2>4. Prints(B, {<<r, l>>}, {<<p, l>>}, {})  BY <2>2, <2>3
  <2>5. Prints(B \o Keep, {<<r, l>>} \cup {}, {<<p, l>>} \cup {}, {} \cup {})
    BY <2>4, <1>1, PrintsConcat
  <2>6. Prints(Drop \o B, {} \cup {<<r, l>>}, {} \cup {<<p, l>>}, {} \cup {})
    BY <2>4, <1>1, PrintsConcat
  <2>7. Prints(Drop \o B, {<<r, l>>}, {<<p, l>>}, {})  BY <2>6
  <2>8. Prints(Drop \o B \o Keep, {<<r, l>>} \cup {}, {<<p, l>>} \cup {}, {} \cup {})
    BY <2>7, <1>1, PrintsConcat
  <2>9. Prints(B \o Keep, {<<r, l>>}, {<<p, l>>}, {}) /\ Prints(Drop \o B \o Keep, {<<r, l>>}, {<<p, l>>}, {})
    BY <2>5, <2>8
  <2>. QED  BY <2>4, <2>9 DEF B
<1>5. ASSUME NEW p
      PROVE  /\ Prints(<<Label(p, l)>> \o <<<<"push_imm", 1>>>>, {<<p, l>>}, {}, {})
             /\ Prints(<<Label(p, l)>> \o <<>>, {<<p, l>>}, {}, {})
  <2>. DEFINE L == <<Label(p, l)>>
              One == <<<<"push_imm", 1>>>>
              None == <<>>
  <2>1. Prints(L, {<<p, l>>}, {}, {})  BY PrintsOne
  <2>2. Prints(One, {}, {}, {}) /\ Prints(None, {}, {}, {})  BY <1>1
  <2>. HIDE DEF L, One, None
  <2>3. Prints(L \o One, {<<p, l>>} \cup {}, {} \cup {}, {} \cup {})  BY <2>1, <2>2, PrintsConcat
  <2>4. Prints(L \o None, {<<p, l>>} \cup {}, {} \cup {}, {} \cup {})  BY <2>1, <2>2, PrintsConcat
  <2>5. Prints(L \o One, {<<p, l>>}, {}, {}) /\ Prints(L \o None, {<<p, l>>}, {}, {})  BY <2>3, <2>4
  <2>. QED  BY <2>5 DEF L, One, None
<1>6. ASSUME NEW p  PROVE Prints(PushSymbol(p), {}, {}, {p})
  <2>. DEFINE A == <<<<"lea", "rax", p>>>>
  <2>1. Prints(A, {}, {}, {p})  BY PrintsOne
  <2>2. PushSymbol(p) = A \o Keep  BY DEF PushSymbol, Keep
  <2>. HIDE DEF A
  <2>3. Prints(A \o Keep, {} \cup {}, {} \cup {}, {p} \cup {})  BY <2>1, <1>1, PrintsConcat
  <2>. QED  BY <2>2, <2>3
<1>. QED  BY <1>2, <1>3, <1>4, <1>5, <1>6

-----------------------------------------------------------------------------
(* The trees. *)

Leaves(G, L) == LeafNodes(G, L) \cup StructTypes

\* A set of trees, each of which has its children in the set.
Closed(T, G, L) == T \subseteq Leaves(G, L) \cup InnerNodes(T)

\* More children, more trees.
LEMMA MoreTrees ==
  ASSUME NEW S, NEW T, S \subseteq T
  PROVE  InnerNodes(S) \subseteq InnerNodes(T)
<1>. DEFINE C == Expressions(S)
            E == Expressions(T)
<1>1. C \subseteq E  BY DEF Expressions
<1>. HIDE DEF C, E
<1>2. /\ Seq(S) \subseteq Seq(T) /\ Optional(C) \subseteq Optional(E)
      /\ UpToSix(C) \subseteq UpToSix(E)
  <2>1. Seq(C) \subseteq Seq(E)  BY <1>1
  <2>. QED  BY <1>1, <2>1 DEF Optional, UpToSix
<1>3. InnerNodes(S) = [kind : {"ADDR", "DEREF", "NOT"}, lhs : C]
        \cup [kind : {"CAST"}, lhs : C, type : TypeRecord]
        \cup [kind : {"RETURN"}, lhs : Optional(C)]
        \cup [kind : Binary \cup {"ASSIGN"}, lhs : C, rhs : C]
        \cup [kind : {"IF", "WHILE"}, lhs : C, rhs : S]
        \cup [kind : {"IF_ELSE"}, lhs : C, rhs : S, elsehs : S]
        \cup [kind : {"FOR"}, initstmt : Optional(C), testexpr : Optional(C),
              updstmt : Optional(C), lhs : S]
        \cup [kind : {"BLOCK"}, child : Seq(S)]
        \cup [kind : {"FUNCALL"}, name : STRING, arg : UpToSix(C)]
  BY DEF InnerNodes, C
<1>4. InnerNodes(T) = [kind : {"ADDR", "DEREF", "NOT"}, lhs : E]
        \cup [kind : {"CAST"}, lhs : E, type : TypeRecord]
        \cup [kind : {"RETURN"}, lhs : Optional(E)]
        \cup [kind : Binary \cup {"ASSIGN"}, lhs : E, rhs : E]
        \cup [kind : {"IF", "WHILE"}, lhs : E, rhs : T]
        \cup [kind : {"IF_ELSE"}, lhs : E, rhs : T, elsehs : T]
        \cup [kind : {"FOR"}, initstmt : Optional(E), testexpr : Optional(E),
              updstmt : Optional(E), lhs : T]
        \cup [kind : {"BLOCK"}, child : Seq(T)]
        \cup [kind : {"FUNCALL"}, name : STRING, arg : UpToSix(E)]
  BY DEF InnerNodes, E
<1>. QED  BY <1>1, <1>2, <1>3, <1>4

\* The recursion of Trees has a solution, so Trees is one.
LEMMA TreesEquation ==
  ASSUME NEW Leaf
  PROVE  Trees(Leaf) = [h \in 0..Height |->
           IF h = 0 THEN Leaf ELSE Leaf \cup InnerNodes(Trees(Leaf)[h - 1])]
<1>. DEFINE F(m, f) == f = [h \in 0..m |-> IF h = 0 THEN Leaf ELSE Leaf \cup InnerNodes(f[h - 1])]
            T == {m \in 0..Height : \E f : F(m, f)}
<1>0. Height \in Nat  BY PrintingAssumption
<1>1. 0 \in T
  <2>. DEFINE f == [h \in 0..0 |-> Leaf]
  <2>1. F(0, f)  OBVIOUS
  <2>. HIDE DEF F, f
  <2>. QED  BY <2>1, <1>0
<1>2. ASSUME NEW i \in 1..Height, i - 1 \in T  PROVE i \in T
  <2>1. PICK f : F(i - 1, f)  BY <1>2
  <2>. DEFINE g == [h \in 0..i |-> IF h = i THEN Leaf \cup InnerNodes(f[i - 1]) ELSE f[h]]
  <2>2. \A h \in 0..i - 1 : g[h] = f[h]  BY <1>0
  <2>3. \A h \in 0..i : g[h] = IF h = 0 THEN Leaf ELSE Leaf \cup InnerNodes(g[h - 1])
    <3>1. g[i] = Leaf \cup InnerNodes(g[i - 1]) /\ i # 0  BY <2>2, <1>0
    <3>2. ASSUME NEW h \in 0..i - 1
          PROVE  g[h] = IF h = 0 THEN Leaf ELSE Leaf \cup InnerNodes(g[h - 1])
      <4>1. f[h] = IF h = 0 THEN Leaf ELSE Leaf \cup InnerNodes(f[h - 1])  BY <2>1
      <4>2. h # 0 => h - 1 \in 0..i - 1  BY <1>0
      <4>. HIDE DEF g
      <4>. QED  BY <4>1, <4>2, <2>2
    <3>3. \A h \in 0..i : h = i \/ h \in 0..i - 1  BY <1>0
    <3>. HIDE DEF g
    <3>. QED  BY <3>1, <3>2, <3>3
  <2>4. g = [h \in 0..i |-> g[h]]  OBVIOUS
  <2>. HIDE DEF g
  <2>5. F(i, g)  BY <2>3, <2>4
  <2>. QED  BY <2>5, <1>0
<1>3. Height \in T
  <2>. HIDE DEF T
  <2>1. 0..Height \subseteq T  BY <1>0, <1>1, <1>2, Induct
  <2>. QED  BY <2>1, <1>0
<1>4. Trees(Leaf) = CHOOSE f : F(Height, f)  BY DEF Trees
<1>. HIDE DEF F
<1>5. F(Height, Trees(Leaf))  BY <1>3, <1>4
<1>. QED  BY <1>5 DEF F

AnyTree(leaves) == UNION { Trees(leaves)[h] : h \in 0..Height }

\* The trees of all heights are closed.
LEMMA AllTrees ==
  ASSUME NEW Leaf
  PROVE  /\ AnyTree(Leaf) \subseteq Leaf \cup InnerNodes(AnyTree(Leaf))
         /\ Trees(Leaf)[Height] \subseteq AnyTree(Leaf)
<1>. DEFINE tr == Trees(Leaf)
            T == AnyTree(Leaf)
<1>0. Height \in Nat  BY PrintingAssumption
<1>1. \A h \in 0..Height : tr[h] = IF h = 0 THEN Leaf ELSE Leaf \cup InnerNodes(tr[h - 1])
  <2>1. tr = [h \in 0..Height |-> IF h = 0 THEN Leaf ELSE Leaf \cup InnerNodes(tr[h - 1])]
    BY TreesEquation
  <2>. HIDE DEF tr
  <2>. QED  BY <2>1
<1>2. \A h \in 0..Height : tr[h] \subseteq T  BY DEF AnyTree
<1>3. ASSUME NEW h \in 0..Height  PROVE tr[h] \subseteq Leaf \cup InnerNodes(T)
  <2>. HIDE DEF tr, T
  <2>1. CASE h = 0  BY <2>1, <1>1
  <2>2. CASE h # 0
    <3>1. h - 1 \in 0..Height  BY <2>2, <1>0
    <3>2. InnerNodes(tr[h - 1]) \subseteq InnerNodes(T)  BY <3>1, <1>2, MoreTrees
    <3>. QED  BY <3>2, <2>2, <1>1
  <2>. QED  BY <2>1, <2>2
<1>4. ASSUME NEW x \in T  PROVE x \in Leaf \cup InnerNodes(T)
  <2>1. \E h \in 0..Height : x \in tr[h]  BY DEF AnyTree
  <2>. HIDE DEF tr, T
  <2>. QED  BY <2>1, <1>3
<1>. QED  BY <1>0, <1>2, <1>4

Unary == {"ADDR", "DEREF", "NOT", "RETURN", "CAST"}
Pairs == Binary \cup {"ASSIGN", "IF", "WHILE"}

\* What the fields of a tree are.
LEMMA Shapes ==
  ASSUME NEW T, NEW G, NEW L, Closed(T, G, L), NEW x \in T
  PROVE  /\ x.kind \in {"NUM", "LVAR", "GVARREF", "STRUCTDEF", "IF_ELSE", "FOR",
                        "BLOCK", "FUNCALL"} \cup Unary \cup Pairs
         /\ "path" \in DOMAIN x => IsSeq(x.path)
         /\ x.kind \in {"LVAR", "GVARREF"} => IsSeq(x.path)
         /\ x.kind = "GVARREF" => x.name \in G
         /\ x.kind \in Unary =>
              \/ x.lhs \in T
              \/ x.kind = "RETURN" /\ x.lhs = NoNode
              \/ x.kind = "ADDR" /\ x.lhs.kind = "LITERALREF" /\ x.lhs.index \in L
         /\ x.kind \in Pairs => x.lhs \in T /\ x.rhs \in T
         /\ x.kind = "IF_ELSE" => x.lhs \in T /\ x.rhs \in T /\ x.elsehs \in T
         /\ x.kind = "FOR" => /\ x.initstmt \in Optional(T) /\ x.testexpr \in Optional(T)
                              /\ x.updstmt \in Optional(T) /\ x.lhs \in T
         /\ x.kind = "BLOCK" => x.child \in Seq(T)
         /\ x.kind = "FUNCALL" => x.arg \in Seq(T)
<1>. USE DEF Unary, Pairs, Binary
<1>1. x \in Leaves(G, L) \/ x \in InnerNodes(T)  BY DEF Closed
<1>2. CASE x \in Leaves(G, L)
  <2>1. CASE x \in [kind : {"NUM"}, val : Int] \cup [kind : {"STRUCTDEF"}, size : Int]
    BY <2>1
  <2>2. CASE x \in [kind : {"LVAR"}, offset : Int, path : Seq(AccessRecord), byte : BOOLEAN]
    BY <2>2 DEF IsSeq
  <2>3. CASE x \in [kind : {"LVAR"}, offset : Int, path : Seq(AccessRecord), byte : BOOLEAN,
                    type : TypeRecord]
    BY <2>3 DEF IsSeq
  <2>4. CASE x \in [kind : {"GVARREF"}, name : G, path : Seq(AccessRecord)]
    BY <2>4 DEF IsSeq
  <2>5. CASE x \in [kind : {"ADDR"}, lhs : [kind : {"LITERALREF"}, index : L]]
    BY <2>5
  <2>. QED  BY <1>2, <2>1, <2>2, <2>3, <2>4, <2>5 DEF Leaves, LeafNodes, StructTypes
<1>3. CASE x \in InnerNodes(T)
  <2>. DEFINE E == Expressions(T)
  <2>e. E \subseteq T /\ Optional(E) \subseteq Optional(T) /\ UpToSix(E) \subseteq Seq(T)
    <3>1. E \subseteq T  BY DEF Expressions
    <3>. HIDE DEF E
    <3>. QED  BY <3>1 DEF Optional, UpToSix
  <2>i. InnerNodes(T) = [kind : {"ADDR", "DEREF", "NOT"}, lhs : E]
          \cup [kind : {"CAST"}, lhs : E, type : TypeRecord]
          \cup [kind : {"RETURN"}, lhs : Optional(E)]
          \cup [kind : Binary \cup {"ASSIGN"}, lhs : E, rhs : E]
          \cup [kind : {"IF", "WHILE"}, lhs : E, rhs : T]
          \cup [kind : {"IF_ELSE"}, lhs : E, rhs : T, elsehs : T]
          \cup [kind : {"FOR"}, initstmt : Optional(E), testexpr : Optional(E),
                updstmt : Optional(E), lhs : T]
          \cup [kind : {"BLOCK"}, child : Seq(T)]
          \cup [kind : {"FUNCALL"}, name : STRING, arg : UpToSix(E)]
    BY DEF InnerNodes
  <2>. HIDE DEF E
  <2>0. CASE x \in [kind : {"RETURN"}, lhs : Optional(E)]
    BY <2>0, <2>e DEF Optional
  <2>1. CASE x \in [kind : {"ADDR", "DEREF", "NOT"}, lhs : E]
    BY <2>1, <2>e
  <2>2. CASE x \in [kind : {"CAST"}, lhs : E, type : TypeRecord]
    BY <2>2, <2>e
  <2>3. CASE \/ x \in [kind : Binary \cup {"ASSIGN"}, lhs : E, rhs : E]
             \/ x \in [kind : {"IF", "WHILE"}, lhs : E, rhs : T]
    BY <2>3, <2>e
  <2>4. CASE x \in [kind : {"IF_ELSE"}, lhs : E, rhs : T, elsehs : T]
    BY <2>4, <2>e
  <2>5. CASE x \in [kind : {"FOR"}, initstmt : Optional(E), testexpr : Optional(E),
                    updstmt : Optional(E), lhs : T]
    BY <2>5, <2>e
  <2>6. CASE x \in [kind : {"BLOCK"}, child : Seq(T)]
    BY <2>6
  <2>7. CASE x \in [kind : {"FUNCALL"}, name : STRING, arg : UpToSix(E)]
    BY <2>7, <2>e
  <2>. QED  BY <1>3, <2>0, <2>1, <2>2, <2>3, <2>4, <2>5, <2>6, <2>7, <2>i
<1>. QED  BY <1>1, <1>2, <1>3

-----------------------------------------------------------------------------
(* The parts of a call of gen(). *)

\* What a part is known to print without calls of gen().
Prefix(x) ==
  CASE x.kind = "ASM"     -> x.code
    [] x.kind = "LITERAL" -> <<<<"data", LiteralName(x.index)>>>>
    [] x.kind = "GVARDEF" -> <<<<"data", x.name>>>>
    [] OTHER              -> <<>>

\* A text that only uses the symbols of U, a tree, a chain of members, or the end.
Part(x, T, U) ==
  \/ x.kind = "ASM" /\ IsSeq(x.code) /\ Used(x.code) \subseteq U
  \/ x \in Optional(T)
  \/ x.kind = "STRUCTREF" /\ IsSeq(x.path) /\ x.path # <<>>
  \/ x.kind = "ERROR"

\* The parts still to come may define and use, all together.
ToCome(q, op) == UNION { Named(Prefix(q[i]), op) : i \in DOMAIN q }
JumpsToCome(q) == ToCome(q, "jmp") \cup ToCome(q, "je")

\* Different parts, and different instructions of one, print different labels.
Apart(q) ==
  /\ \A i \in DOMAIN q : Distinct(Prefix(q[i]))
  /\ \A i, j \in DOMAIN q :
       i # j => Named(Prefix(q[i]), "label") \cap Named(Prefix(q[j]), "label") = {}

\* A function begins with the first part or with none, and the others then
\* have no labels or jumps.
Starts(q) ==
  \A i \in DOMAIN q :
    Ops(Prefix(q[i]), "fn") # {} => i = 1 /\ ToCome(q, "label") = {} /\ JumpsToCome(q) = {}

NoFunction(q) == \A i \in DOMAIN q : Ops(Prefix(q[i]), "fn") = {}

Own(l) == {<<"begin", l>>, <<"end", l>>, <<"else", l>>}

\* What is true of the parts of a call with labelidx l.
Called(q, l, T, U) ==
  /\ IsSeq(q)
  /\ \A i \in DOMAIN q : Part(q[i], T, U)
  /\ Apart(q)
  /\ ToCome(q, "label") \subseteq Own(l)
  /\ JumpsToCome(q) \subseteq ToCome(q, "label")

\* A part that defines no label, jumps nowhere and begins no function.
Quiet(x) ==
  /\ Distinct(Prefix(x)) /\ Named(Prefix(x), "label") = {} /\ Jumped(Prefix(x)) = {}
  /\ Ops(Prefix(x), "fn") = {}
Mild(x, T, U) == Part(x, T, U) /\ Quiet(x)

\* A part's labels and jumps.
Has(x, labels, jumps, T, U) ==
  /\ Part(x, T, U) /\ Distinct(Prefix(x)) /\ Ops(Prefix(x), "fn") = {}
  /\ Named(Prefix(x), "label") = labels /\ Jumped(Prefix(x)) = jumps

\* The labels and the jumps of each part are those of A and B.
Fits(q, A, B, l, T, U) ==
  /\ IsSeq(q)
  /\ \A i \in DOMAIN q : Has(q[i], A[i], B[i], T, U)
  /\ \A i, j \in DOMAIN q : i # j => A[i] \cap A[j] = {}
  /\ \A i \in DOMAIN q : A[i] \subseteq Own(l)
  /\ \A i \in DOMAIN q : \A b \in B[i] : \E j \in DOMAIN q : b \in A[j]

\* Such parts are a call's.
LEMMA Labelled ==
  ASSUME NEW T, NEW U, NEW l, NEW q, NEW A, NEW B, Fits(q, A, B, l, T, U)
  PROVE  Called(q, l, T, U) /\ NoFunction(q)
<1>. USE DEF Fits, Has
<1>1. Apart(q)  BY DEF Apart
<1>2. ToCome(q, "label") \subseteq Own(l)
  <2>1. ASSUME NEW i \in DOMAIN q, NEW b \in Named(Prefix(q[i]), "label")  PROVE b \in Own(l)
    OBVIOUS
  <2>. QED  BY <2>1 DEF ToCome
<1>3. JumpsToCome(q) \subseteq ToCome(q, "label")
  <2>1. ASSUME NEW i \in DOMAIN q, NEW b \in Named(Prefix(q[i]), "jmp") \cup Named(Prefix(q[i]), "je")
        PROVE  b \in ToCome(q, "label")
    <3>1. b \in B[i]  BY <2>1 DEF Jumped
    <3>2. PICK j \in DOMAIN q : b \in A[j]  BY <3>1
    <3>. QED  BY <3>2 DEF ToCome
  <2>. QED  BY <2>1 DEF ToCome, JumpsToCome
<1>4. NoFunction(q)  BY DEF NoFunction
<1>. QED  BY <1>1, <1>2, <1>3, <1>4 DEF Called

\* Quiet parts.
LEMMA QuietParts ==
  ASSUME NEW T, NEW U, NEW l, NEW q, IsSeq(q), \A i \in DOMAIN q : Mild(q[i], T, U)
  PROVE  /\ Called(q, l, T, U) /\ NoFunction(q)
         /\ ToCome(q, "label") = {} /\ JumpsToCome(q) = {}
<1>. DEFINE A == [i \in DOMAIN q |-> {}]
<1>1. Fits(q, A, A, l, T, U)  BY DEF Fits, Has, Mild, Quiet
<1>. HIDE DEF A
<1>2. Called(q, l, T, U) /\ NoFunction(q)  BY <1>1, Labelled
<1>3. ToCome(q, "label") = {}  BY DEF ToCome, Mild, Quiet
<1>. QED  BY <1>2, <1>3 DEF Called

\* Texts as parts.
LEMMA TextParts ==
  ASSUME NEW T, NEW U
  PROVE  /\ \A c : Prefix(Asm(c)) = c
         /\ \A c, A, B, D : Prints(c, A, B, D) /\ D \subseteq U => Part(Asm(c), T, U)
         /\ \A c : Plain(c) => Mild(Asm(c), T, U)
         /\ \A p \in U : Mild(Asm(PushSymbol(p)), T, U)
         /\ Mild(Stop, T, U)
<1>1. ASSUME NEW c  PROVE Prefix(Asm(c)) = c  BY DEF Prefix, Asm
<1>2. ASSUME NEW c, NEW A, NEW B, NEW D, Prints(c, A, B, D), D \subseteq U
      PROVE  Part(Asm(c), T, U)
  BY <1>2 DEF Prints, Part, Asm
<1>3. ASSUME NEW c, NEW D, Prints(c, {}, {}, D), D \subseteq U  PROVE Mild(Asm(c), T, U)
  <2>1. Part(Asm(c), T, U)  BY <1>3, <1>2
  <2>2. Quiet(Asm(c))  BY <1>3, <1>1 DEF Quiet, Prints
  <2>. QED  BY <2>1, <2>2 DEF Mild
<1>4. ASSUME NEW c, Plain(c)  PROVE Mild(Asm(c), T, U)
  BY <1>3, <1>4, PrintsPlain
<1>5. ASSUME NEW p \in U  PROVE Mild(Asm(PushSymbol(p)), T, U)
  BY <1>3, MarkedTexts
<1>6. Mild(Stop, T, U)
  <2>1. Prefix(Stop) = <<>> /\ Stop.kind = "ERROR"  BY DEF Prefix, Stop
  <2>2. Prints(<<>>, {}, {}, {})  BY PlainTexts, PrintsPlain
  <2>. QED  BY <2>1, <2>2 DEF Mild, Part, Quiet, Prints
<1>. QED  BY <1>1, <1>2, <1>4, <1>5, <1>6

\* Nodes as parts.
LEMMA NodeParts ==
  ASSUME NEW T, NEW G, NEW L, Closed(T, G, L), NEW U
  PROVE  /\ \A x \in Optional(T) : Mild(x, T, U)
         /\ \A path : IsSeq(path) => Mild(Refs(path), T, U)
<1>0. Prints(<<>>, {}, {}, {})  BY PlainTexts, PrintsPlain
<1>1. ASSUME NEW x \in T  PROVE Mild(x, T, U)
  <2>1. x.kind \notin {"ASM", "LITERAL", "GVARDEF"}
    BY Shapes DEF Unary, Pairs, Binary
  <2>2. Prefix(x) = <<>>  BY <2>1 DEF Prefix
  <2>. QED  BY <2>2, <1>0 DEF Mild, Part, Optional, Quiet, Prints
<1>2. Mild(NoNode, T, U)
  <2>1. Prefix(NoNode) = <<>>  BY DEF Prefix, NoNode
  <2>. QED  BY <2>1, <1>0 DEF Mild, Part, Optional, Quiet, Prints
<1>3. ASSUME NEW path, IsSeq(path)  PROVE Mild(Refs(path), T, U)
  <2>1. CASE path = <<>>  BY <2>1, <1>2 DEF Refs
  <2>2. CASE path # <<>>
    <3>. DEFINE r == Refs(path)
    <3>1. r.kind = "STRUCTREF" /\ r.path = path  BY <2>2 DEF Refs
    <3>. HIDE DEF r
    <3>2. Prefix(r) = <<>>  BY <3>1 DEF Prefix
    <3>3. Mild(r, T, U)  BY <1>0, <1>3, <2>2, <3>1, <3>2 DEF Mild, Part, Quiet, Prints
    <3>. QED  BY <3>3 DEF r
  <2>. QED  BY <2>1, <2>2
<1>. QED  BY <1>1, <1>2, <1>3 DEF Optional

MildParts(q, T, U) == IsSeq(q) /\ \A i \in DOMAIN q : Mild(q[i], T, U)

\* Mild parts, one behind the other.
LEMMA MildTuples ==
  ASSUME NEW T, NEW U
  PROVE  /\ MildParts(<<>>, T, U)
         /\ \A a : Mild(a, T, U) => MildParts(<<a>>, T, U)
         /\ \A a, b : Mild(a, T, U) /\ Mild(b, T, U) => MildParts(<<a, b>>, T, U)
         /\ \A a, b, c : Mild(a, T, U) /\ Mild(b, T, U) /\ Mild(c, T, U)
              => MildParts(<<a, b, c>>, T, U)
BY Tuple DEF MildParts

\* Sequences of them likewise.
LEMMA MildConcat ==
  ASSUME NEW T, NEW U, NEW q, NEW r, MildParts(q, T, U), MildParts(r, T, U)
  PROVE  MildParts(q \o r, T, U)
<1>1. IsSeq(q) /\ IsSeq(r)  BY DEF MildParts
<1>2. IsSeq(q \o r) /\ DOMAIN (q \o r) = 1..Len(q) + Len(r)
  BY <1>1, Concat, SeqFacts
<1>3. ASSUME NEW i \in DOMAIN (q \o r)  PROVE Mild((q \o r)[i], T, U)
  <2>0. Len(q) \in Nat /\ Len(r) \in Nat /\ DOMAIN q = 1..Len(q) /\ DOMAIN r = 1..Len(r)
    BY <1>1, SeqFacts
  <2>1. CASE i \in 1..Len(q)
    <3>1. (q \o r)[i] = q[i]  BY <1>1, <2>1, Concat
    <3>. QED  BY <3>1, <2>0, <2>1 DEF MildParts
  <2>2. CASE i \notin 1..Len(q)
    <3>1. i - Len(q) \in 1..Len(r) /\ Len(q) + (i - Len(q)) = i  BY <1>2, <2>0, <2>2
    <3>2. (q \o r)[i] = r[i - Len(q)]  BY <1>1, <3>1, Concat
    <3>. QED  BY <3>1, <3>2, <2>0 DEF MildParts
  <2>. QED  BY <2>1, <2>2
<1>. QED  BY <1>2, <1>3 DEF MildParts

Symbols(G, L) == G \cup { LiteralName(k) : k \in L }

\* What gen_variable() prints for a tree or a literal.
LEMMA VariableParts ==
  ASSUME NEW T, NEW G, NEW L, Closed(T, G, L), NEW x,
         x \in T \/ (x.kind = "LITERALREF" /\ x.index \in L)
  PROVE  Mild(GenVariable(x), T, Symbols(G, L))
<1>. DEFINE U == Symbols(G, L)
<1>1. CASE x.kind = "LVAR"
  <2>1. GenVariable(x) = Asm(PushLocal(x.offset))  BY <1>1 DEF GenVariable
  <2>. QED  BY <2>1, PlainTexts, TextParts
<1>2. CASE x.kind = "GVARREF"
  <2>1. GenVariable(x) = Asm(PushSymbol(x.name))  BY <1>2 DEF GenVariable
  <2>2. x.name \in U  BY <1>2, Shapes DEF Symbols
  <2>. QED  BY <2>1, <2>2, TextParts
<1>3. CASE x.kind = "LITERALREF"
  <2>1. GenVariable(x) = Asm(PushSymbol(LiteralName(x.index)))  BY <1>3 DEF GenVariable
  <2>2. x.index \in L  BY <1>3, Shapes DEF Unary, Pairs, Binary
  <2>3. LiteralName(x.index) \in U  BY <2>2 DEF Symbols
  <2>. QED  BY <2>1, <2>3, TextParts
<1>4. CASE x.kind \notin {"LVAR", "GVARREF", "LITERALREF"}
  <2>1. GenVariable(x) = Stop  BY <1>4 DEF GenVariable
  <2>. QED  BY <2>1, TextParts
<1>. QED  BY <1>1, <1>2, <1>3, <1>4

\* The parts of a chain of members, an assignment, a value, a return.
LEMMA AccessParts ==
  ASSUME NEW T, NEW G, NEW L, Closed(T, G, L)
  PROVE  /\ \A x : x.kind = "STRUCTREF" /\ IsSeq(x.path) /\ x.path # <<>>
              => MildParts(GenRef(x), T, Symbols(G, L))
         /\ \A x \in T : x.kind \in {"LVAR", "GVARREF"} => MildParts(GenValue(x), T, Symbols(G, L))
         /\ \A x \in T : MildParts(GenTarget(x), T, Symbols(G, L))
<1>. DEFINE U == Symbols(G, L)
<1>0. ASSUME NEW x \in T  PROVE Mild(GenVariable(x), T, U)
  <2>1. x \in T \/ (x.kind = "LITERALREF" /\ x.index \in L)  OBVIOUS
  <2>. QED  BY <2>1, VariableParts
<1>1. ASSUME NEW x, IsSeq(x.path), x.path # <<>>  PROVE MildParts(GenRef(x), T, U)
  <2>. DEFINE ref == x.path[1]
              P == <<<<"pop", "rax">>>>
              Q == IF ref.ptr THEN <<<<"load", "rax", "rax">>>> ELSE <<>>
              R == <<<<"add_imm", "rax", ref.offset>>, <<"push", "rax">>>>
  <2>1. Plain(P) /\ Plain(Q) /\ Plain(R)
    <3>1. Plain(P)  BY PlainTexts DEF Marks
    <3>2. Plain(Q)  BY PlainTexts DEF Marks
    <3>3. Plain(R)  BY Tuple DEF Plain, Marks
    <3>. QED  BY <3>1, <3>2, <3>3
  <2>2. GenRef(x) = <<Asm(P \o Q \o R), Refs(Tail(x.path))>>  BY DEF GenRef
  <2>. HIDE DEF P, Q, R, U
  <2>3. Plain(P \o Q \o R)  BY <2>1, PlainConcat
  <2>4. Mild(Asm(P \o Q \o R), T, U)  BY <2>3, TextParts
  <2>5. IsSeq(Tail(x.path))  BY <1>1, HeadTail
  <2>6. Mild(Refs(Tail(x.path)), T, U)  BY <2>5, NodeParts
  <2>. QED  BY <2>2, <2>4, <2>6, MildTuples
<1>2. ASSUME NEW x \in T, x.kind \in {"LVAR", "GVARREF"}  PROVE MildParts(GenValue(x), T, U)
  <2>. DEFINE load == IF x.kind = "LVAR" /\ x.byte THEN "load_byte" ELSE "load"
              c == <<<<"pop", "rax">>, <<load, "rax", "rax">>, <<"push", "rax">>>>
  <2>1. Plain(c)  BY Tuple DEF Plain, Marks
  <2>2. GenValue(x) = <<GenVariable(x), Refs(x.path), Asm(c)>>  BY DEF GenValue
  <2>. HIDE DEF c, U
  <2>3. Mild(Asm(c), T, U)  BY <2>1, TextParts
  <2>4. IsSeq(x.path)  BY <1>2, Shapes
  <2>5. Mild(Refs(x.path), T, U)  BY <2>4, NodeParts
  <2>6. Mild(GenVariable(x), T, U)  BY <1>0
  <2>. QED  BY <2>2, <2>3, <2>5, <2>6, MildTuples
<1>3. ASSUME NEW x \in T  PROVE MildParts(GenTarget(x), T, U)
  <2>1. CASE x.kind = "DEREF"
    <3>1. GenTarget(x) = <<x.lhs>>  BY <2>1 DEF GenTarget
    <3>2. x.lhs \in T  BY <2>1, Shapes DEF Unary
    <3>. HIDE DEF U
    <3>3. Mild(x.lhs, T, U)  BY <3>2, NodeParts DEF Optional
    <3>. QED  BY <3>1, <3>3, MildTuples
  <2>2. CASE x.kind # "DEREF"
    <3>. DEFINE r == IF "path" \in DOMAIN x THEN Refs(x.path) ELSE NoNode
    <3>1. GenTarget(x) = <<GenVariable(x), r>>  BY <2>2 DEF GenTarget
    <3>2. Mild(GenVariable(x), T, U)  BY <1>0
    <3>. HIDE DEF U
    <3>3. Mild(r, T, U)
      <4>1. CASE "path" \in DOMAIN x
        <5>1. IsSeq(x.path)  BY <4>1, Shapes
        <5>2. Mild(Refs(x.path), T, U)  BY <5>1, NodeParts
        <5>. QED  BY <4>1, <5>2
      <4>2. CASE "path" \notin DOMAIN x
        <5>1. NoNode \in Optional(T)  BY DEF Optional
        <5>2. Mild(NoNode, T, U)  BY <5>1, NodeParts, Zenon
        <5>. QED  BY <4>2, <5>2
      <4>. QED  BY <4>1, <4>2
    <3>. HIDE DEF r
    <3>. QED  BY <3>1, <3>2, <3>3, MildTuples
  <2>. QED  BY <2>1, <2>2
<1>. QED  BY <1>1, <1>2, <1>3

\* The kinds of gen() exclude each other.
LEMMA GenCases ==
  ASSUME NEW x, NEW l
  PROVE  /\ x.kind = "NUM" => gen(x, l) = <<Asm(<<<<"push_imm", x.val>>>>)>>
         /\ x.kind \in {"LVAR", "GVARREF"} => gen(x, l) = GenValue(x)
         /\ x.kind = "STRUCTREF" => gen(x, l) = GenRef(x)
         /\ x.kind = "ASSIGN" => gen(x, l) = GenAssign(x)
         /\ x.kind = "RETURN" => gen(x, l) = GenReturn(x)
         /\ x.kind = "WHILE" => gen(x, l) = GenWhile(x, l)
         /\ x.kind = "IF" => gen(x, l) = GenIf(x, l)
         /\ x.kind = "IF_ELSE" => gen(x, l) = GenIfElse(x, l)
         /\ x.kind = "FOR" => gen(x, l) = GenFor(x, l)
         /\ x.kind = "BLOCK" => gen(x, l) = GenBlock(x)
         /\ x.kind = "FUNCALL" => gen(x, l) = GenCall(x)
         /\ x.kind = "ADDR" => gen(x, l) = <<GenVariable(x.lhs)>>
         /\ x.kind = "DEREF" => gen(x, l) = GenDeref(x)
         /\ x.kind = "NOT" => gen(x, l) = GenNot(x)
         /\ x.kind = "CAST" => gen(x, l) = <<x.lhs>>
         /\ x.kind = "FUNCDEF" => gen(x, l) = GenFunction(x)
         /\ x.kind = "GVARDEF" => gen(x, l) = Data(x.name)
         /\ x.kind = "LITERAL" => gen(x, l) = Data(LiteralName(x.index))
         /\ x.kind = "STRUCTDEF" => gen(x, l) = <<>>
         /\ x.kind \in Binary => gen(x, l) = GenBinary(x)
BY Zenon DEF gen, Binary

\* The statements of a block, and the arguments of a call.
LEMMA ListParts ==
  ASSUME NEW T, NEW G, NEW L, Closed(T, G, L), NEW U, NEW q \in Seq(T)
  PROVE  MildParts(q, T, U) /\ MildParts(Statements(q), T, U)
<1>0. Len(q) \in Nat /\ DOMAIN q = 1..Len(q) /\ \A i \in DOMAIN q : q[i] \in T  OBVIOUS
<1>1. MildParts(q, T, U)
  <2>1. \A i \in DOMAIN q : Mild(q[i], T, U)  BY <1>0, NodeParts DEF Optional
  <2>. QED  BY <2>1 DEF MildParts, IsSeq
<1>2. MildParts(Statements(q), T, U)
  <2>. DEFINE s == Statements(q)
              S == T \cup {Asm(Drop)}
              n == Len(q)
  <2>1. \A i \in 1..2 * n : i % 2 = 1 => (i + 1) \div 2 \in 1..n
    <3>. HIDE DEF n
    <3>1. n \in Nat  BY <1>0 DEF n
    <3>. QED  BY <3>1
  <2>2. s \in [1..2 * n -> S]  BY <1>0, <2>1 DEF Statements
  <2>3. 2 * n \in Nat  BY <1>0
  <2>4. \A x \in T : Mild(x, T, U)  BY NodeParts DEF Optional
  <2>5. Mild(Asm(Drop), T, U)  BY PlainTexts, TextParts
  <2>. HIDE DEF s, n
  <2>6. s \in Seq(S)  BY <2>2, <2>3
  <2>7. MildParts(s, T, U)
    <3>. HIDE DEF S
    <3>1. \A x \in S : Mild(x, T, U)  BY <2>4, <2>5 DEF S
    <3>2. \A i \in DOMAIN s : s[i] \in S  BY <2>2
    <3>. QED  BY <2>6, <3>1, <3>2 DEF MildParts, IsSeq
  <2>. QED  BY <2>7 DEF s
<1>. QED  BY <1>1, <1>2

\* The parts of the calls that print no labels.
LEMMA QuietCalls ==
  ASSUME NEW T, NEW G, NEW L, Closed(T, G, L), NEW l, NEW x \in T,
         x.kind \notin {"WHILE", "IF", "IF_ELSE", "FOR"}
  PROVE  MildParts(gen(x, l), T, Symbols(G, L))
<1>. DEFINE U == Symbols(G, L)
            q == gen(x, l)
<1>. HIDE DEF U
<1>0. /\ x.kind \in {"NUM", "LVAR", "GVARREF", "STRUCTDEF", "BLOCK", "FUNCALL", "ASSIGN"}
                    \cup Unary \cup Binary
      /\ \A y \in Optional(T) : Mild(y, T, U)
      /\ \A y \in T : Mild(y, T, U)
      /\ \A c : Plain(c) => Mild(Asm(c), T, U)
  <2>1. x.kind \in {"NUM", "LVAR", "GVARREF", "STRUCTDEF", "BLOCK", "FUNCALL", "ASSIGN"}
                    \cup Unary \cup Binary
    BY Shapes DEF Pairs
  <2>2. \A y \in Optional(T) : Mild(y, T, U)  BY NodeParts
  <2>3. \A c : Plain(c) => Mild(Asm(c), T, U)  BY TextParts
  <2>. QED  BY <2>1, <2>2, <2>3 DEF Optional
<1>1. CASE x.kind = "NUM"
  <2>1. q = <<Asm(<<<<"push_imm", x.val>>>>)>>  BY <1>1, GenCases
  <2>2. Plain(<<<<"push_imm", x.val>>>>)  BY PlainTexts DEF Marks
  <2>. QED  BY <2>1, <2>2, <1>0, MildTuples DEF U
<1>2. CASE x.kind \in {"LVAR", "GVARREF"}
  <2>1. q = GenValue(x)  BY <1>2, GenCases
  <2>. QED  BY <2>1, <1>2, AccessParts DEF U
<1>3. CASE x.kind = "STRUCTDEF"
  <2>1. q = <<>>  BY <1>3, GenCases
  <2>. QED  BY <2>1, MildTuples DEF U
<1>4. CASE x.kind = "BLOCK"
  <2>1. q = Append(Statements(x.child), Asm(Keep))  BY <1>4, GenCases DEF GenBlock
  <2>2. x.child \in Seq(T)  BY <1>4, Shapes
  <2>3. MildParts(Statements(x.child), T, U)  BY <2>2, ListParts
  <2>. DEFINE s == Statements(x.child)
  <2>4. MildParts(<<Asm(Keep)>>, T, U)  BY <1>0, PlainTexts, MildTuples
  <2>. HIDE DEF s
  <2>5. MildParts(s \o <<Asm(Keep)>>, T, U)  BY <2>3, <2>4, MildConcat DEF s
  <2>6. Append(s, Asm(Keep)) = s \o <<Asm(Keep)>>
    <3>1. PICK S : s \in Seq(S)  BY <2>3 DEF s, MildParts, IsSeq
    <3>2. s \in Seq(S \cup {Asm(Keep)})  BY <3>1
    <3>. QED  BY <3>2
  <2>. QED  BY <2>1, <2>5, <2>6 DEF s, U
<1>5. CASE x.kind = "FUNCALL"
  <2>. DEFINE A == <<Asm(AlignStack)>>
              P == PopArguments(Len(x.arg))
              C == <<<<"mov_imm", "rax", 0>>, <<"call", x.name>>>>
              B == <<Asm(P \o C \o UnalignStack)>>
  <2>1. q = A \o x.arg \o B  BY <1>5, GenCases DEF GenCall
  <2>2. x.arg \in Seq(T)  BY <1>5, Shapes
  <2>3. Len(x.arg) \in Nat  BY <2>2
  <2>4. Plain(P)  BY <2>3, PlainTexts
  <2>5. Plain(C)  BY Tuple DEF Plain, Marks
  <2>. HIDE DEF P, C
  <2>6. Plain(P \o C \o UnalignStack)  BY <2>4, <2>5, PlainTexts, PlainConcat
  <2>7. MildParts(A, T, U)  BY <1>0, PlainTexts, MildTuples
  <2>8. MildParts(B, T, U)  BY <1>0, <2>6, MildTuples
  <2>9. MildParts(x.arg, T, U)  BY <2>2, ListParts
  <2>. HIDE DEF A, B
  <2>10. MildParts(A \o x.arg \o B, T, U)  BY <2>7, <2>8, <2>9, MildConcat
  <2>. QED  BY <2>1, <2>10 DEF U
<1>6. CASE x.kind = "ASSIGN"
  <2>. DEFINE A == GenTarget(x.lhs)
              c == <<<<"pop", "rdi">>, <<"pop", "rax">>, <<"store", "rax", "rdi">>, <<"push", "rdi">>>>
              B == <<x.rhs, Asm(c)>>
  <2>1. q = A \o B  BY <1>6, GenCases DEF GenAssign
  <2>2. x.lhs \in T /\ x.rhs \in T  BY <1>6, Shapes DEF Pairs
  <2>3. MildParts(A, T, U)  BY <2>2, AccessParts DEF U
  <2>4. Plain(c)
    <3>. DEFINE S == {<<"pop", "rdi">>, <<"pop", "rax">>, <<"store", "rax", "rdi">>, <<"push", "rdi">>}
    <3>1. c \in Seq(S)  OBVIOUS
    <3>2. \A y \in S : y[1] \notin Marks  BY DEF Marks
    <3>. HIDE DEF S, c
    <3>. QED  BY <3>1, <3>2, PlainOf
  <2>. HIDE DEF c
  <2>5. MildParts(B, T, U)  BY <1>0, <2>2, <2>4, MildTuples
  <2>. HIDE DEF A, B
  <2>6. MildParts(A \o B, T, U)  BY <2>3, <2>5, MildConcat
  <2>. QED  BY <2>1, <2>6 DEF U
<1>7. CASE x.kind = "RETURN"
  <2>0. q = GenReturn(x)  BY <1>7, GenCases
  <2>1. x.lhs \in Optional(T)  BY <1>7, Shapes DEF Unary, Optional
  <2>. DEFINE Z == <<<<"mov_imm", "rax", 0>>>>
  <2>2. Plain(Z)  BY PlainTexts DEF Marks
  <2>. HIDE DEF Z
  <2>3. Plain(Z \o Epilogue) /\ Plain(Drop \o Epilogue)  BY <2>2, PlainTexts, PlainConcat
  <2>4. Mild(Asm(Z \o Epilogue), T, U) /\ Mild(Asm(Drop \o Epilogue), T, U) /\ Mild(x.lhs, T, U)
    BY <2>1, <2>3, <1>0
  <2>5. q = <<Asm(Z \o Epilogue)>> \/ q = <<x.lhs, Asm(Drop \o Epilogue)>>
    BY <2>0 DEF GenReturn, Z
  <2>. HIDE DEF q
  <2>6. MildParts(q, T, U)  BY <2>4, <2>5, MildTuples
  <2>. QED  BY <2>6 DEF q, U
<1>8. CASE x.kind = "ADDR"
  <2>1. q = <<GenVariable(x.lhs)>>  BY <1>8, GenCases
  <2>2. x.lhs \in T \/ (x.lhs.kind = "LITERALREF" /\ x.lhs.index \in L)
    BY <1>8, Shapes DEF Unary
  <2>3. Mild(GenVariable(x.lhs), T, U)  BY <2>2, VariableParts DEF U
  <2>. QED  BY <2>1, <2>3, MildTuples DEF U
<1>9. CASE x.kind \in {"DEREF", "NOT"}
  <2>1. x.lhs \in T  BY <1>9, Shapes DEF Unary
  <2>. DEFINE D == <<<<"load", "rax", "rax">>, <<"push", "rax">>>>
              N == <<<<"xor_imm", "rax", 1>>, <<"push", "rax">>>>
  <2>2. Plain(D) /\ Plain(N)  BY Tuple DEF Plain, Marks
  <2>3. q = <<x.lhs, Asm(Drop \o D)>> \/ q = <<x.lhs, Asm(Drop \o N)>>
    BY <1>9, GenCases DEF GenDeref, GenNot
  <2>. HIDE DEF D, N, q
  <2>4. Plain(Drop \o D) /\ Plain(Drop \o N)  BY <2>2, PlainTexts, PlainConcat
  <2>5. MildParts(q, T, U)  BY <2>1, <2>3, <2>4, <1>0, MildTuples
  <2>. QED  BY <2>5 DEF q, U
<1>10. CASE x.kind = "CAST"
  <2>1. q = <<x.lhs>>  BY <1>10, GenCases
  <2>2. x.lhs \in T  BY <1>10, Shapes DEF Unary
  <2>. QED  BY <2>1, <2>2, <1>0, MildTuples DEF U
<1>11. CASE x.kind \in Binary
  <2>. DEFINE P == <<<<"pop", "rdi">>, <<"pop", "rax">>>>
              c == P \o Operate(x.kind) \o Keep
  <2>1. q = <<x.lhs, x.rhs, Asm(c)>>  BY <1>11, GenCases DEF GenBinary
  <2>2. x.lhs \in T /\ x.rhs \in T  BY <1>11, Shapes DEF Pairs
  <2>3. Plain(P)  BY Tuple DEF Plain, Marks
  <2>4. Plain(Operate(x.kind))  BY <1>11, PlainTexts
  <2>. HIDE DEF P
  <2>5. Plain(c)  BY <2>3, <2>4, PlainTexts, PlainConcat
  <2>. HIDE DEF c
  <2>. QED  BY <2>1, <2>2, <2>5, <1>0, MildTuples DEF U
<1>. QED
  BY <1>0, <1>1, <1>2, <1>3, <1>4, <1>5, <1>6, <1>7, <1>8, <1>9, <1>10, <1>11 DEF Unary

\* The parts of the calls that print labels.
LEMMA LabelledCalls ==
  ASSUME NEW T, NEW G, NEW L, Closed(T, G, L), NEW l, NEW x \in T,
         x.kind \in {"WHILE", "IF", "IF_ELSE", "FOR"}
  PROVE  Called(gen(x, l), l, T, Symbols(G, L)) /\ NoFunction(gen(x, l))
<1>. DEFINE U == Symbols(G, L)
            b == <<"begin", l>>
            e == <<"end", l>>
            f == <<"else", l>>
<1>0. b # e /\ b # f /\ e # f /\ Own(l) = {b, e, f}  BY DEF Own
<1>. HIDE DEF U
<1>1. ASSUME NEW c, NEW A, NEW B, Prints(c, A, B, {})  PROVE Has(Asm(c), A, B, T, U)
  BY <1>1, TextParts DEF Has, Prints
<1>2. ASSUME NEW y \in Optional(T)  PROVE Has(y, {}, {}, T, U)
  BY NodeParts DEF Has, Mild, Quiet
<1>3. ASSUME NEW p
      PROVE  /\ Has(Asm(IfZero(p, l)), {}, {<<p, l>>}, T, U)
             /\ Has(Asm(Drop \o <<Label(p, l)>> \o Keep), {<<p, l>>}, {}, T, U)
             /\ Has(Asm(<<Label(p, l)>>), {<<p, l>>}, {}, T, U)
             /\ Has(Asm(<<Label(p, l)>> \o <<<<"push_imm", 1>>>>), {<<p, l>>}, {}, T, U)
             /\ Has(Asm(<<Label(p, l)>> \o <<>>), {<<p, l>>}, {}, T, U)
  BY <1>1, MarkedTexts, PrintsOne
<1>4. ASSUME NEW p, NEW r
      PROVE  /\ Has(Asm(<<Jump("jmp", p, l), Label(r, l)>>), {<<r, l>>}, {<<p, l>>}, T, U)
             /\ Has(Asm(<<Jump("jmp", p, l), Label(r, l)>> \o Keep), {<<r, l>>}, {<<p, l>>}, T, U)
             /\ Has(Asm(Drop \o <<Jump("jmp", p, l), Label(r, l)>> \o Keep),
                    {<<r, l>>}, {<<p, l>>}, T, U)
  BY <1>1, MarkedTexts
<1>5. CASE x.kind = "WHILE"
  <2>. DEFINE c1 == Asm(<<Label("begin", l)>>)
              c2 == Asm(IfZero("end", l))
              c3 == Asm(Drop \o <<Jump("jmp", "begin", l), Label("end", l)>> \o Keep)
              q == <<c1, x.lhs, c2, x.rhs, c3>>
              A == <<{b}, {}, {}, {}, {e}>>
              B == <<{}, {}, {e}, {}, {b}>>
  <2>1. gen(x, l) = q  BY <1>5, GenCases DEF GenWhile
  <2>2. Has(c1, {b}, {}, T, U) /\ Has(c2, {}, {e}, T, U) /\ Has(c3, {e}, {b}, T, U)
    BY <1>3, <1>4
  <2>3. x.lhs \in T /\ x.rhs \in T  BY <1>5, Shapes DEF Pairs
  <2>4. Has(x.lhs, {}, {}, T, U) /\ Has(x.rhs, {}, {}, T, U)  BY <2>3, <1>2 DEF Optional
  <2>. HIDE DEF c1, c2, c3, b, e, f
  <2>5. IsSeq(q) /\ DOMAIN q = {1, 2, 3, 4, 5}
    <3>1. q \in Seq({c1, x.lhs, c2, x.rhs, c3})  OBVIOUS
    <3>2. DOMAIN q = 1..5 /\ 1..5 = {1, 2, 3, 4, 5}  OBVIOUS
    <3>. HIDE DEF q
    <3>. QED  BY <3>1, <3>2 DEF IsSeq
  <2>6. Fits(q, A, B, l, T, U)
    <3>1. \A i \in DOMAIN q : Has(q[i], A[i], B[i], T, U)  BY <2>2, <2>4, <2>5
    <3>2. \A i, j \in DOMAIN q : i # j => A[i] \cap A[j] = {}  BY <2>5, <1>0
    <3>3. \A i \in DOMAIN q : A[i] \subseteq Own(l)  BY <2>5, <1>0
    <3>4. \A i \in DOMAIN q : \A y \in B[i] : \E j \in DOMAIN q : y \in A[j]  BY <2>5
    <3>. QED  BY <2>5, <3>1, <3>2, <3>3, <3>4 DEF Fits
  <2>. QED  BY <2>1, <2>6, Labelled DEF U
<1>6. CASE x.kind = "IF"
  <2>. DEFINE c1 == Asm(IfZero("end", l))
              c2 == Asm(Drop \o <<Label("end", l)>> \o Keep)
              q == <<x.lhs, c1, x.rhs, c2>>
              A == <<{}, {}, {}, {e}>>
              B == <<{}, {e}, {}, {}>>
  <2>1. gen(x, l) = q  BY <1>6, GenCases DEF GenIf
  <2>2. Has(c1, {}, {e}, T, U) /\ Has(c2, {e}, {}, T, U)
    BY <1>3
  <2>3. x.lhs \in T /\ x.rhs \in T  BY <1>6, Shapes DEF Pairs
  <2>4. Has(x.lhs, {}, {}, T, U) /\ Has(x.rhs, {}, {}, T, U)  BY <2>3, <1>2 DEF Optional
  <2>. HIDE DEF c1, c2, b, e, f
  <2>5. IsSeq(q) /\ DOMAIN q = {1, 2, 3, 4}
    <3>1. q \in Seq({x.lhs, c1, x.rhs, c2})  OBVIOUS
    <3>2. DOMAIN q = 1..4 /\ 1..4 = {1, 2, 3, 4}  OBVIOUS
    <3>. HIDE DEF q
    <3>. QED  BY <3>1, <3>2 DEF IsSeq
  <2>6. Fits(q, A, B, l, T, U)
    <3>1. \A i \in DOMAIN q : Has(q[i], A[i], B[i], T, U)  BY <2>2, <2>4, <2>5
    <3>2. \A i, j \in DOMAIN q : i # j => A[i] \cap A[j] = {}  BY <2>5, <1>0
    <3>3. \A i \in DOMAIN q : A[i] \subseteq Own(l)  BY <2>5, <1>0
    <3>4. \A i \in DOMAIN q : \A y \in B[i] : \E j \in DOMAIN q : y \in A[j]  BY <2>5
    <3>. QED  BY <2>5, <3>1, <3>2, <3>3, <3>4 DEF Fits
  <2>. QED  BY <2>1, <2>6, Labelled DEF U
<1>7. CASE x.kind = "IF_ELSE"
  <2>. DEFINE c1 == Asm(IfZero("else", l))
              c2 == Asm(<<Jump("jmp", "end", l), Label("else", l)>>)
              c3 == Asm(Drop \o <<Label("end", l)>> \o Keep)
              q == <<x.lhs, c1, x.rhs, c2, x.elsehs, c3>>
              A == <<{}, {}, {}, {f}, {}, {e}>>
              B == <<{}, {f}, {}, {e}, {}, {}>>
  <2>1. gen(x, l) = q  BY <1>7, GenCases DEF GenIfElse
  <2>2. Has(c1, {}, {f}, T, U) /\ Has(c2, {f}, {e}, T, U) /\ Has(c3, {e}, {}, T, U)
    BY <1>3, <1>4
  <2>3. x.lhs \in T /\ x.rhs \in T /\ x.elsehs \in T  BY <1>7, Shapes
  <2>4. Has(x.lhs, {}, {}, T, U) /\ Has(x.rhs, {}, {}, T, U) /\ Has(x.elsehs, {}, {}, T, U)
    BY <2>3, <1>2 DEF Optional
  <2>. HIDE DEF c1, c2, c3, b, e, f
  <2>5. IsSeq(q) /\ DOMAIN q = {1, 2, 3, 4, 5, 6}
    <3>1. q \in Seq({x.lhs, c1, x.rhs, c2, x.elsehs, c3})  OBVIOUS
    <3>2. DOMAIN q = 1..6 /\ 1..6 = {1, 2, 3, 4, 5, 6}  OBVIOUS
    <3>. HIDE DEF q
    <3>. QED  BY <3>1, <3>2 DEF IsSeq
  <2>6. Fits(q, A, B, l, T, U)
    <3>1. \A i \in DOMAIN q : Has(q[i], A[i], B[i], T, U)  BY <2>2, <2>4, <2>5
    <3>2. \A i, j \in DOMAIN q : i # j => A[i] \cap A[j] = {}  BY <2>5, <1>0
    <3>3. \A i \in DOMAIN q : A[i] \subseteq Own(l)  BY <2>5, <1>0
    <3>4. \A i \in DOMAIN q : \A y \in B[i] : \E j \in DOMAIN q : y \in A[j]  BY <2>5
    <3>. QED  BY <2>5, <3>1, <3>2, <3>3, <3>4 DEF Fits
  <2>. QED  BY <2>1, <2>6, Labelled DEF U
<1>8. CASE x.kind = "FOR"
  <2>. DEFINE c1 == Asm(<<Label("begin", l)>>
                         \o (IF x.testexpr = NoNode THEN <<<<"push_imm", 1>>>> ELSE <<>>))
              c2 == Asm(IfZero("end", l))
              c3 == Asm(<<Jump("jmp", "begin", l), Label("end", l)>> \o Keep)
              q == <<x.initstmt, c1, x.testexpr, c2, x.lhs, x.updstmt, c3>>
              A == <<{}, {b}, {}, {}, {}, {}, {e}>>
              B == <<{}, {}, {}, {e}, {}, {}, {b}>>
  <2>1. gen(x, l) = q  BY <1>8, GenCases DEF GenFor
  <2>2. Has(c1, {b}, {}, T, U) /\ Has(c2, {}, {e}, T, U) /\ Has(c3, {e}, {b}, T, U)
    BY <1>3, <1>4
  <2>3. {x.initstmt, x.testexpr, x.lhs, x.updstmt} \subseteq Optional(T)
    BY <1>8, Shapes DEF Optional
  <2>4. /\ Has(x.initstmt, {}, {}, T, U) /\ Has(x.testexpr, {}, {}, T, U)
        /\ Has(x.lhs, {}, {}, T, U) /\ Has(x.updstmt, {}, {}, T, U)
    BY <2>3, <1>2
  <2>. HIDE DEF c1, c2, c3, b, e, f
  <2>5. IsSeq(q) /\ DOMAIN q = {1, 2, 3, 4, 5, 6, 7}
    <3>1. q \in Seq({x.initstmt, c1, x.testexpr, c2, x.lhs, x.updstmt, c3})  OBVIOUS
    <3>2. DOMAIN q = 1..7 /\ 1..7 = {1, 2, 3, 4, 5, 6, 7}  OBVIOUS
    <3>. HIDE DEF q
    <3>. QED  BY <3>1, <3>2 DEF IsSeq
  <2>6. Fits(q, A, B, l, T, U)
    <3>1. \A i \in DOMAIN q : Has(q[i], A[i], B[i], T, U)  BY <2>2, <2>4, <2>5
    <3>2. \A i, j \in DOMAIN q : i # j => A[i] \cap A[j] = {}  BY <2>5, <1>0
    <3>3. \A i \in DOMAIN q : A[i] \subseteq Own(l)  BY <2>5, <1>0
    <3>4. \A i \in DOMAIN q : \A y \in B[i] : \E j \in DOMAIN q : y \in A[j]  BY <2>5
    <3>. QED  BY <2>5, <3>1, <3>2, <3>3, <3>4 DEF Fits
  <2>. QED  BY <2>1, <2>6, Labelled DEF U
<1>. QED  BY <1>5, <1>6, <1>7, <1>8

\* The parts of a function, whose first one has the beginning.
LEMMA FunctionCall ==
  ASSUME NEW T, NEW G, NEW L, Closed(T, G, L), NEW l, NEW x,
         x.kind = "FUNCDEF", IsSeq(x.params), x.body \in T
  PROVE  /\ Called(gen(x, l), l, T, Symbols(G, L)) /\ Starts(gen(x, l))
         /\ ToCome(gen(x, l), "label") = {} /\ JumpsToCome(gen(x, l)) = {}
<1>. DEFINE U == Symbols(G, L)
            c == <<<<"fn", x.name>>, <<"push", "rbp">>, <<"mov", "rbp", "rsp">>,
                   <<"sub_imm", "rsp", variable_space(x)>>>>
            P == <<Asm(c)>>
            S == StoreParameters(x.params)
            E == <<x.body, Asm(Epilogue)>>
            r == S \o E
            q == P \o r
<1>. HIDE DEF U
<1>1. gen(x, l) = P \o S \o E  BY GenCases DEF GenFunction
<1>2. /\ IsSeq(c) /\ Named(c, "label") = {} /\ Jumped(c) = {} /\ Used(c) = {} /\ Distinct(c)
  <2>. DEFINE I == {<<"fn", x.name>>, <<"push", "rbp">>, <<"mov", "rbp", "rsp">>,
                    <<"sub_imm", "rsp", variable_space(x)>>}
  <2>1. c \in Seq(I)  OBVIOUS
  <2>2. \A y \in I : y[1] \notin {"label", "jmp", "je", "lea"}  OBVIOUS
  <2>. HIDE DEF c, I
  <2>3. \A i \in DOMAIN c : c[i][1] \notin {"label", "jmp", "je", "lea"}  BY <2>1, <2>2
  <2>. QED  BY <2>1, <2>3 DEF IsSeq, Named, Jumped, Used, Ops, Distinct
<1>. HIDE DEF c
<1>3. MildParts(S, T, U)
  <2>. DEFINE text(i) == PushLocal(x.params[i])
                          \o <<<<"pop", "rax">>, <<"store", "rax", arglist[i]>>, <<"mov_imm", "rax", 0>>>>
  <2>1. Len(x.params) \in Nat  BY SeqFacts
  <2>2. \A i \in 1..Len(x.params) : S[i] = Asm(text(i))  BY DEF StoreParameters
  <2>3. ASSUME NEW i  PROVE Mild(Asm(text(i)), T, U)
    <3>. DEFINE d == <<<<"pop", "rax">>, <<"store", "rax", arglist[i]>>, <<"mov_imm", "rax", 0>>>>
    <3>1. Plain(d)  BY Tuple DEF Plain, Marks
    <3>2. Plain(PushLocal(x.params[i]))  BY PlainTexts
    <3>. HIDE DEF d
    <3>3. Plain(PushLocal(x.params[i]) \o d)  BY <3>1, <3>2, PlainConcat
    <3>4. Mild(Asm(PushLocal(x.params[i]) \o d), T, U)  BY <3>3, TextParts
    <3>. QED  BY <3>4 DEF d
  <2>. DEFINE I == {Asm(text(i)) : i \in 1..Len(x.params)}
  <2>4. S \in [1..Len(x.params) -> I]  BY DEF StoreParameters
  <2>5. \A y \in I : Mild(y, T, U)  BY <2>3
  <2>. HIDE DEF S, I
  <2>6. S \in Seq(I) /\ DOMAIN S = 1..Len(x.params)  BY <2>1, <2>4
  <2>. QED  BY <2>4, <2>5, <2>6 DEF MildParts, IsSeq
<1>4. MildParts(E, T, U)
  <2>1. Mild(x.body, T, U)  BY NodeParts DEF Optional
  <2>2. Mild(Asm(Epilogue), T, U)  BY PlainTexts, TextParts
  <2>. QED  BY <2>1, <2>2, MildTuples
<1>5. Prefix(Asm(c)) = c /\ Part(Asm(c), T, U)
  BY <1>2, TextParts DEF Part, Asm
<1>6. IsSeq(P) /\ Len(P) = 1 /\ P[1] = Asm(c)  BY Tuple
<1>. HIDE DEF P, S, E
<1>7. MildParts(r, T, U) /\ IsSeq(r)
  <2>1. MildParts(r, T, U)  BY <1>3, <1>4, MildConcat
  <2>. QED  BY <2>1 DEF MildParts
<1>8. gen(x, l) = q
  <2>1. IsSeq(S) /\ IsSeq(E)  BY <1>3, <1>4 DEF MildParts
  <2>2. PICK I, J, K : P \in Seq(I) /\ S \in Seq(J) /\ E \in Seq(K)  BY <2>1, <1>6 DEF IsSeq
  <2>. DEFINE V == I \cup J \cup K
  <2>3. P \in Seq(V) /\ S \in Seq(V) /\ E \in Seq(V)  BY <2>2
  <2>. HIDE DEF V
  <2>4. P \o S \o E = P \o (S \o E)  BY <2>3
  <2>. QED  BY <2>4, <1>1
<1>. HIDE DEF r
<1>9. /\ IsSeq(q) /\ q[1] = Asm(c)
      /\ \A i \in DOMAIN q : i # 1 => Mild(q[i], T, U)
  <2>0. /\ IsSeq(q) /\ Len(q) = Len(P) + Len(r)
        /\ \A i \in 1..Len(P) : q[i] = P[i]
        /\ \A i \in 1..Len(r) : q[Len(P) + i] = r[i]
    <3>1. IsSeq(P) /\ IsSeq(r)  BY <1>6, <1>7
    <3>. QED  BY <3>1, Concat
  <2>1. IsSeq(q) /\ Len(q) = 1 + Len(r) /\ q[1] = Asm(c)
        /\ \A i \in 1..Len(r) : q[1 + i] = r[i]
    BY <2>0, <1>6
  <2>2. Len(r) \in Nat /\ DOMAIN r = 1..Len(r) /\ DOMAIN q = 1..Len(q)  BY <2>1, <1>7, SeqFacts
  <2>. HIDE DEF q
  <2>3. ASSUME NEW i \in DOMAIN q, i # 1  PROVE Mild(q[i], T, U)
    <3>1. i - 1 \in 1..Len(r) /\ 1 + (i - 1) = i  BY <2>1, <2>2, <2>3
    <3>2. q[i] = r[i - 1]  BY <2>1, <3>1
    <3>. QED  BY <2>2, <3>1, <3>2, <1>7 DEF MildParts
  <2>. QED  BY <2>1, <2>3
<1>. HIDE DEF q
<1>10. \A i \in DOMAIN q :
         /\ Part(q[i], T, U) /\ Distinct(Prefix(q[i]))
         /\ Named(Prefix(q[i]), "label") = {} /\ Jumped(Prefix(q[i])) = {}
         /\ i # 1 => Ops(Prefix(q[i]), "fn") = {}
  BY <1>2, <1>5, <1>9 DEF Mild, Quiet
<1>11. ToCome(q, "label") = {} /\ JumpsToCome(q) = {}
  BY <1>10 DEF ToCome, JumpsToCome, Jumped
<1>12. Called(q, l, T, U)  BY <1>9, <1>10, <1>11 DEF Called, Apart
<1>13. Starts(q)  BY <1>10, <1>11 DEF Starts
<1>. QED  BY <1>8, <1>11, <1>12, <1>13 DEF U

\* What gen() is called with.
Callable(x, T) ==
  \/ x \in T
  \/ x.kind = "STRUCTREF" /\ IsSeq(x.path) /\ x.path # <<>>
  \/ x.kind = "FUNCDEF" /\ IsSeq(x.params) /\ x.body \in T
  \/ x.kind \in {"GVARDEF", "LITERAL", "STRUCTDEF"}
  \/ x = ZeroedNode

\* The parts of a call of gen().
LEMMA Calls ==
  ASSUME NEW T, NEW G, NEW L, Closed(T, G, L), NEW l, NEW x, Callable(x, T), x.kind # "NULL"
  PROVE  /\ Called(gen(x, l), l, T, Symbols(G, L))
         /\ Named(Prefix(x), "data") \subseteq ToCome(gen(x, l), "data")
         /\ x.kind = "FUNCDEF" => /\ ToCome(gen(x, l), "label") = {}
                                  /\ JumpsToCome(gen(x, l)) = {}
                                  /\ Starts(gen(x, l))
         /\ x.kind # "FUNCDEF" => NoFunction(gen(x, l))
<1>. DEFINE U == Symbols(G, L)
            q == gen(x, l)
<1>0. Named(<<>>, "data") = {}  BY DEF Named, Ops
<1>1. CASE x \in T
  <2>1. x.kind \notin {"ASM", "LITERAL", "GVARDEF", "FUNCDEF"}
    BY <1>1, Shapes DEF Unary, Pairs, Binary
  <2>2. Prefix(x) = <<>>  BY <2>1 DEF Prefix
  <2>3. Called(q, l, T, U) /\ NoFunction(q)
    <3>1. CASE x.kind \in {"WHILE", "IF", "IF_ELSE", "FOR"}
      BY <1>1, <3>1, LabelledCalls
    <3>2. CASE x.kind \notin {"WHILE", "IF", "IF_ELSE", "FOR"}
      <4>1. MildParts(q, T, U)  BY <1>1, <3>2, QuietCalls
      <4>. HIDE DEF q, U
      <4>. QED  BY <4>1, QuietParts DEF MildParts
    <3>. QED  BY <3>1, <3>2
  <2>. QED  BY <2>1, <2>2, <2>3, <1>0
<1>2. CASE x.kind = "STRUCTREF" /\ IsSeq(x.path) /\ x.path # <<>>
  <2>1. Prefix(x) = <<>>  BY <1>2 DEF Prefix
  <2>2. q = GenRef(x)  BY <1>2, GenCases
  <2>3. MildParts(GenRef(x), T, U)  BY <1>2, AccessParts
  <2>4. Called(q, l, T, U) /\ NoFunction(q)
    <3>. HIDE DEF q, U
    <3>. QED  BY <2>2, <2>3, QuietParts DEF MildParts
  <2>. QED  BY <1>2, <2>1, <2>4, <1>0
<1>3. CASE x.kind = "FUNCDEF" /\ IsSeq(x.params) /\ x.body \in T
  <2>1. Prefix(x) = <<>>  BY <1>3 DEF Prefix
  <2>. QED  BY <1>3, <2>1, <1>0, FunctionCall
<1>4. CASE x.kind \in {"GVARDEF", "LITERAL"}
  <2>1. PICK name : q = <<Asm(<<<<"data", name>>>>)>> /\ Prefix(x) = <<<<"data", name>>>>
    <3>1. CASE x.kind = "GVARDEF"  BY <3>1, GenCases DEF Data, Prefix
    <3>2. CASE x.kind = "LITERAL"  BY <3>2, GenCases DEF Data, Prefix
    <3>. QED  BY <3>1, <3>2, <1>4
  <2>. DEFINE c == <<<<"data", name>>>>
  <2>2. Plain(c)  BY PlainTexts DEF Marks
  <2>. HIDE DEF c, q, U
  <2>3. Mild(Asm(c), T, U) /\ Prefix(Asm(c)) = c  BY <2>2, TextParts
  <2>4. q = <<Asm(c)>> /\ Prefix(x) = c  BY <2>1 DEF c
  <2>5. MildParts(q, T, U)  BY <2>3, <2>4, MildTuples
  <2>6. Called(q, l, T, U) /\ NoFunction(q)  BY <2>5, QuietParts DEF MildParts
  <2>7. 1 \in DOMAIN q /\ Prefix(q[1]) = c  BY <2>3, <2>4
  <2>8. Named(Prefix(x), "data") \subseteq ToCome(q, "data")  BY <2>4, <2>7 DEF ToCome
  <2>. QED  BY <1>4, <2>6, <2>8 DEF q, U
<1>5. CASE x.kind = "STRUCTDEF"
  <2>1. q = <<>> /\ Prefix(x) = <<>>  BY <1>5, GenCases DEF Prefix
  <2>2. MildParts(<<>>, T, U)  BY MildTuples
  <2>3. Called(q, l, T, U) /\ NoFunction(q)
    <3>. HIDE DEF q, U
    <3>. QED  BY <2>1, <2>2, QuietParts DEF MildParts
  <2>. QED  BY <1>5, <2>1, <2>3, <1>0
<1>6. CASE x = ZeroedNode
  <2>. DEFINE P == <<<<"pop", "rdi">>, <<"pop", "rax">>>>
              c == P \o Operate("ADD") \o Keep
  <2>1. x.kind = "ADD" /\ x.lhs = NoNode /\ x.rhs = NoNode  BY <1>6 DEF ZeroedNode
  <2>2. q = <<NoNode, NoNode, Asm(c)>> /\ Prefix(x) = <<>>
    BY <2>1, GenCases DEF GenBinary, Prefix, Binary
  <2>3. Plain(P)  BY Tuple DEF Plain, Marks
  <2>4. Plain(Operate("ADD"))  BY PlainTexts DEF Binary
  <2>. HIDE DEF P
  <2>5. Plain(c)  BY <2>3, <2>4, PlainTexts, PlainConcat
  <2>. HIDE DEF c, q, U
  <2>6. Mild(Asm(c), T, U) /\ Mild(NoNode, T, U)  BY <2>5, TextParts, NodeParts DEF Optional
  <2>7. MildParts(q, T, U)  BY <2>2, <2>6, MildTuples
  <2>8. Called(q, l, T, U) /\ NoFunction(q)  BY <2>7, QuietParts DEF MildParts
  <2>. QED  BY <2>1, <2>2, <2>8, <1>0 DEF q, U
<1>. QED  BY <1>1, <1>2, <1>3, <1>4, <1>5, <1>6 DEF Callable

-----------------------------------------------------------------------------
(* The work that is left, and the text that is printed. *)

\* The elements of a concatenation.
LEMMA ConcatItems ==
  ASSUME NEW q, NEW r, IsSeq(q), IsSeq(r)
  PROVE  \A i \in DOMAIN (q \o r) : \/ \E j \in DOMAIN q : (q \o r)[i] = q[j]
                                   \/ \E j \in DOMAIN r : (q \o r)[i] = r[j]
<1>. DEFINE e == q \o r
            n == Len(q)
            m == Len(r)
<1>1. /\ Len(e) = n + m /\ n \in Nat /\ m \in Nat
      /\ DOMAIN q = 1..n /\ DOMAIN r = 1..m /\ DOMAIN e = 1..n + m
      /\ \A i \in 1..n : e[i] = q[i]
      /\ \A i \in 1..m : e[n + i] = r[i]
  BY Concat, SeqFacts
<1>. HIDE DEF e, n, m
<1>2. ASSUME NEW i \in 1..n + m
      PROVE  i \in 1..n \/ (i - n \in 1..m /\ n + (i - n) = i)
  BY <1>1
<1>3. \A i \in DOMAIN e : \/ \E j \in DOMAIN q : e[i] = q[j]
                          \/ \E j \in DOMAIN r : e[i] = r[j]
  BY <1>1, <1>2
<1>. QED  BY <1>3 DEF e

\* Work in front of other work.
LEMMA WorkConcat ==
  ASSUME NEW q, NEW r, IsSeq(q), IsSeq(r)
  PROVE  /\ IsSeq(q \o r)
         /\ \A op : ToCome(q \o r, op) = ToCome(q, op) \cup ToCome(r, op)
         /\ JumpsToCome(q \o r) = JumpsToCome(q) \cup JumpsToCome(r)
         /\ Apart(q) /\ Apart(r) /\ ToCome(q, "label") \cap ToCome(r, "label") = {}
              => Apart(q \o r)
         /\ NoFunction(q) /\ NoFunction(r) => NoFunction(q \o r)
<1>. DEFINE e == q \o r
            n == Len(q)
            m == Len(r)
<1>1. /\ IsSeq(e) /\ Len(e) = n + m /\ n \in Nat /\ m \in Nat
      /\ DOMAIN q = 1..n /\ DOMAIN r = 1..m /\ DOMAIN e = 1..n + m
      /\ \A i \in 1..n : e[i] = q[i]
      /\ \A i \in 1..m : e[n + i] = r[i]
  BY Concat, SeqFacts
<1>. HIDE DEF e, n, m
<1>2. \A i \in DOMAIN e :
        \/ i \in DOMAIN q /\ e[i] = q[i]
        \/ i - n \in DOMAIN r /\ e[i] = r[i - n]
  <2>1. ASSUME NEW i \in 1..n + m
        PROVE  i \in 1..n \/ (i - n \in 1..m /\ n + (i - n) = i)
    BY <1>1
  <2>. QED  BY <2>1, <1>1
<1>3. \A i \in DOMAIN q : i \in DOMAIN e /\ e[i] = q[i]  BY <1>1
<1>4. \A i \in DOMAIN r : n + i \in DOMAIN e /\ e[n + i] = r[i]  BY <1>1
<1>5. ASSUME NEW op  PROVE ToCome(e, op) = ToCome(q, op) \cup ToCome(r, op)
  <2>. DEFINE N(x) == Named(Prefix(x), op)
  <2>1. /\ ToCome(e, op) = UNION { N(e[i]) : i \in DOMAIN e }
        /\ ToCome(q, op) = UNION { N(q[i]) : i \in DOMAIN q }
        /\ ToCome(r, op) = UNION { N(r[i]) : i \in DOMAIN r }
    BY DEF ToCome
  <2>. HIDE DEF N
  <2>2. ASSUME NEW y \in ToCome(e, op)  PROVE y \in ToCome(q, op) \cup ToCome(r, op)
    <3>1. PICK i \in DOMAIN e : y \in N(e[i])  BY <2>1
    <3>. QED  BY <2>1, <3>1, <1>2
  <2>3. ASSUME NEW y \in ToCome(q, op)  PROVE y \in ToCome(e, op)
    <3>1. PICK i \in DOMAIN q : y \in N(q[i])  BY <2>1
    <3>. QED  BY <2>1, <3>1, <1>3
  <2>4. ASSUME NEW y \in ToCome(r, op)  PROVE y \in ToCome(e, op)
    <3>1. PICK i \in DOMAIN r : y \in N(r[i])  BY <2>1
    <3>. QED  BY <2>1, <3>1, <1>4
  <2>. QED  BY <2>2, <2>3, <2>4
<1>6. JumpsToCome(e) = JumpsToCome(q) \cup JumpsToCome(r)  BY <1>5 DEF JumpsToCome
<1>7. ASSUME Apart(q), Apart(r), ToCome(q, "label") \cap ToCome(r, "label") = {}
      PROVE  Apart(e)
  <2>. DEFINE N(x) == Named(Prefix(x), "label")
  <2>1. /\ \A i \in DOMAIN q : N(q[i]) \subseteq ToCome(q, "label")
        /\ \A i \in DOMAIN r : N(r[i]) \subseteq ToCome(r, "label")
    BY DEF ToCome
  <2>2. /\ \A i, j \in DOMAIN q : i # j => N(q[i]) \cap N(q[j]) = {}
        /\ \A i, j \in DOMAIN r : i # j => N(r[i]) \cap N(r[j]) = {}
    BY <1>7 DEF Apart
  <2>3. \A i \in DOMAIN e : Distinct(Prefix(e[i]))
    BY <1>2, <1>7 DEF Apart
  <2>. HIDE DEF N
  <2>4. ASSUME NEW i \in DOMAIN e, NEW j \in DOMAIN e, i # j
        PROVE  N(e[i]) \cap N(e[j]) = {}
    <3>0. i \in Int /\ j \in Int /\ n \in Int  BY <1>1
    <3>1. i - n # j - n  BY <2>4, <3>0
    <3>2. CASE i \in DOMAIN q /\ e[i] = q[i] /\ j \in DOMAIN q /\ e[j] = q[j]
      BY <2>2, <2>4, <3>2
    <3>3. CASE i \in DOMAIN q /\ e[i] = q[i] /\ j - n \in DOMAIN r /\ e[j] = r[j - n]
      BY <2>1, <3>3, <1>7
    <3>4. CASE i - n \in DOMAIN r /\ e[i] = r[i - n] /\ j \in DOMAIN q /\ e[j] = q[j]
      BY <2>1, <3>4, <1>7
    <3>5. CASE i - n \in DOMAIN r /\ e[i] = r[i - n] /\ j - n \in DOMAIN r /\ e[j] = r[j - n]
      BY <2>2, <3>1, <3>5
    <3>. QED  BY <1>2, <3>2, <3>3, <3>4, <3>5
  <2>. QED  BY <2>3, <2>4 DEF Apart, N
<1>8. NoFunction(q) /\ NoFunction(r) => NoFunction(e)  BY <1>2 DEF NoFunction
<1>. QED  BY <1>1, <1>2, <1>5, <1>6, <1>7, <1>8 DEF e

\* The first part of the work, and the rest.
LEMMA WorkTail ==
  ASSUME NEW q, IsSeq(q), q # <<>>
  PROVE  /\ IsSeq(Tail(q)) /\ 1 \in DOMAIN q /\ Head(q) = q[1]
         /\ \A i \in DOMAIN Tail(q) : i + 1 \in DOMAIN q /\ i + 1 # 1 /\ Tail(q)[i] = q[i + 1]
         /\ \A op : ToCome(q, op) = Named(Prefix(Head(q)), op) \cup ToCome(Tail(q), op)
         /\ JumpsToCome(q) = Jumped(Prefix(Head(q))) \cup JumpsToCome(Tail(q))
         /\ Apart(q) => /\ Apart(Tail(q)) /\ Distinct(Prefix(Head(q)))
                        /\ Named(Prefix(Head(q)), "label") \cap ToCome(Tail(q), "label") = {}
         /\ Starts(q) => NoFunction(Tail(q))
<1>. DEFINE t == Tail(q)
            h == Head(q)
<1>1. /\ IsSeq(t) /\ 1 \in DOMAIN q /\ h = q[1] /\ q = <<h>> \o t
      /\ \A i \in DOMAIN t : i + 1 \in DOMAIN q /\ i + 1 # 1 /\ t[i] = q[i + 1]
  <2>1. /\ IsSeq(t) /\ q = <<h>> \o t /\ Len(t) = Len(q) - 1
        /\ \A i \in 1..Len(q) - 1 : t[i] = q[i + 1]
        /\ Len(q) > 0 /\ h = q[1]
    BY HeadTail
  <2>2. Len(q) \in Nat /\ DOMAIN q = 1..Len(q) /\ DOMAIN t = 1..Len(t)
    BY <2>1, SeqFacts
  <2>. HIDE DEF t, h
  <2>. QED  BY <2>1, <2>2
<1>. HIDE DEF t, h
<1>2. IsSeq(<<h>>) /\ DOMAIN <<h>> = {1} /\ <<h>>[1] = h
  <2>1. IsSeq(<<h>>)  BY Tuple
  <2>. QED  BY <2>1
<1>3. \A op : ToCome(<<h>>, op) = Named(Prefix(h), op)
  <2>. DEFINE o == <<h>>
  <2>1. DOMAIN o = {1} /\ o[1] = h  BY <1>2
  <2>. HIDE DEF o
  <2>2. \A op : ToCome(o, op) = Named(Prefix(h), op)  BY <2>1 DEF ToCome
  <2>. QED  BY <2>2 DEF o
<1>4. \A op : ToCome(q, op) = Named(Prefix(h), op) \cup ToCome(t, op)
  BY <1>1, <1>2, <1>3, WorkConcat
<1>5. JumpsToCome(q) = Jumped(Prefix(h)) \cup JumpsToCome(t)
  BY <1>4 DEF JumpsToCome, Jumped
<1>6. ASSUME Apart(q)
      PROVE  /\ Apart(t) /\ Distinct(Prefix(h))
             /\ Named(Prefix(h), "label") \cap ToCome(t, "label") = {}
  <2>1. Distinct(Prefix(h))  BY <1>1, <1>6 DEF Apart
  <2>2. \A i, j \in DOMAIN t : i # j => i + 1 # j + 1
    <3>1. \A i \in DOMAIN t : i \in Int  BY <1>1, SeqFacts
    <3>. QED  BY <3>1
  <2>3. Apart(t)  BY <1>1, <1>6, <2>2 DEF Apart
  <2>4. ASSUME NEW i \in DOMAIN t
        PROVE  Named(Prefix(h), "label") \cap Named(Prefix(t[i]), "label") = {}
    BY <1>1, <1>6 DEF Apart
  <2>. QED  BY <2>1, <2>3, <2>4 DEF ToCome
<1>7. Starts(q) => NoFunction(t)  BY <1>1 DEF Starts, NoFunction
<1>. QED  BY <1>1, <1>4, <1>5, <1>6, <1>7 DEF t, h

\* The labels of the function that is being printed.
Open(c) == { c[i][2] : i \in { k \in Ops(c, "label") : \A f \in Ops(c, "fn") : f < k } }

\* Every jump has its label in the same function, or in it there is one of M to come.
Settled(c, M) ==
  \A i \in Ops(c, "jmp") \cup Ops(c, "je") :
    \/ \E j \in Ops(c, "label") : c[j][2] = c[i][2] /\ \A f \in Ops(c, "fn") : f < i <=> f < j
    \/ c[i][2] \in M /\ \A f \in Ops(c, "fn") : f < i

\* More text for the function that is being printed.
LEMMA SettleText ==
  ASSUME NEW c, NEW d, IsSeq(c), IsSeq(d), NEW M,
         Ops(d, "fn") = {},
         Settled(c, Named(d, "label") \cup M),
         Jumped(d) \subseteq Open(c) \cup Named(d, "label") \cup M
  PROVE  Settled(c \o d, M) /\ Open(c \o d) = Open(c) \cup Named(d, "label")
<1>. DEFINE e == c \o d
            n == Len(c)
            m == Len(d)
<1>1. /\ IsSeq(e) /\ Len(e) = n + m /\ n \in Nat /\ m \in Nat
      /\ DOMAIN c = 1..n /\ DOMAIN d = 1..m /\ DOMAIN e = 1..n + m
      /\ \A i \in 1..n : e[i] = c[i]
      /\ \A i \in 1..m : e[n + i] = d[i]
  BY Concat, SeqFacts
<1>. HIDE DEF e, n, m
<1>2. \A op : \A i \in Ops(e, op) :
        \/ i \in Ops(c, op) /\ e[i] = c[i]
        \/ i - n \in Ops(d, op) /\ e[i] = d[i - n] /\ i > n
  <2>1. ASSUME NEW i \in 1..n + m
        PROVE  i \in 1..n \/ (i - n \in 1..m /\ n + (i - n) = i /\ i > n)
    BY <1>1
  <2>. QED  BY <2>1, <1>1 DEF Ops
<1>3. \A op : \A i \in Ops(c, op) : i \in Ops(e, op) /\ e[i] = c[i] /\ i <= n /\ i \in Nat
  BY <1>1 DEF Ops
<1>4. \A op : \A i \in Ops(d, op) : n + i \in Ops(e, op) /\ e[n + i] = d[i] /\ n + i > n
  BY <1>1 DEF Ops
<1>5. Ops(e, "fn") = Ops(c, "fn")
  BY <1>2, <1>3
<1>6. \A f \in Ops(e, "fn") : f <= n /\ f \in Nat  BY <1>3, <1>5
<1>7. \A op : \A i \in Ops(e, op) : i \in Nat  BY <1>1 DEF Ops
<1>8. Open(e) = Open(c) \cup Named(d, "label")
  <2>1. ASSUME NEW y \in Open(e)  PROVE y \in Open(c) \cup Named(d, "label")
    <3>1. PICK i \in Ops(e, "label") : y = e[i][2] /\ \A f \in Ops(e, "fn") : f < i  BY DEF Open
    <3>2. CASE i \in Ops(c, "label") /\ e[i] = c[i]  BY <3>1, <3>2, <1>5 DEF Open
    <3>3. CASE i - n \in Ops(d, "label") /\ e[i] = d[i - n]  BY <3>1, <3>3 DEF Named
    <3>. QED  BY <1>2, <3>2, <3>3
  <2>2. ASSUME NEW y \in Open(c)  PROVE y \in Open(e)
    <3>1. PICK i \in Ops(c, "label") : y = c[i][2] /\ \A f \in Ops(c, "fn") : f < i  BY DEF Open
    <3>. QED  BY <3>1, <1>3, <1>5 DEF Open
  <2>3. ASSUME NEW y \in Named(d, "label")  PROVE y \in Open(e)
    <3>1. PICK i \in Ops(d, "label") : y = d[i][2]  BY DEF Named
    <3>2. n + i \in Ops(e, "label") /\ e[n + i] = d[i] /\ n + i > n  BY <1>4
    <3>3. \A f \in Ops(e, "fn") : f < n + i  BY <1>1, <1>6, <1>7, <3>2
    <3>. QED  BY <3>1, <3>2, <3>3 DEF Open
  <2>. QED  BY <2>1, <2>2, <2>3
<1>9. ASSUME NEW i \in Ops(e, "jmp") \cup Ops(e, "je")
      PROVE  \/ \E j \in Ops(e, "label") : e[j][2] = e[i][2] /\ \A f \in Ops(e, "fn") : f < i <=> f < j
             \/ e[i][2] \in M /\ \A f \in Ops(e, "fn") : f < i
  <2>. DEFINE A == \E j \in Ops(e, "label") : e[j][2] = e[i][2] /\ \A f \in Ops(e, "fn") : f < i <=> f < j
  <2>1. \* a label of the same function that is printed
        ASSUME e[i][2] \in Open(e), \A f \in Ops(e, "fn") : f < i
        PROVE  A
    <3>1. PICK j \in Ops(e, "label") : e[i][2] = e[j][2] /\ \A f \in Ops(e, "fn") : f < j
      BY <2>1 DEF Open
    <3>. QED  BY <2>1, <3>1
  <2>2. CASE i \in Ops(c, "jmp") \cup Ops(c, "je") /\ e[i] = c[i]
    <3>1. CASE \E j \in Ops(c, "label") : c[j][2] = c[i][2] /\ \A f \in Ops(c, "fn") : f < i <=> f < j
      <4>1. PICK j \in Ops(c, "label") : c[j][2] = c[i][2] /\ \A f \in Ops(c, "fn") : f < i <=> f < j
        BY <3>1
      <4>2. j \in Ops(e, "label") /\ e[j] = c[j]  BY <1>3
      <4>. QED  BY <2>2, <4>1, <4>2, <1>5
    <3>2. CASE c[i][2] \in Named(d, "label") \cup M /\ \A f \in Ops(c, "fn") : f < i
      <4>1. CASE c[i][2] \in M  BY <2>2, <3>2, <4>1, <1>5
      <4>2. CASE c[i][2] \in Named(d, "label")  BY <2>1, <2>2, <3>2, <4>2, <1>5, <1>8
      <4>. QED  BY <3>2, <4>1, <4>2
    <3>. QED  BY <2>2, <3>1, <3>2 DEF Settled
  <2>3. CASE i - n \in Ops(d, "jmp") \cup Ops(d, "je") /\ e[i] = d[i - n] /\ i > n
    <3>1. e[i][2] \in Jumped(d)  BY <2>3 DEF Jumped, Named
    <3>2. \A f \in Ops(e, "fn") : f < i  BY <2>3, <1>1, <1>6, <1>7
    <3>3. e[i][2] \in Open(e) \cup M  BY <3>1, <1>8
    <3>. QED  BY <2>1, <3>2, <3>3
  <2>. QED  BY <1>2, <2>2, <2>3
<1>10. Settled(e, M)  BY <1>9 DEF Settled
<1>. QED  BY <1>8, <1>10 DEF e

\* Text that may begin a function, when no jump waits for its label.
LEMMA SettleFunction ==
  ASSUME NEW c, NEW d, IsSeq(c), IsSeq(d), NEW M,
         Settled(c, {}), Jumped(d) = {}
  PROVE  Settled(c \o d, M)
<1>. DEFINE e == c \o d
            n == Len(c)
            m == Len(d)
<1>1. /\ IsSeq(e) /\ Len(e) = n + m /\ n \in Nat /\ m \in Nat
      /\ DOMAIN c = 1..n /\ DOMAIN d = 1..m /\ DOMAIN e = 1..n + m
      /\ \A i \in 1..n : e[i] = c[i]
      /\ \A i \in 1..m : e[n + i] = d[i]
  BY Concat, SeqFacts
<1>. HIDE DEF e, n, m
<1>2. \A op : \A i \in Ops(e, op) :
        \/ i \in Ops(c, op) /\ e[i] = c[i]
        \/ i - n \in Ops(d, op) /\ e[i] = d[i - n] /\ i > n
  <2>1. ASSUME NEW i \in 1..n + m
        PROVE  i \in 1..n \/ (i - n \in 1..m /\ n + (i - n) = i /\ i > n)
    BY <1>1
  <2>. QED  BY <2>1, <1>1 DEF Ops
<1>3. \A op : \A i \in Ops(c, op) : i \in Ops(e, op) /\ e[i] = c[i] /\ i <= n /\ i \in Nat
  BY <1>1 DEF Ops
<1>4. Ops(d, "jmp") = {} /\ Ops(d, "je") = {}  BY DEF Jumped, Named
<1>5. ASSUME NEW i \in Ops(e, "jmp") \cup Ops(e, "je")
      PROVE  \E j \in Ops(e, "label") : e[j][2] = e[i][2] /\ \A f \in Ops(e, "fn") : f < i <=> f < j
  <2>1. i \in Ops(c, "jmp") \cup Ops(c, "je") /\ e[i] = c[i] /\ i <= n /\ i \in Nat
    BY <1>2, <1>3, <1>4
  <2>2. PICK j \in Ops(c, "label") : c[j][2] = c[i][2] /\ \A f \in Ops(c, "fn") : f < i <=> f < j
    BY <2>1 DEF Settled
  <2>3. j \in Ops(e, "label") /\ e[j] = c[j] /\ j <= n /\ j \in Nat  BY <1>3
  <2>4. ASSUME NEW f \in Ops(e, "fn")  PROVE f < i <=> f < j
    <3>1. CASE f \in Ops(c, "fn")  BY <2>2, <3>1
    <3>2. CASE f > n
      <4>1. f \in Nat  BY <1>1 DEF Ops
      <4>. QED  BY <2>1, <2>3, <3>2, <4>1, <1>1
    <3>. QED  BY <1>2, <3>1, <3>2
  <2>. QED  BY <2>1, <2>2, <2>3, <2>4
<1>6. Settled(e, M)  BY <1>5 DEF Settled
<1>. QED  BY <1>6 DEF e

-----------------------------------------------------------------------------
(* The text and the work fit together. *)

Before(n) == {"begin", "end", "else"} \X (0..n - 1)

\* With the text c, the work q and labelidx n, the trees T and the symbols U.
Fitting(c, q, n, T, U) ==
  /\ IsSeq(c) /\ IsSeq(q) /\ n \in Nat
  /\ \A i \in DOMAIN q : Part(q[i], T, U) \/ (Callable(q[i], T) /\ Tail(q) = <<>>)
  /\ Used(c) \subseteq U
  /\ Distinct(c) /\ Apart(q) /\ Named(c, "label") \cap ToCome(q, "label") = {}
  /\ Named(c, "label") \cup ToCome(q, "label") \subseteq Before(n)
  /\ Settled(c, ToCome(q, "label"))
  /\ JumpsToCome(q) \subseteq Open(c) \cup ToCome(q, "label")
  /\ Starts(q)

\* The labels of a call are new, and are not any more after it.
LEMMA NewLabels ==
  ASSUME NEW n \in Nat
  PROVE  Own(n) \cap Before(n) = {} /\ Own(n) \cup Before(n) \subseteq Before(n + 1)
BY DEF Own, Before

\* No function begins in work without one.
LEMMA StartsNot ==
  ASSUME NEW q, NoFunction(q)
  PROVE  Starts(q)
BY DEF NoFunction, Starts

\* Nothing is left.
LEMMA NoWork ==
  /\ IsSeq(<<>>) /\ Apart(<<>>) /\ Starts(<<>>) /\ NoFunction(<<>>)
  /\ \A op : ToCome(<<>>, op) = {}
  /\ JumpsToCome(<<>>) = {}
<1>1. IsSeq(<<>>)  BY Tuple
<1>2. DOMAIN <<>> = {}  OBVIOUS
<1>3. \A op : ToCome(<<>>, op) = {}  BY <1>2 DEF ToCome
<1>. QED  BY <1>1, <1>2, <1>3 DEF Apart, Starts, NoFunction, JumpsToCome

\* A call of gen().
LEMMA FittingCall ==
  ASSUME NEW T, NEW G, NEW L, Closed(T, G, L), NEW c, NEW q, NEW n,
         Fitting(c, q, n, T, Symbols(G, L)),
         q # <<>>, Head(q).kind \notin {"ASM", "ERROR", "NULL"}
  PROVE  /\ Fitting(c, gen(Head(q), n) \o Tail(q), n + 1, T, Symbols(G, L))
         /\ ToCome(q, "data") \subseteq ToCome(gen(Head(q), n) \o Tail(q), "data")
<1>. DEFINE U == Symbols(G, L)
            h == Head(q)
            t == Tail(q)
            p == gen(h, n)
            r == p \o t
<1>. HIDE DEF U
<1>0. n \in Nat /\ IsSeq(q) /\ IsSeq(c)  BY DEF Fitting, U
<1>1. /\ IsSeq(t) /\ 1 \in DOMAIN q /\ h = q[1]
      /\ \A i \in DOMAIN t : i + 1 \in DOMAIN q /\ i + 1 # 1 /\ t[i] = q[i + 1]
      /\ \A op : ToCome(q, op) = Named(Prefix(h), op) \cup ToCome(t, op)
      /\ JumpsToCome(q) = Jumped(Prefix(h)) \cup JumpsToCome(t)
      /\ Apart(t) /\ NoFunction(t)
  BY <1>0, WorkTail DEF Fitting, U
<1>2. Callable(h, T)
  <2>1. h # NoNode  BY DEF NoNode
  <2>. QED  BY <1>1, <2>1 DEF Fitting, U, Part, Optional, Callable
<1>3. /\ Called(p, n, T, U)
      /\ Named(Prefix(h), "data") \subseteq ToCome(p, "data")
      /\ h.kind = "FUNCDEF" => ToCome(p, "label") = {} /\ JumpsToCome(p) = {} /\ Starts(p)
      /\ h.kind # "FUNCDEF" => NoFunction(p)
  BY <1>2, Calls DEF U
<1>4. Named(Prefix(h), "label") = {} /\ Jumped(Prefix(h)) = {}
  <2>1. \A x : Plain(<<<<"data", x>>>>)  BY PlainTexts DEF Marks
  <2>2. Prefix(h) = <<>> \/ \E x : Prefix(h) = <<<<"data", x>>>>  BY DEF Prefix
  <2>. HIDE DEF h
  <2>. QED  BY <2>1, <2>2, PlainTexts, PlainText
<1>. HIDE DEF h, t, p
<1>5. IsSeq(p) /\ Apart(p) /\ ToCome(p, "label") \subseteq Own(n)
      /\ JumpsToCome(p) \subseteq ToCome(p, "label")
      /\ \A i \in DOMAIN p : Part(p[i], T, U)
  BY <1>3 DEF Called
<1>6. ToCome(t, "label") = ToCome(q, "label") /\ JumpsToCome(t) = JumpsToCome(q)
  BY <1>1, <1>4
<1>7. /\ Named(c, "label") \cup ToCome(q, "label") \subseteq Before(n)
      /\ Named(c, "label") \cap ToCome(q, "label") = {}
      /\ Used(c) \subseteq U /\ Distinct(c)
      /\ Settled(c, ToCome(q, "label"))
      /\ JumpsToCome(q) \subseteq Open(c) \cup ToCome(q, "label")
  BY DEF Fitting, U
<1>8. /\ IsSeq(r)
      /\ \A op : ToCome(r, op) = ToCome(p, op) \cup ToCome(t, op)
      /\ JumpsToCome(r) = JumpsToCome(p) \cup JumpsToCome(t)
      /\ ToCome(p, "label") \cap ToCome(t, "label") = {} => Apart(r)
      /\ NoFunction(p) => NoFunction(r)
      /\ \A i \in DOMAIN r : (\E j \in DOMAIN p : r[i] = p[j]) \/ \E j \in DOMAIN t : r[i] = t[j]
  <2>1. \A i \in DOMAIN r : (\E j \in DOMAIN p : r[i] = p[j]) \/ \E j \in DOMAIN t : r[i] = t[j]
    BY <1>1, <1>5, ConcatItems
  <2>. QED  BY <1>1, <1>5, <2>1, WorkConcat
<1>9. Own(n) \cap Before(n) = {} /\ Own(n) \cup Before(n) \subseteq Before(n + 1)
  BY <1>0, NewLabels
<1>10. h.kind = "FUNCDEF" => t = <<>>
  <2>1. SUFFICES ASSUME h.kind = "FUNCDEF"  PROVE t = <<>>
    OBVIOUS
  <2>2. h \notin Optional(T)  BY <2>1, Shapes DEF Unary, Pairs, Binary, Optional, NoNode
  <2>3. ~Part(h, T, U)  BY <2>1, <2>2 DEF Part
  <2>. QED  BY <2>3, <1>1 DEF Fitting, t, U
<1>11. Starts(r)
  <2>1. CASE h.kind = "FUNCDEF"
    <3>1. r = p
      <4>1. PICK S : p \in Seq(S)  BY <1>5 DEF IsSeq
      <4>. QED  BY <2>1, <1>10, <4>1
    <3>. QED  BY <2>1, <3>1, <1>3
  <2>2. CASE h.kind # "FUNCDEF"
    BY <2>2, <1>3, <1>8, StartsNot
  <2>. QED  BY <2>1, <2>2
<1>. HIDE DEF r
<1>12. ASSUME NEW i \in DOMAIN r  PROVE Part(r[i], T, U)
  <2>1. CASE \E j \in DOMAIN p : r[i] = p[j]  BY <2>1, <1>5
  <2>2. CASE \E j \in DOMAIN t : r[i] = t[j]
    <3>1. PICK j \in DOMAIN t : r[i] = t[j]  BY <2>2
    <3>2. t # <<>>
      <4>1. CASE t = <<>>  BY <4>1, <3>1
      <4>. QED  BY <4>1
    <3>3. \A k \in DOMAIN q : Part(q[k], T, U)  BY <3>2 DEF Fitting, t, U
    <3>. QED  BY <3>1, <3>3, <1>1
  <2>. QED  BY <2>1, <2>2, <1>8
<1>13. Named(c, "label") \cap ToCome(r, "label") = {} /\ Apart(r)
       /\ Named(c, "label") \cup ToCome(r, "label") \subseteq Before(n + 1)
  BY <1>5, <1>6, <1>7, <1>8, <1>9
<1>14. Settled(c, ToCome(r, "label"))
  <2>1. ToCome(q, "label") \subseteq ToCome(r, "label")  BY <1>6, <1>8
  <2>. QED  BY <2>1, <1>7 DEF Settled
<1>15. JumpsToCome(r) \subseteq Open(c) \cup ToCome(r, "label")
  BY <1>5, <1>6, <1>7, <1>8
<1>16. n + 1 \in Nat  BY <1>0
<1>17. Fitting(c, r, n + 1, T, U)
  BY <1>0, <1>7, <1>8, <1>11, <1>12, <1>13, <1>14, <1>15, <1>16 DEF Fitting
<1>18. ToCome(q, "data") \subseteq ToCome(r, "data")
  BY <1>1, <1>3, <1>8
<1>. QED  BY <1>17, <1>18 DEF r, p, h, t, U

\* The text in front is printed.
LEMMA FittingText ==
  ASSUME NEW T, NEW U, NEW c, NEW q, NEW n, Fitting(c, q, n, T, U),
         q # <<>>, IsSeq(Prefix(Head(q))), Used(Prefix(Head(q))) \subseteq U
  PROVE  /\ Fitting(c \o Prefix(Head(q)), Tail(q), n, T, U)
         /\ \A op : Named(c, op) \cup ToCome(q, op)
                      = Named(c \o Prefix(Head(q)), op) \cup ToCome(Tail(q), op)
<1>. DEFINE d == Prefix(Head(q))
            t == Tail(q)
            e == c \o d
<1>0. /\ IsSeq(c) /\ IsSeq(q) /\ n \in Nat /\ Used(c) \subseteq U
      /\ Distinct(c) /\ Apart(q) /\ Named(c, "label") \cap ToCome(q, "label") = {}
      /\ Named(c, "label") \cup ToCome(q, "label") \subseteq Before(n)
      /\ Settled(c, ToCome(q, "label"))
      /\ JumpsToCome(q) \subseteq Open(c) \cup ToCome(q, "label")
      /\ Starts(q)
  BY DEF Fitting
<1>1. /\ IsSeq(t) /\ 1 \in DOMAIN q /\ Head(q) = q[1]
      /\ \A i \in DOMAIN t : i + 1 \in DOMAIN q /\ i + 1 # 1 /\ t[i] = q[i + 1]
      /\ \A op : ToCome(q, op) = Named(d, op) \cup ToCome(t, op)
      /\ JumpsToCome(q) = Jumped(d) \cup JumpsToCome(t)
      /\ Apart(t) /\ Distinct(d) /\ Named(d, "label") \cap ToCome(t, "label") = {}
      /\ NoFunction(t)
  BY <1>0, WorkTail
<1>2. Starts(t)  BY <1>1, StartsNot
<1>3. ASSUME Ops(d, "fn") # {}  PROVE ToCome(q, "label") = {} /\ JumpsToCome(q) = {}
  BY <1>0, <1>1, <1>3 DEF Starts
<1>. HIDE DEF d
<1>4. /\ IsSeq(e)
      /\ \A op : Named(e, op) = Named(c, op) \cup Named(d, op)
      /\ Used(e) = Used(c) \cup Used(d)
      /\ Named(c, "label") \cap Named(d, "label") = {} => Distinct(e)
  BY <1>0, <1>1, CodeConcat DEF d
<1>5. Settled(e, ToCome(t, "label"))
      /\ JumpsToCome(t) \subseteq Open(e) \cup ToCome(t, "label")
  <2>0. IsSeq(d)  BY DEF d
  <2>1. CASE Ops(d, "fn") = {}
    <3>. DEFINE M == ToCome(t, "label")
    <3>1. ToCome(q, "label") = Named(d, "label") \cup M  BY <1>1
    <3>. HIDE DEF M
    <3>2. Settled(c, Named(d, "label") \cup M)  BY <3>1, <1>0
    <3>3. Jumped(d) \subseteq Open(c) \cup Named(d, "label") \cup M  BY <3>1, <1>0, <1>1
    <3>4. Settled(e, M) /\ Open(e) = Open(c) \cup Named(d, "label")
      BY <2>0, <2>1, <3>2, <3>3, <1>0, SettleText
    <3>5. JumpsToCome(t) \subseteq Open(e) \cup M  BY <3>1, <3>4, <1>0, <1>1
    <3>. QED  BY <3>4, <3>5 DEF M
  <2>2. CASE Ops(d, "fn") # {}
    <3>1. ToCome(q, "label") = {} /\ JumpsToCome(q) = {}  BY <2>2, <1>3
    <3>2. Jumped(d) = {} /\ JumpsToCome(t) = {} /\ Settled(c, {})  BY <3>1, <1>0, <1>1
    <3>3. \A M : Settled(e, M)  BY <2>0, <3>2, <1>0, SettleFunction
    <3>. QED  BY <3>2, <3>3
  <2>. QED  BY <2>1, <2>2
<1>6. ASSUME NEW i \in DOMAIN t  PROVE Part(t[i], T, U)
  <2>1. t # <<>>
    <3>1. CASE t = <<>>  BY <3>1, <1>6
    <3>. QED  BY <3>1
  <2>2. \A k \in DOMAIN q : Part(q[k], T, U)  BY <2>1 DEF Fitting
  <2>. QED  BY <2>2, <1>1
<1>7. Used(d) \subseteq U  BY DEF d
<1>. HIDE DEF t, e
<1>8. /\ Named(e, "label") \cap ToCome(t, "label") = {} /\ Distinct(e)
      /\ Named(e, "label") \cup ToCome(t, "label") \subseteq Before(n)
      /\ Used(e) \subseteq U
  BY <1>0, <1>1, <1>4, <1>7
<1>9. Fitting(e, t, n, T, U)
  BY <1>0, <1>1, <1>2, <1>4, <1>5, <1>6, <1>8 DEF Fitting
<1>10. \A op : Named(c, op) \cup ToCome(q, op) = Named(e, op) \cup ToCome(t, op)
  BY <1>1, <1>4
<1>. QED  BY <1>9, <1>10 DEF e, d, t

\* New work, when there is none.
LEMMA FittingWork ==
  ASSUME NEW T, NEW U, NEW c, NEW n, Fitting(c, <<>>, n, T, U),
         NEW x, Part(x, T, U) \/ Callable(x, T), Quiet(x)
  PROVE  /\ Fitting(c, <<x>>, n, T, U)
         /\ \A op : ToCome(<<x>>, op) = Named(Prefix(x), op)
<1>. DEFINE q == <<x>>
<1>1. IsSeq(q) /\ q # <<>> /\ DOMAIN q = {1} /\ q[1] = x /\ Head(q) = x /\ Tail(q) = <<>>
  <2>1. IsSeq(q)  BY Tuple
  <2>. QED  BY <2>1
<1>. HIDE DEF q
<1>2. /\ \A op : ToCome(q, op) = Named(Prefix(x), op) \cup ToCome(<<>>, op)
      /\ JumpsToCome(q) = Jumped(Prefix(x)) \cup JumpsToCome(<<>>)
  BY <1>1, WorkTail
<1>3. \A op : ToCome(q, op) = Named(Prefix(x), op)  BY <1>2, NoWork
<1>4. ToCome(q, "label") = {} /\ JumpsToCome(q) = {}  BY <1>2, NoWork DEF Quiet
<1>5. Apart(q) /\ NoFunction(q)  BY <1>1 DEF Apart, NoFunction, Quiet
<1>6. Starts(q)  BY <1>5, StartsNot
<1>7. Fitting(c, q, n, T, U)
  BY <1>1, <1>4, <1>5, <1>6, NoWork DEF Fitting
<1>. QED  BY <1>3, <1>7 DEF q

\* A line printed by main().
LEMMA FittingLine ==
  ASSUME NEW T, NEW U, NEW c, NEW n, Fitting(c, <<>>, n, T, U), NEW x, x[1] \notin Marks
  PROVE  Fitting(c \o <<x>>, <<>>, n, T, U)
<1>. DEFINE d == <<x>>
            q == <<Asm(d)>>
<1>1. Plain(d)
  <2>1. IsSeq(d)  BY Tuple
  <2>. QED  BY <2>1 DEF Plain
<1>. HIDE DEF d
<1>2. Mild(Asm(d), T, U) /\ Prefix(Asm(d)) = d  BY <1>1, TextParts
<1>3. Fitting(c, q, n, T, U)  BY <1>2, FittingWork DEF Mild
<1>4. q # <<>> /\ Head(q) = Asm(d) /\ Tail(q) = <<>>  OBVIOUS
<1>5. IsSeq(d) /\ Used(d) = {}  BY <1>1, PlainText DEF Plain
<1>. HIDE DEF q
<1>6. Fitting(c \o Prefix(Head(q)), Tail(q), n, T, U)
  BY <1>2, <1>3, <1>4, <1>5, FittingText
<1>. QED  BY <1>2, <1>4, <1>6 DEF d

\* What gen() is called with prints no label or jump before it calls gen().
LEMMA CallableQuiet ==
  ASSUME NEW T, NEW G, NEW L, Closed(T, G, L), NEW x, Callable(x, T)
  PROVE  Quiet(x)
<1>1. CASE x \in T  BY <1>1, NodeParts DEF Mild, Optional
<1>2. CASE x \notin T
  <2>1. x.kind \in {"STRUCTREF", "FUNCDEF", "GVARDEF", "LITERAL", "STRUCTDEF", "ADD"}
    BY <1>2 DEF Callable, ZeroedNode
  <2>2. Prefix(x) = <<>> \/ \E y : Prefix(x) = <<<<"data", y>>>>  BY <2>1 DEF Prefix
  <2>3. \A y : Plain(<<<<"data", y>>>>)  BY PlainTexts DEF Marks
  <2>4. Plain(Prefix(x))  BY <2>2, <2>3, PlainTexts
  <2>. QED  BY <2>4, PlainText DEF Quiet
<1>. QED  BY <1>1, <1>2

-----------------------------------------------------------------------------
(* The invariant. *)

Forest == AnyTree(Leaves(Globals, Literals))

\* The symbols whose data gen() was called for.
Visited ==
  IF phase = "literals" THEN { LiteralName(k) : k \in 0..printed - 1 }
  ELSE { LiteralName(k) : k \in Literals }
         \cup { code[i].name : i \in { d \in 1..printed : code[d].kind = "GVARDEF" } }

Unprinted ==
  /\ Len(code) \in Nat /\ Len(literals_def) \in Nat
  /\ phase = "parse" => todo = <<>> /\ printed = 0 /\ labelidx = 0

Consistent ==
  phase \in {"literals", "code", "done"} =>
    /\ IsSeq(code) /\ \A i \in DOMAIN code : Callable(code[i], Forest)
    /\ Fitting(out, todo, labelidx, Forest, Symbols(Globals, Literals))
    /\ Visited \subseteq Named(out, "data") \cup ToCome(todo, "data")
    /\ phase = "literals" => \A i \in DOMAIN todo : todo[i].kind \in {"LITERAL", "ASM"}
    /\ phase = "done" => todo = <<>> /\ printed = Len(code)

PrintInv == TypeOK /\ Unprinted /\ Consistent

\* It says what SymbolsDefined does.
LEMMA Resolved ==
  PrintInv => SymbolsDefined
<1>1. SUFFICES ASSUME PrintInv, phase = "done"
               PROVE  /\ \A i, j \in Instructions("label") : out[i] = out[j] => i = j
                      /\ \A i \in Instructions("jmp") \cup Instructions("je") :
                           \E j \in Instructions("label") : out[j][2] = out[i][2] /\ SameFunction(i, j)
                      /\ \A i \in Instructions("lea") :
                           \E j \in Instructions("data") : out[j][2] = out[i][3]
  BY DEF SymbolsDefined
<1>2. \A op : Instructions(op) = Ops(out, op)  BY DEF Instructions, Ops
<1>3. /\ todo = <<>> /\ printed = Len(code)
      /\ Fitting(out, <<>>, labelidx, Forest, Symbols(Globals, Literals))
      /\ Visited \subseteq Named(out, "data") \cup ToCome(<<>>, "data")
      /\ IsSeq(code)
  BY <1>1 DEF PrintInv, Consistent
<1>4. /\ Distinct(out) /\ Settled(out, {})
      /\ Used(out) \subseteq Symbols(Globals, Literals)
      /\ Visited \subseteq Named(out, "data")
  BY <1>3, NoWork DEF Fitting
<1>5. Symbols(Globals, Literals) \subseteq Visited
  <2>1. DOMAIN code = 1..printed  BY <1>3, SeqFacts
  <2>. QED  BY <1>1, <2>1 DEF Symbols, Globals, Visited
<1>6. \A i, j \in Ops(out, "label") : out[i] = out[j] => i = j  BY <1>4 DEF Distinct
<1>7. ASSUME NEW i \in Ops(out, "jmp") \cup Ops(out, "je")
      PROVE  \E j \in Ops(out, "label") : out[j][2] = out[i][2] /\ SameFunction(i, j)
  <2>1. PICK j \in Ops(out, "label") :
          out[j][2] = out[i][2] /\ \A f \in Ops(out, "fn") : f < i <=> f < j
    BY <1>4 DEF Settled
  <2>. QED  BY <2>1, <1>2 DEF SameFunction
<1>8. ASSUME NEW i \in Ops(out, "lea")
      PROVE  \E j \in Ops(out, "data") : out[j][2] = out[i][3]
  <2>1. out[i][3] \in Named(out, "data")  BY <1>4, <1>5 DEF Used
  <2>. QED  BY <2>1 DEF Named
<1>. QED  BY <1>2, <1>6, <1>7, <1>8

\* It holds at the start.
LEMMA InvInit ==
  PrintInit => PrintInv
<1>1. SUFFICES ASSUME PrintInit  PROVE PrintInv
  OBVIOUS
<1>. USE DEF PrintInit
<1>2. Len(code) = 0 /\ Len(literals_def) = 0  BY <1>1
<1>3. TypeOK  BY <1>1, <1>2, PrintingAssumption DEF TypeOK
<1>. QED  BY <1>1, <1>2, <1>3 DEF PrintInv, Unprinted, Consistent

\* The parser's steps, and its end.
LEMMA InvParse ==
  ASSUME PrintInv, Parse \/ EndProgram
  PROVE  PrintInv'
<1>1. CASE Parse
  <2>1. Unprinted'  BY <1>1 DEF Parse, PrintInv, Unprinted
  <2>2. TypeOK'
    BY <1>1, PrintingAssumption DEF Parse, PrintInv, Unprinted, TypeOK
  <2>3. Consistent'  BY <1>1 DEF Parse, Consistent
  <2>. QED  BY <2>1, <2>2, <2>3 DEF PrintInv
<1>2. CASE EndProgram
  <2>. DEFINE G == Globals
              L == Literals
              leaves == Leaves(G, L)
              T == AnyTree(leaves)
              U == Symbols(G, L)
              x == <<"intel_syntax">>
  <2>1. /\ phase = "parse" /\ phase' = "literals" /\ out' = <<x>>
        /\ code' = code /\ literals_def' = literals_def /\ printed' = 0
        /\ todo' = <<>> /\ labelidx' = 0
        /\ Len(code) \in Nat /\ Len(literals_def) \in Nat /\ code \in Seq(DefinitionNode(StructTypes))
    BY <1>2 DEF EndProgram, PrintInv, Unprinted
  <2>2. TypeOK'  BY <2>1 DEF TypeOK, PrintInv
  <2>3. Unprinted'  BY <2>1 DEF Unprinted
  <2>4. Globals' = G /\ Literals' = L  BY <2>1 DEF Globals, Literals
  <2>5. Trees(leaves)[Height] \subseteq T  BY AllTrees
  <2>. HIDE DEF G, L
  <2>6. IsSeq(code) /\ \A i \in DOMAIN code : Callable(code[i], T)
    <3>. DEFINE D == DefinitionNode(StructTypes)
    <3>1. \A i \in DOMAIN code : code[i] \in D  BY <2>1
    <3>2. ASSUME NEW d \in D  PROVE Callable(d, T)
      <4>1. D = [kind : {"FUNCDEF"}, name : STRING, params : UpToSix(Int), offset : Nat,
                 body : Trees(leaves)[Height]]
                \cup [kind : {"GVARDEF"}, name : STRING] \cup [kind : {"STRUCTDEF"}] \cup {ZeroedNode}
        BY DEF DefinitionNode, Leaves, G, L
      <4>2. CASE d \in [kind : {"FUNCDEF"}, name : STRING, params : UpToSix(Int), offset : Nat,
                        body : Trees(leaves)[Height]]
        BY <4>2, <2>5 DEF Callable, IsSeq, UpToSix
      <4>3. CASE d \in [kind : {"GVARDEF"}, name : STRING] \cup [kind : {"STRUCTDEF"}]
        BY <4>3 DEF Callable
      <4>4. CASE d = ZeroedNode  BY <4>4 DEF Callable
      <4>. QED  BY <4>1, <4>2, <4>3, <4>4
    <3>. HIDE DEF D
    <3>. QED  BY <2>1, <3>1, <3>2 DEF IsSeq
  <2>7. Fitting(<<>>, <<>>, 0, T, U)
    <3>1. Plain(<<>>)  BY PlainTexts
    <3>2. DOMAIN <<>> = {}  OBVIOUS
    <3>3. Settled(<<>>, {})  BY <3>2 DEF Settled, Ops
    <3>4. Named(<<>>, "label") = {} /\ Used(<<>>) = {} /\ Distinct(<<>>)  BY <3>1, PlainText
    <3>. QED  BY <3>2, <3>3, <3>4, NoWork DEF Fitting
  <2>8. Fitting(<<x>>, <<>>, 0, T, U)
    <3>1. x[1] \notin Marks  BY DEF Marks
    <3>. HIDE DEF x, T, U
    <3>2. Fitting(<<>> \o <<x>>, <<>>, 0, T, U)  BY <2>7, <3>1, FittingLine
    <3>3. <<>> \o <<x>> = <<x>>  OBVIOUS
    <3>. QED  BY <3>2, <3>3
  <2>9. Visited' = {}  BY <2>1 DEF Visited
  <2>10. Forest' = T /\ Symbols(Globals', Literals') = U  BY <2>4 DEF Forest
  <2>. HIDE DEF T, U, x
  <2>11. DOMAIN <<>> = {}  OBVIOUS
  <2>12. Consistent'
    BY <2>1, <2>4, <2>6, <2>8, <2>9, <2>10, <2>11 DEF Consistent
  <2>. QED  BY <2>2, <2>3, <2>12 DEF PrintInv
<1>. QED  BY <1>1, <1>2

\* What a step of main() or gen() has to keep.
LEMMA InvKeeps ==
  ASSUME PrintInv, phase \in {"literals", "code"},
         code' = code, literals_def' = literals_def,
         phase' \in {"literals", "code", "done", "failed", "overrun"},
         labelidx' \in Nat,
         printed' \in 0..(IF phase' = "literals" THEN Len(literals_def) ELSE Len(code)),
         phase' \in {"literals", "code", "done"} =>
           /\ Fitting(out', todo', labelidx', Forest, Symbols(Globals, Literals))
           /\ Visited' \subseteq Named(out', "data") \cup ToCome(todo', "data")
           /\ phase' = "literals" => \A i \in DOMAIN todo' : todo'[i].kind \in {"LITERAL", "ASM"}
           /\ phase' = "done" => todo' = <<>> /\ printed' = Len(code)
  PROVE  PrintInv'
<1>1. Globals' = Globals /\ Literals' = Literals /\ Forest' = Forest
  <2>1. Globals' = Globals /\ Literals' = Literals  BY DEF Globals, Literals
  <2>. QED  BY <2>1 DEF Forest
<1>2. TypeOK'  BY DEF TypeOK, PrintInv
<1>3. Unprinted'  BY DEF Unprinted, PrintInv
<1>4. IsSeq(code) /\ \A i \in DOMAIN code : Callable(code[i], Forest)
  BY DEF PrintInv, Consistent
<1>5. Consistent'  BY <1>1, <1>4 DEF Consistent
<1>. QED  BY <1>2, <1>3, <1>5 DEF PrintInv

\* The steps of gen().
LEMMA InvGen ==
  ASSUME PrintInv, Call \/ CallNull \/ PrintAsm \/ Error
  PROVE  PrintInv'
<1>. DEFINE T == Forest
            G == Globals
            L == Literals
            U == Symbols(G, L)
            h == Head(todo)
            t == Tail(todo)
<1>1. /\ phase \in {"literals", "code"} /\ todo # <<>>
      /\ code' = code /\ literals_def' = literals_def /\ printed' = printed
  BY DEF Call, CallNull, PrintAsm, Error, Printing
<1>2. /\ Fitting(out, todo, labelidx, T, U)
      /\ Visited \subseteq Named(out, "data") \cup ToCome(todo, "data")
      /\ phase = "literals" => \A i \in DOMAIN todo : todo[i].kind \in {"LITERAL", "ASM"}
      /\ labelidx \in Nat
      /\ printed \in 0..(IF phase = "literals" THEN Len(literals_def) ELSE Len(code))
  BY <1>1 DEF PrintInv, Consistent, TypeOK
<1>3. Closed(T, G, L)  BY AllTrees DEF Forest, Closed
<1>4. /\ IsSeq(todo) /\ IsSeq(out) /\ IsSeq(t) /\ 1 \in DOMAIN todo /\ h = todo[1]
      /\ \A i \in DOMAIN t : i + 1 \in DOMAIN todo /\ t[i] = todo[i + 1]
  <2>1. IsSeq(todo) /\ IsSeq(out)  BY <1>2 DEF Fitting
  <2>. QED  BY <2>1, <1>1, WorkTail
<1>5. phase' = phase => Visited' = Visited
  BY <1>1 DEF Visited, Literals
<1>. HIDE DEF T, G, L, U
<1>6. CASE Call
  <2>. DEFINE p == gen(h, labelidx)
  <2>1. /\ h.kind \notin {"ASM", "ERROR", "NULL"} /\ labelidx' = labelidx + 1 /\ out' = out
        /\ phase' = phase /\ todo' = p \o t
    BY <1>6 DEF Call
  <2>2. /\ Fitting(out, p \o t, labelidx + 1, T, U)
        /\ ToCome(todo, "data") \subseteq ToCome(p \o t, "data")
    BY <1>1, <1>2, <1>3, <2>1, FittingCall DEF U
  <2>3. ASSUME phase = "literals"
        PROVE  \A i \in DOMAIN (p \o t) : (p \o t)[i].kind \in {"LITERAL", "ASM"}
    <3>1. h.kind = "LITERAL"  BY <2>1, <2>3, <1>2, <1>4
    <3>2. p = Data(LiteralName(h.index))  BY <3>1, GenCases
    <3>3. IsSeq(p) /\ \A i \in DOMAIN p : p[i].kind = "ASM"
      <4>1. ASSUME NEW x  PROVE IsSeq(<<x>>) /\ DOMAIN <<x>> = {1} /\ <<x>>[1] = x
        <5>1. IsSeq(<<x>>)  BY Tuple
        <5>. QED  BY <5>1
      <4>2. PICK c : p = <<Asm(c)>>  BY <3>2 DEF Data
      <4>. QED  BY <4>1, <4>2 DEF Asm
    <3>. HIDE DEF p, t
    <3>4. \A i \in DOMAIN (p \o t) : \/ \E j \in DOMAIN p : (p \o t)[i] = p[j]
                                     \/ \E j \in DOMAIN t : (p \o t)[i] = t[j]
      <4>1. IsSeq(p) /\ IsSeq(t)  BY <3>3, <1>4
      <4>. QED  BY <4>1, ConcatItems
    <3>5. \A j \in DOMAIN t : t[j].kind \in {"LITERAL", "ASM"}  BY <2>3, <1>2, <1>4
    <3>. QED  BY <3>3, <3>4, <3>5
  <2>. HIDE DEF p, t
  <2>4. /\ Fitting(out', todo', labelidx', T, U)
        /\ Visited' \subseteq Named(out', "data") \cup ToCome(todo', "data")
        /\ phase' = "literals" => \A i \in DOMAIN todo' : todo'[i].kind \in {"LITERAL", "ASM"}
        /\ labelidx' \in Nat
    BY <2>1, <2>2, <2>3, <1>2, <1>5
  <2>. QED  BY <1>1, <1>2, <2>1, <2>4, InvKeeps DEF T, U, G, L
<1>7. ASSUME CallNull \/ PrintAsm  PROVE PrintInv'
  <2>. DEFINE c == Prefix(h)
  <2>1. /\ IsSeq(c) /\ Used(c) \subseteq U
        /\ out' = out \o c /\ todo' = t /\ phase' = phase /\ labelidx' = labelidx
    <3>1. CASE CallNull
      <4>1. h.kind = "NULL" /\ out' = out /\ todo' = t /\ phase' = phase /\ labelidx' = labelidx
        BY <3>1 DEF CallNull
      <4>2. c = <<>>  BY <4>1 DEF Prefix
      <4>3. Used(<<>>) = {} /\ IsSeq(<<>>)  BY PlainTexts, PlainText DEF Plain
      <4>4. out \o <<>> = out
        <5>1. PICK S : out \in Seq(S)  BY <1>4 DEF IsSeq
        <5>. QED  BY <5>1
      <4>. QED  BY <4>1, <4>2, <4>3, <4>4
    <3>2. CASE PrintAsm
      <4>1. h.kind = "ASM" /\ out' = out \o h.code /\ todo' = t /\ phase' = phase /\ labelidx' = labelidx
        BY <3>2 DEF PrintAsm
      <4>2. c = h.code  BY <4>1 DEF Prefix
      <4>3. h \notin Optional(T)
        <5>1. h \notin T  BY <4>1, <1>3, Shapes DEF Unary, Pairs, Binary
        <5>2. h # NoNode  BY <4>1 DEF NoNode
        <5>. QED  BY <5>1, <5>2 DEF Optional
      <4>4. Part(h, T, U) \/ Callable(h, T)  BY <1>2, <1>4 DEF Fitting
      <4>5. IsSeq(h.code) /\ Used(h.code) \subseteq U  BY <4>1, <4>3, <4>4 DEF Part, Callable, Optional, ZeroedNode
      <4>. QED  BY <4>1, <4>2, <4>5
    <3>. QED  BY <1>7, <3>1, <3>2
  <2>. HIDE DEF t
  <2>2. /\ Fitting(out \o c, t, labelidx, T, U)
        /\ Named(out, "data") \cup ToCome(todo, "data") = Named(out \o c, "data") \cup ToCome(t, "data")
    BY <1>1, <1>2, <2>1, FittingText DEF t
  <2>3. /\ Fitting(out', todo', labelidx', T, U)
        /\ Visited' \subseteq Named(out', "data") \cup ToCome(todo', "data")
        /\ phase' = "literals" => \A i \in DOMAIN todo' : todo'[i].kind \in {"LITERAL", "ASM"}
        /\ labelidx' \in Nat
    BY <2>1, <2>2, <1>2, <1>4, <1>5
  <2>. QED  BY <1>1, <1>2, <2>1, <2>3, InvKeeps DEF T, U, G, L
<1>8. CASE Error
  <2>1. h.kind = "ERROR" /\ phase' = "failed" /\ labelidx' = labelidx  BY <1>8 DEF Error
  <2>2. phase = "code"  BY <2>1, <1>1, <1>2, <1>4
  <2>. QED  BY <1>1, <1>2, <2>1, <2>2, InvKeeps
<1>. QED  BY <1>6, <1>7, <1>8

\* The steps of main().
LEMMA InvMain ==
  ASSUME PrintInv, PrintLiteral \/ EndLiterals \/ PrintDefinition \/ Finish
  PROVE  PrintInv'
<1>. DEFINE T == Forest
            G == Globals
            L == Literals
            U == Symbols(G, L)
<1>1. /\ phase \in {"literals", "code"} /\ todo = <<>>
      /\ code' = code /\ literals_def' = literals_def /\ labelidx' = labelidx
  BY DEF PrintLiteral, EndLiterals, PrintDefinition, Finish
<1>2. /\ Fitting(out, <<>>, labelidx, T, U)
      /\ Visited \subseteq Named(out, "data")
      /\ labelidx \in Nat /\ Len(code) \in Nat /\ Len(literals_def) \in Nat
      /\ printed \in 0..(IF phase = "literals" THEN Len(literals_def) ELSE Len(code))
      /\ IsSeq(code) /\ \A i \in DOMAIN code : Callable(code[i], T)
  BY <1>1, NoWork DEF PrintInv, Consistent, Unprinted, TypeOK
<1>3. Closed(T, G, L)  BY AllTrees DEF Forest, Closed
<1>4. Literals' = L  BY <1>1 DEF Literals
<1>. HIDE DEF T, G, U
<1>5. CASE PrintLiteral
  <2>. DEFINE x == [kind |-> "LITERAL", index |-> printed]
  <2>1. /\ phase = "literals" /\ phase' = "literals" /\ todo' = <<x>> /\ out' = out
        /\ printed' = printed + 1 /\ printed < Len(literals_def)
    BY <1>5 DEF PrintLiteral
  <2>2. Callable(x, T) /\ x.kind = "LITERAL" /\ Prefix(x) = <<<<"data", LiteralName(printed)>>>>
    BY DEF Callable, Prefix
  <2>. HIDE DEF x
  <2>3. Quiet(x)  BY <2>2, <1>3, CallableQuiet
  <2>4. Fitting(out, <<x>>, labelidx, T, U) /\ ToCome(<<x>>, "data") = Named(Prefix(x), "data")
    BY <1>2, <2>2, <2>3, FittingWork
  <2>5. LiteralName(printed) \in ToCome(<<x>>, "data")
    <3>. DEFINE d == <<<<"data", LiteralName(printed)>>>>
    <3>1. DOMAIN d = {1} /\ d[1] = <<"data", LiteralName(printed)>>  OBVIOUS
    <3>. HIDE DEF d
    <3>2. LiteralName(printed) \in Named(d, "data")  BY <3>1 DEF Named, Ops
    <3>. QED  BY <2>2, <2>4, <3>2 DEF d
  <2>6. Visited' \subseteq Visited \cup {LiteralName(printed)}
    <3>1. printed \in Nat  BY <1>2, <2>1
    <3>2. 0..printed' - 1 \subseteq (0..printed - 1) \cup {printed}  BY <2>1, <3>1
    <3>. QED  BY <2>1, <3>2 DEF Visited
  <2>7. DOMAIN <<x>> = {1} /\ <<x>>[1] = x  OBVIOUS
  <2>8. /\ Fitting(out', todo', labelidx', T, U)
        /\ Visited' \subseteq Named(out', "data") \cup ToCome(todo', "data")
        /\ \A i \in DOMAIN todo' : todo'[i].kind \in {"LITERAL", "ASM"}
        /\ labelidx' \in Nat
        /\ printed' \in 0..Len(literals_def)
    BY <1>1, <1>2, <2>1, <2>2, <2>4, <2>5, <2>6, <2>7
  <2>. QED  BY <1>1, <2>1, <2>8, InvKeeps DEF T, U, G
<1>6. CASE EndLiterals
  <2>. DEFINE x == <<"globl", "main">>
  <2>1. /\ phase = "literals" /\ phase' \in {"overrun", "code"} /\ todo' = <<>>
        /\ out' = Append(out, x) /\ printed' = 0 /\ printed = Len(literals_def)
    BY <1>1, <1>6 DEF EndLiterals
  <2>2. x[1] \notin Marks  BY DEF Marks
  <2>. HIDE DEF x
  <2>3. IsSeq(out)  BY <1>2 DEF Fitting
  <2>4. Append(out, x) = out \o <<x>>
    <3>1. PICK S : out \in Seq(S)  BY <2>3 DEF IsSeq
    <3>2. out \in Seq(S \cup {x})  BY <3>1
    <3>. QED  BY <3>2
  <2>5. Fitting(out \o <<x>>, <<>>, labelidx, T, U)  BY <1>2, <2>2, FittingLine
  <2>6. Named(out, "data") \subseteq Named(out \o <<x>>, "data")
    <3>1. IsSeq(<<x>>)  BY Tuple
    <3>. QED  BY <2>3, <3>1, CodeConcat
  <2>7. phase' = "code" => Visited' \subseteq Visited
    <3>1. 1..printed' = {}  BY <2>1
    <3>2. L = 0..printed - 1  BY <2>1 DEF Literals
    <3>. QED  BY <2>1, <3>1, <3>2, <1>4 DEF Visited
  <2>8. DOMAIN <<>> = {}  OBVIOUS
  <2>9. /\ Fitting(out', todo', labelidx', T, U)
        /\ phase' = "code" => Visited' \subseteq Named(out', "data") \cup ToCome(todo', "data")
        /\ labelidx' \in Nat /\ printed' \in 0..Len(code)
    BY <1>1, <1>2, <2>1, <2>4, <2>5, <2>6, <2>7
  <2>. QED  BY <1>1, <2>1, <2>9, InvKeeps DEF T, U, G
<1>7. CASE PrintDefinition
  <2>. DEFINE x == code[printed + 1]
  <2>1. /\ phase = "code" /\ phase' = "code" /\ todo' = <<x>> /\ out' = out
        /\ printed' = printed + 1 /\ printed < Len(code)
    BY <1>7 DEF PrintDefinition
  <2>2. printed \in Nat /\ printed + 1 \in DOMAIN code
    <3>1. DOMAIN code = 1..Len(code)  BY <1>2, SeqFacts
    <3>. QED  BY <3>1, <1>2, <2>1
  <2>3. Callable(x, T)  BY <1>2, <2>2
  <2>4. x.kind = "GVARDEF" => Prefix(x) = <<<<"data", x.name>>>>  BY DEF Prefix
  <2>. HIDE DEF x
  <2>5. Quiet(x)  BY <2>3, <1>3, CallableQuiet
  <2>6. Fitting(out, <<x>>, labelidx, T, U) /\ ToCome(<<x>>, "data") = Named(Prefix(x), "data")
    BY <1>2, <2>3, <2>5, FittingWork
  <2>7. x.kind = "GVARDEF" => x.name \in ToCome(<<x>>, "data")
    <3>. DEFINE d == <<<<"data", x.name>>>>
    <3>1. DOMAIN d = {1} /\ d[1] = <<"data", x.name>>  OBVIOUS
    <3>. HIDE DEF d
    <3>2. x.name \in Named(d, "data")  BY <3>1 DEF Named, Ops
    <3>. QED  BY <2>4, <2>6, <3>2 DEF d
  <2>8. ASSUME NEW y \in Visited'  PROVE y \in Visited \/ (x.kind = "GVARDEF" /\ y = x.name)
    <3>1. 1..printed' \subseteq (1..printed) \cup {printed + 1}  BY <2>1, <2>2
    <3>. QED  BY <2>1, <3>1, <1>1, <1>4 DEF Visited, x
  <2>9. /\ Fitting(out', todo', labelidx', T, U)
        /\ Visited' \subseteq Named(out', "data") \cup ToCome(todo', "data")
        /\ labelidx' \in Nat /\ printed' \in 0..Len(code)
    BY <1>1, <1>2, <2>1, <2>2, <2>6, <2>7, <2>8
  <2>. QED  BY <1>1, <2>1, <2>9, InvKeeps DEF T, U, G
<1>8. CASE Finish
  <2>1. /\ phase = "code" /\ phase' = "done" /\ todo' = <<>> /\ out' = out
        /\ printed' = printed /\ printed = Len(code)
    BY <1>1, <1>8 DEF Finish
  <2>2. Visited' = Visited  BY <1>1, <1>4, <2>1 DEF Visited
  <2>. QED  BY <1>1, <1>2, <2>1, <2>2, InvKeeps DEF T, U, G
<1>. QED  BY <1>5, <1>6, <1>7, <1>8

\* The invariant is inductive.
LEMMA InvStep ==
  ASSUME PrintInv, [Parse \/ EndProgram \/ PrintNext]_printVars
  PROVE  PrintInv'
<1>1. CASE Parse \/ EndProgram  BY <1>1, InvParse
<1>2. CASE Call \/ CallNull \/ PrintAsm \/ Error  BY <1>2, InvGen
<1>3. CASE PrintLiteral \/ EndLiterals \/ PrintDefinition \/ Finish  BY <1>3, InvMain
<1>4. CASE UNCHANGED printVars
  <2>1. Globals' = Globals /\ Literals' = Literals  BY <1>4 DEF printVars, Globals, Literals
  <2>2. Forest' = Forest /\ Visited' = Visited  BY <1>4, <2>1 DEF printVars, Forest, Visited
  <2>. QED
    BY <1>4, <2>1, <2>2 DEF printVars, PrintInv, TypeOK, Unprinted, Consistent
<1>. QED  BY <1>1, <1>2, <1>3, <1>4 DEF PrintNext

\* What every reachable state satisfies.
LEMMA Invariance ==
  PrintSpec => []PrintInv
BY InvInit, InvStep, PTL DEF PrintSpec

-----------------------------------------------------------------------------
(* The theorems. *)

(* main() keeps to its arrays and their order, whatever program() leaves in  *)
(* them: the index of the array that is printed stays in it, and nothing is  *)
(* printed while program() runs.                                             *)
THEOREM TypeCorrect == PrintSpec => []TypeOK
<1>1. PrintInv => TypeOK  BY DEF PrintInv
<1>. QED  BY <1>1, Invariance, PTL

(* When main() is done, the assembler can resolve what gen() has printed for *)
(* any trees: each label is defined once, each jump has its label in the     *)
(* same function, each literal and global that is used has its data.         *)
THEOREM SymbolsResolve == PrintSpec => []SymbolsDefined
BY Resolved, Invariance, PTL
================================================================================
