------------------------------- MODULE StackProofs -------------------------------
(***************************************************************************)
(* Proof that the printed code takes nothing from the stack that it has    *)
(* not pushed (PopsCovered of Printing), for every program.                *)
(*                                                                         *)
(* A state of the stack is given to every place of the text: how many      *)
(* words it holds at least, where a call in the middle of an expression    *)
(* has aligned it, and how far a prologue, an alignment or an epilogue     *)
(* has come.  Each instruction is a relation between the states in front   *)
(* of it and behind it, and so is each part of the work that gen() has     *)
(* still to do: a tree raises the stack by one word.  There are states     *)
(* through all of the text and then all of the work, at any time, because  *)
(* a call of gen() replaces a node by parts whose states begin and end     *)
(* where the node's did, with the heights of the call's own labels chosen  *)
(* to be the height at which it begins.  At the end they go through the    *)
(* whole text, and Depths keeps to their heights.                          *)
(***************************************************************************)
EXTENDS PrintingProofs

-----------------------------------------------------------------------------
(* States of the stack. *)

\* Outside of a function; in its prologue; evaluating; on the way to a call;
\* in an epilogue.
Stages == {"out", "entry", "saved", "framed", "body", "mov", "imm", "cqo", "idiv",
           "leaving", "left"}

\* At least h words, and where the stack was aligned for each call whose
\* arguments are being evaluated.
Stacks == [h : Nat, marks : Seq(Nat), at : Stages]
Stack(h, marks, at) == [h |-> h, marks |-> marks, at |-> at]

Raise(a, n) == Stack(a.h + n, a.marks, a.at)
Stage(a, at) == Stack(a.h, a.marks, at)

\* Between the operators of an expression: behind an alignment, with the two
\* words on the stack that undo it.  Between statements there is none.
Steady ==
  { a \in Stacks : a.at = "body" /\ (a.marks # <<>> => a.h >= a.marks[Len(a.marks)] + 2) }
Level == { a \in Steady : a.marks = <<>> }

\* Aligned, with k words that undo it.
Padded(a, k) == Stack(a.h + k, Append(a.marks, a.h), "body")
Padding == { Padded(a, k) : a \in Steady, k \in {0, 1} }

Outside == Stack(0, <<>>, "out")

\* A state by its fields.
LEMMA StackIs ==
  /\ \A h \in Nat, marks \in Seq(Nat), at \in Stages :
       /\ Stack(h, marks, at) \in Stacks
       /\ Stack(h, marks, at).h = h /\ Stack(h, marks, at).marks = marks
       /\ Stack(h, marks, at).at = at
  /\ \A a \in Stacks : /\ a = Stack(a.h, a.marks, a.at)
                       /\ a.h \in Nat /\ a.marks \in Seq(Nat) /\ a.at \in Stages
  /\ Outside \in Stacks
<1>1. ASSUME NEW h \in Nat, NEW marks \in Seq(Nat), NEW at \in Stages
      PROVE  /\ Stack(h, marks, at) \in Stacks
             /\ Stack(h, marks, at).h = h /\ Stack(h, marks, at).marks = marks
             /\ Stack(h, marks, at).at = at
  BY DEF Stack, Stacks
<1>2. ASSUME NEW a \in Stacks
      PROVE  /\ a = Stack(a.h, a.marks, a.at)
             /\ a.h \in Nat /\ a.marks \in Seq(Nat) /\ a.at \in Stages
  BY DEF Stack, Stacks
<1>3. Outside \in Stacks
  <2>1. 0 \in Nat /\ <<>> \in Seq(Nat) /\ "out" \in Stages  BY DEF Stages
  <2>. QED  BY <2>1, <1>1 DEF Outside
<1>. QED  BY <1>1, <1>2, <1>3

\* Words on top of a state.
LEMMA RaiseIs ==
  ASSUME NEW a \in Stacks, NEW n \in Nat
  PROVE  /\ Raise(a, n) \in Stacks /\ Raise(a, n).h = a.h + n
         /\ Raise(a, n).marks = a.marks /\ Raise(a, n).at = a.at
         /\ Raise(a, 0) = a
         /\ \A m \in Nat : Raise(Raise(a, m), n) = Raise(a, m + n)
<1>1. a.h \in Nat /\ a.marks \in Seq(Nat) /\ a.at \in Stages /\ a = Stack(a.h, a.marks, a.at)
  BY StackIs
<1>2. ASSUME NEW m \in Nat
      PROVE  /\ Raise(a, m) \in Stacks /\ Raise(a, m).h = a.h + m
             /\ Raise(a, m).marks = a.marks /\ Raise(a, m).at = a.at
  <2>1. a.h + m \in Nat  BY <1>1
  <2>. QED  BY <1>1, <2>1, StackIs DEF Raise
<1>3. Raise(a, 0) = a
  <2>1. a.h + 0 = a.h  BY <1>1
  <2>. QED  BY <1>1, <2>1 DEF Raise
<1>4. ASSUME NEW m \in Nat  PROVE Raise(Raise(a, m), n) = Raise(a, m + n)
  <2>. DEFINE b == Raise(a, m)
  <2>1. b.h = a.h + m /\ b.marks = a.marks /\ b.at = a.at  BY <1>2
  <2>. HIDE DEF b
  <2>2. b.h + n = a.h + (m + n)  BY <2>1, <1>1
  <2>3. Raise(b, n) = Raise(a, m + n)  BY <2>1, <2>2 DEF Raise
  <2>. QED  BY <2>3 DEF b
<1>. QED  BY <1>2, <1>3, <1>4

\* The steady states stay so.
LEMMA SteadyIs ==
  ASSUME NEW a \in Steady
  PROVE  /\ a \in Stacks /\ a.at = "body" /\ Raise(a, 0) = a
         /\ \A n \in Nat : Raise(a, n) \in Steady /\ Raise(a, n) \in Stacks
         /\ \A n, m \in Nat : Raise(Raise(a, m), n) = Raise(a, m + n)
         /\ a.marks = <<>> => \A n \in Nat : Raise(a, n) \in Level /\ Raise(a, n).h = a.h + n
<1>1. a \in Stacks /\ a.at = "body"  BY DEF Steady
<1>2. a.h \in Nat /\ a.marks \in Seq(Nat)  BY <1>1, StackIs
<1>3. ASSUME NEW n \in Nat
      PROVE  /\ Raise(a, n) \in Steady /\ Raise(a, n) \in Stacks
             /\ a.marks = <<>> => Raise(a, n) \in Level /\ Raise(a, n).h = a.h + n
  <2>. DEFINE b == Raise(a, n)
  <2>1. b \in Stacks /\ b.h = a.h + n /\ b.marks = a.marks /\ b.at = "body"  BY <1>1, RaiseIs
  <2>. HIDE DEF b
  <2>2. b.marks # <<>> => b.h >= b.marks[Len(b.marks)] + 2
    <3>1. SUFFICES ASSUME a.marks # <<>>  PROVE b.h >= a.marks[Len(a.marks)] + 2  BY <2>1
    <3>. DEFINE k == a.marks[Len(a.marks)]
    <3>2. k \in Nat  BY <1>2, <3>1
    <3>3. a.h >= k + 2  BY <3>1 DEF Steady
    <3>. HIDE DEF k
    <3>4. b.h >= k + 2  BY <1>2, <2>1, <3>2, <3>3
    <3>. QED  BY <3>4 DEF k
  <2>3. b \in Steady  BY <2>1, <2>2 DEF Steady
  <2>4. a.marks = <<>> => b \in Level  BY <2>1, <2>3 DEF Level
  <2>. QED  BY <2>1, <2>3, <2>4 DEF b
<1>4. Raise(a, 0) = a /\ \A n, m \in Nat : Raise(Raise(a, m), n) = Raise(a, m + n)
  BY <1>1, RaiseIs
<1>. QED  BY <1>1, <1>3, <1>4

\* The states of an alignment.
LEMMA PaddedIs ==
  ASSUME NEW a \in Steady
  PROVE  /\ \A k \in Nat : Padded(a, k) \in Stacks
         /\ Padded(a, 0) \in Padding /\ Padded(a, 1) \in Padding /\ Padded(a, 2) \in Steady
         /\ Raise(Padded(a, 0), 1) = Padded(a, 1) /\ Raise(Padded(a, 1), 1) = Padded(a, 2)
<1>1. a.h \in Nat /\ a.marks \in Seq(Nat)  BY StackIs, SteadyIs
<1>2. ASSUME NEW k \in Nat
      PROVE  /\ Padded(a, k) \in Stacks /\ Padded(a, k).h = a.h + k
             /\ Padded(a, k).marks = Append(a.marks, a.h) /\ Padded(a, k).at = "body"
  <2>. DEFINE h == a.h + k
              s == Append(a.marks, a.h)
              at == "body"
  <2>1. h \in Nat /\ s \in Seq(Nat) /\ at \in Stages  BY <1>1 DEF Stages
  <2>2. Padded(a, k) = Stack(h, s, at)  BY DEF Padded
  <2>. HIDE DEF h, s, at
  <2>3. /\ Stack(h, s, at) \in Stacks /\ Stack(h, s, at).h = h
        /\ Stack(h, s, at).marks = s /\ Stack(h, s, at).at = at
    BY <2>1, StackIs
  <2>. QED  BY <2>2, <2>3 DEF h, s, at
<1>3. Padded(a, 0) \in Padding /\ Padded(a, 1) \in Padding  BY DEF Padding
<1>4. Padded(a, 2) \in Steady
  <2>. DEFINE b == Padded(a, 2)
              s == Append(a.marks, a.h)
  <2>1. b \in Stacks /\ b.h = a.h + 2 /\ b.marks = s /\ b.at = "body"  BY <1>2
  <2>2. s[Len(s)] = a.h  BY <1>1
  <2>. HIDE DEF b, s
  <2>3. b.h >= b.marks[Len(b.marks)] + 2  BY <1>1, <2>1, <2>2
  <2>4. b \in Steady  BY <2>1, <2>3 DEF Steady
  <2>. QED  BY <2>4 DEF b
<1>5. ASSUME NEW k \in Nat  PROVE Raise(Padded(a, k), 1) = Padded(a, k + 1)
  <2>. DEFINE b == Padded(a, k)
  <2>1. b.h = a.h + k /\ b.marks = Append(a.marks, a.h) /\ b.at = "body"  BY <1>2
  <2>. HIDE DEF b
  <2>2. b.h + 1 = a.h + (k + 1)  BY <1>1, <2>1
  <2>3. Raise(b, 1) = Padded(a, k + 1)  BY <2>1, <2>2 DEF Raise, Padded
  <2>. QED  BY <2>3 DEF b
<1>6. Raise(Padded(a, 0), 1) = Padded(a, 1) /\ Raise(Padded(a, 1), 1) = Padded(a, 2)
  <2>1. Raise(Padded(a, 0), 1) = Padded(a, 0 + 1) /\ Raise(Padded(a, 1), 1) = Padded(a, 1 + 1)
    BY <1>5
  <2>2. 0 + 1 = 1 /\ 1 + 1 = 2  OBVIOUS
  <2>. QED  BY <2>1, <2>2
<1>. QED  BY <1>2, <1>3, <1>4, <1>6

-----------------------------------------------------------------------------
(* Sequences of relations, and bounds through them. *)

\* Bounds from a to b, with a step in each relation of E.
Path(E, a, b) ==
  \E h \in [1..Len(E) + 1 -> Stacks] :
    /\ h[1] = a /\ h[Len(E) + 1] = b
    /\ \A i \in 1..Len(E) : <<h[i], h[i + 1]>> \in E[i]

\* What a concatenation is.
LEMMA IsConcat ==
  ASSUME NEW e, NEW p, NEW q, IsSeq(e), IsSeq(p), IsSeq(q), Len(e) = Len(p) + Len(q),
         \A i \in 1..Len(p) : e[i] = p[i],
         \A i \in 1..Len(q) : e[Len(p) + i] = q[i],
         NEW r, r = p \o q
  PROVE  e = r
<1>. DEFINE n == Len(p)
            m == Len(q)
<1>1. /\ IsSeq(r) /\ Len(r) = n + m
      /\ \A i \in 1..n : r[i] = p[i]
      /\ \A i \in 1..m : r[n + i] = q[i]
  BY Concat
<1>2. n \in Nat /\ m \in Nat  BY SeqFacts
<1>3. PICK S : e \in Seq(S)  BY DEF IsSeq
<1>4. PICK R : r \in Seq(R)  BY <1>1 DEF IsSeq
<1>. DEFINE U == S \cup R
<1>5. e \in Seq(U) /\ r \in Seq(U)  BY <1>3, <1>4
<1>. HIDE DEF n, m, U
<1>6. ASSUME NEW i \in 1..Len(e)  PROVE e[i] = r[i]
  <2>1. CASE i \in 1..n  BY <2>1, <1>1 DEF n
  <2>2. CASE i \notin 1..n
    <3>1. i - n \in 1..m /\ n + (i - n) = i  BY <1>2, <2>2 DEF n, m
    <3>2. e[i] = q[i - n] /\ r[i] = q[i - n]  BY <1>1, <3>1 DEF n, m
    <3>. QED  BY <3>2
  <2>. QED  BY <2>1, <2>2
<1>7. Len(e) = Len(r)  BY <1>1 DEF n, m
<1>. QED  BY <1>5, <1>6, <1>7

\* A function on an interval is a sequence.
LEMMA Listed ==
  ASSUME NEW S, NEW n \in Nat, NEW s \in [1..n -> S]
  PROVE  IsSeq(s) /\ s \in Seq(S) /\ Len(s) = n
<1>1. s \in Seq(S) /\ Len(s) = n  OBVIOUS
<1>. QED  BY <1>1 DEF IsSeq

\* No relation and one.
LEMMA ShortPaths ==
  /\ \A a \in Stacks : Path(<<>>, a, a)
  /\ \A R, a, b : a \in Stacks /\ b \in Stacks /\ <<a, b>> \in R => Path(<<R>>, a, b)
<1>1. ASSUME NEW a \in Stacks  PROVE Path(<<>>, a, a)
  <2>. DEFINE h == [i \in 1..1 |-> a]
  <2>1. Len(<<>>) = 0 /\ h \in [1..0 + 1 -> Stacks] /\ h[1] = a  OBVIOUS
  <2>. HIDE DEF h
  <2>. QED  BY <2>1 DEF Path
<1>2. ASSUME NEW R, NEW a \in Stacks, NEW b \in Stacks, <<a, b>> \in R  PROVE Path(<<R>>, a, b)
  <2>. DEFINE h == [i \in 1..2 |-> IF i = 1 THEN a ELSE b]
              E == <<R>>
  <2>1. Len(E) = 1 /\ E[1] = R  BY Tuple
  <2>2. h \in [1..1 + 1 -> Stacks] /\ h[1] = a /\ h[2] = b  OBVIOUS
  <2>. HIDE DEF h, E
  <2>3. \A i \in 1..Len(E) : <<h[i], h[i + 1]>> \in E[i]  BY <1>2, <2>1, <2>2
  <2>. QED  BY <2>1, <2>2, <2>3 DEF Path, E
<1>. QED  BY <1>1, <1>2

\* One path behind another.
LEMMA PathConcat ==
  ASSUME NEW E, NEW F, IsSeq(E), IsSeq(F), NEW a, NEW b, NEW c, Path(E, a, b), Path(F, b, c)
  PROVE  Path(E \o F, a, c)
<1>. DEFINE n == Len(E)
            m == Len(F)
            D == E \o F
<1>1. /\ n \in Nat /\ m \in Nat /\ Len(D) = n + m
      /\ \A i \in 1..n : D[i] = E[i]
      /\ \A i \in 1..m : D[n + i] = F[i]
  BY Concat, SeqFacts
<1>2. PICK f \in [1..n + 1 -> Stacks] : /\ f[1] = a /\ f[n + 1] = b
                                     /\ \A i \in 1..n : <<f[i], f[i + 1]>> \in E[i]
  BY DEF Path
<1>3. PICK g \in [1..m + 1 -> Stacks] : /\ g[1] = b /\ g[m + 1] = c
                                     /\ \A i \in 1..m : <<g[i], g[i + 1]>> \in F[i]
  BY DEF Path
<1>. HIDE DEF n, m, D
<1>. DEFINE h == [i \in 1..n + m + 1 |-> IF i <= n THEN f[i] ELSE g[i - n]]
<1>4. h \in [1..n + m + 1 -> Stacks]
  <2>1. ASSUME NEW i \in 1..n + m + 1  PROVE (IF i <= n THEN f[i] ELSE g[i - n]) \in Stacks
    <3>1. CASE i <= n  BY <3>1, <1>1, <1>2
    <3>2. CASE ~(i <= n)
      <4>1. i - n \in 1..m + 1  BY <3>2, <1>1
      <4>. QED  BY <3>2, <4>1, <1>3
    <3>. QED  BY <3>1, <3>2
  <2>. QED  BY <2>1
<1>h. \A i \in 1..n + m + 1 : (i <= n => h[i] = f[i]) /\ (~(i <= n) => h[i] = g[i - n])
  OBVIOUS
<1>. HIDE DEF h
<1>5. h[1] = a
  <2>0. 1 \in 1..n + m + 1  BY <1>1
  <2>1. CASE n = 0  BY <2>0, <2>1, <1>1, <1>2, <1>3, <1>h
  <2>2. CASE n # 0  BY <2>0, <2>2, <1>1, <1>2, <1>h
  <2>. QED  BY <2>1, <2>2
<1>6. h[n + m + 1] = c
  <2>. DEFINE k == n + m + 1
  <2>1. ~(k <= n) /\ k - n = m + 1 /\ k \in 1..n + m + 1  BY <1>1
  <2>2. h[k] = g[k - n]  BY <2>1, <1>h
  <2>. QED  BY <2>1, <2>2, <1>3
<1>7. ASSUME NEW i \in 1..n + m  PROVE <<h[i], h[i + 1]>> \in D[i]
  <2>0. i \in 1..n + m + 1 /\ i + 1 \in 1..n + m + 1 /\ i \in Nat  BY <1>1
  <2>1. CASE i <= n
    <3>1. i \in 1..n /\ h[i] = f[i] /\ D[i] = E[i]  BY <1>1, <2>0, <2>1, <1>h
    <3>2. h[i + 1] = f[i + 1]
      <4>1. CASE i + 1 <= n  BY <4>1, <2>0, <1>h
      <4>2. CASE ~(i + 1 <= n)
        <5>1. i = n /\ i + 1 - n = 1  BY <4>2, <2>0, <2>1, <1>1
        <5>2. PICK k \in 1..n + m + 1 : k = i + 1  BY <2>0
        <5>3. h[k] = g[k - n] /\ k - n = 1  BY <4>2, <5>1, <5>2, <1>h
        <5>. QED  BY <5>1, <5>2, <5>3, <1>2, <1>3
      <4>. QED  BY <4>1, <4>2
    <3>. QED  BY <3>1, <3>2, <1>2
  <2>2. CASE ~(i <= n)
    <3>1. /\ i - n \in 1..m /\ n + (i - n) = i /\ (i + 1) - n = (i - n) + 1 /\ ~(i + 1 <= n)
      BY <1>1, <2>0, <2>2
    <3>2. h[i] = g[i - n] /\ h[i + 1] = g[(i - n) + 1]  BY <2>0, <2>2, <3>1, <1>h
    <3>3. D[i] = F[i - n]  BY <3>1, <1>1
    <3>. QED  BY <3>1, <3>2, <3>3, <1>3
  <2>. QED  BY <2>1, <2>2
<1>8. Path(D, a, c)  BY <1>1, <1>4, <1>5, <1>6, <1>7 DEF Path
<1>. QED  BY <1>8 DEF D

\* The first step of a path.
LEMMA PathHead ==
  ASSUME NEW E, IsSeq(E), E # <<>>, NEW a, NEW c, Path(E, a, c)
  PROVE  a \in Stacks /\ \E b \in Stacks : <<a, b>> \in Head(E) /\ Path(Tail(E), b, c)
<1>. DEFINE n == Len(E)
            F == Tail(E)
<1>1. /\ n \in Nat \ {0} /\ Len(F) = n - 1 /\ Head(E) = E[1]
      /\ \A i \in 1..n - 1 : F[i] = E[i + 1]
  BY HeadTail, SeqFacts
<1>2. PICK f \in [1..n + 1 -> Stacks] : /\ f[1] = a /\ f[n + 1] = c
                                     /\ \A i \in 1..n : <<f[i], f[i + 1]>> \in E[i]
  BY DEF Path
<1>. HIDE DEF n, F
<1>. DEFINE g == [i \in 1..n |-> f[i + 1]]
<1>3. \A i \in 1..n : i + 1 \in 1..n + 1  BY <1>1
<1>4. g \in [1..n -> Stacks]  BY <1>2, <1>3
<1>5. g[1] = f[2] /\ g[n] = c /\ f[2] \in Stacks  BY <1>1, <1>2, <1>3
<1>6. ASSUME NEW i \in 1..n - 1  PROVE <<g[i], g[i + 1]>> \in F[i]
  <2>1. i \in 1..n /\ i + 1 \in 1..n  BY <1>1
  <2>2. g[i] = f[i + 1] /\ g[i + 1] = f[(i + 1) + 1] /\ F[i] = E[i + 1]  BY <1>1, <2>1
  <2>. HIDE DEF g
  <2>. QED  BY <2>1, <2>2, <1>2
<1>. HIDE DEF g
<1>7. Path(F, f[2], c)
  <2>1. (n - 1) + 1 = n  BY <1>1
  <2>. QED  BY <1>1, <1>4, <1>5, <1>6, <2>1 DEF Path
<1>8. a \in Stacks /\ <<a, f[2]>> \in Head(E)
  <2>1. 1 \in 1..n /\ 1 \in 1..n + 1 /\ 1 + 1 = 2  BY <1>1
  <2>. QED  BY <1>1, <1>2, <2>1
<1>. QED  BY <1>5, <1>7, <1>8 DEF F

-----------------------------------------------------------------------------
(* The states of a text, with the heights L of the labels. *)

Labels == {"begin", "end", "else"} \X Nat
Heights == [Labels -> Nat]

Computes == {"mov", "mov_imm", "lea", "load", "load_byte", "add", "sub", "imul", "and", "or",
             "add_imm", "sub_imm", "xor_imm"}

\* An instruction that leaves the stack, rsp and rbp as they were.
Still(x) ==
  \/ x[1] \in {"store", "cqo", "idiv", "cmp", "cmp_imm", "set", "movzb"}
  \/ x[1] \in Computes /\ x[2] \notin {"rsp", "rbp"}

Pushes(x, a, b) ==
  /\ b = Raise(a, 1)
  /\ \/ x[1] \in {"push", "push_imm"} /\ a \in Steady
     \/ x = <<"push", "rdx">> /\ a \in Padding

Pops(x, a, b) ==
  /\ x[1] = "pop" /\ a = Raise(b, 1)
  /\ \/ x[2] \notin {"rsp", "rbp"} /\ b \in Steady
     \/ x[2] = "rdx" /\ b \in Padding

\* What is on the stack beyond a label's height is forgotten there.
Jumps(x, L, a, b) ==
  /\ x[1] \in {"label", "je", "jmp"} /\ a \in Level /\ L[x[2]] <= a.h
  /\ x[1] = "label" => b = Stack(L[x[2]], <<>>, "body")
  /\ x[1] = "je" => b = a

\* AlignStack and what undoes it, behind the expressions c.
Aligns(x, c, a, b) ==
  \/ x = <<"mov", "rax", "rsp">> /\ a = c /\ b = Stage(c, "mov")
  \/ x = <<"mov_imm", "rdi", 16>> /\ a = Stage(c, "mov") /\ b = Stage(c, "imm")
  \/ x = <<"cqo">> /\ a = Stage(c, "imm") /\ b = Stage(c, "cqo")
  \/ x = <<"idiv", "rdi">> /\ a = Stage(c, "cqo") /\ b = Stage(c, "idiv")
  \/ x = <<"sub", "rsp", "rdx">> /\ a = Stage(c, "idiv") /\ b = Padded(c, 0)
  \/ x[1] = "call" /\ a = Padded(c, 2) /\ b = a
  \/ x = <<"add", "rsp", "rdx">> /\ a = Padded(c, 0) /\ b = c

Enters(x, a, b) ==
  \/ x[1] = "fn" /\ a = Outside /\ b = Stack(0, <<>>, "entry")
  \/ x = <<"push", "rbp">> /\ a = Stack(0, <<>>, "entry") /\ b = Stack(0, <<>>, "saved")
  \/ x = <<"mov", "rbp", "rsp">> /\ a = Stack(0, <<>>, "saved") /\ b = Stack(0, <<>>, "framed")
  \/ /\ x[1] = "sub_imm" /\ x[2] = "rsp" /\ x[3] \in Nat
     /\ a = Stack(0, <<>>, "framed") /\ b = Stack(0, <<>>, "body")

Returns(x, a, b) ==
  \/ x = <<"mov", "rsp", "rbp">> /\ a \in Level /\ b = Stack(0, <<>>, "leaving")
  \/ x = <<"pop", "rbp">> /\ a = Stack(0, <<>>, "leaving") /\ b = Stack(0, <<>>, "left")
  \/ x = <<"ret">> /\ a = Stack(0, <<>>, "left")

\* Only a function has these.
Framings == {"fn", "label", "je", "jmp", "sub_imm"}
Declares(x, a, b) == x[1] \notin Framings /\ a = Outside /\ b = Outside

\* The instruction x takes the state a to the state b.
Takes(x, L, a, b) ==
  \/ Still(x) /\ a \in Steady /\ b = a
  \/ Pushes(x, a, b) \/ Pops(x, a, b) \/ Jumps(x, L, a, b)
  \/ \E c \in Steady : Aligns(x, c, a, b)
  \/ Enters(x, a, b) \/ Returns(x, a, b) \/ Declares(x, a, b)

Effect(x, L) == { p \in Stacks \X Stacks : Takes(x, L, p[1], p[2]) }
Text(c, L) == [i \in DOMAIN c |-> Effect(c[i], L)]
Run(c, L, a, b) == Path(Text(c, L), a, b)

\* A pair of an effect.
LEMMA EffectIs ==
  ASSUME NEW x, NEW L, NEW a \in Stacks, NEW b \in Stacks
  PROVE  <<a, b>> \in Effect(x, L) <=> Takes(x, L, a, b)
<1>1. <<a, b>> \in Stacks \X Stacks /\ <<a, b>>[1] = a /\ <<a, b>>[2] = b  OBVIOUS
<1>. QED  BY <1>1 DEF Effect

\* A text's relations are as many as its instructions.
LEMMA TextSeq ==
  ASSUME NEW c, IsSeq(c), NEW L
  PROVE  /\ IsSeq(Text(c, L)) /\ Len(Text(c, L)) = Len(c)
         /\ \A i \in 1..Len(c) : Text(c, L)[i] = Effect(c[i], L)
<1>. DEFINE t == Text(c, L)
            S == SUBSET (Stacks \X Stacks)
<1>1. Len(c) \in Nat /\ DOMAIN c = 1..Len(c)  BY SeqFacts
<1>2. \A i \in 1..Len(c) : Effect(c[i], L) \in S  BY DEF Effect
<1>3. t \in [1..Len(c) -> S] /\ \A i \in 1..Len(c) : t[i] = Effect(c[i], L)
  BY <1>1, <1>2 DEF Text
<1>. HIDE DEF t, S
<1>4. t \in Seq(S) /\ Len(t) = Len(c)  BY <1>1, <1>3
<1>. QED  BY <1>3, <1>4 DEF t, IsSeq

\* The relations of two texts, one behind the other.
LEMMA TextConcat ==
  ASSUME NEW c, NEW d, IsSeq(c), IsSeq(d), NEW L
  PROVE  IsSeq(c \o d) /\ Text(c \o d, L) = Text(c, L) \o Text(d, L)
<1>. DEFINE e == c \o d
            n == Len(c)
            m == Len(d)
            te == Text(e, L)
            tc == Text(c, L)
            td == Text(d, L)
<1>1. /\ IsSeq(e) /\ Len(e) = n + m /\ n \in Nat /\ m \in Nat
      /\ \A i \in 1..n : e[i] = c[i]
      /\ \A i \in 1..m : e[n + i] = d[i]
  BY Concat, SeqFacts
<1>. HIDE DEF e
<1>2. IsSeq(te) /\ Len(te) = Len(e) /\ \A i \in 1..Len(e) : te[i] = Effect(e[i], L)
  BY <1>1, TextSeq
<1>3. /\ IsSeq(tc) /\ Len(tc) = n /\ \A i \in 1..n : tc[i] = Effect(c[i], L)
      /\ IsSeq(td) /\ Len(td) = m /\ \A i \in 1..m : td[i] = Effect(d[i], L)
  BY TextSeq
<1>. HIDE DEF te, tc, td, n, m
<1>4. \A i \in 1..n : te[i] = tc[i]  BY <1>1, <1>2, <1>3
<1>5. ASSUME NEW i \in 1..m  PROVE te[n + i] = td[i]
  <2>1. n + i \in 1..Len(e)  BY <1>1
  <2>2. te[n + i] = Effect(e[n + i], L)  BY <2>1, <1>2
  <2>. QED  BY <2>2, <1>1, <1>3
<1>6. te = tc \o td
  <2>1. /\ IsSeq(te) /\ IsSeq(tc) /\ IsSeq(td) /\ Len(te) = Len(tc) + Len(td)
        /\ \A i \in 1..Len(tc) : te[i] = tc[i]
        /\ \A i \in 1..Len(td) : te[Len(tc) + i] = td[i]
    BY <1>1, <1>2, <1>3, <1>4, <1>5
  <2>. DEFINE r == tc \o td
  <2>2. r = tc \o td  OBVIOUS
  <2>. HIDE DEF r
  <2>3. te = r  BY <2>1, <2>2, IsConcat
  <2>. QED  BY <2>2, <2>3
<1>. QED  BY <1>1, <1>6 DEF e, te, tc, td

\* Bounds through no instruction, through one, and through two texts.
LEMMA Runs ==
  ASSUME NEW L
  PROVE  /\ \A a \in Stacks : Run(<<>>, L, a, a)
         /\ \A x : \A a, b \in Stacks : Takes(x, L, a, b) => Run(<<x>>, L, a, b)
         /\ \A c, d, a, b, e : IsSeq(c) /\ IsSeq(d) /\ Run(c, L, a, b) /\ Run(d, L, b, e)
              => Run(c \o d, L, a, e)
<1>1. ASSUME NEW a \in Stacks  PROVE Run(<<>>, L, a, a)
  <2>1. Text(<<>>, L) = <<>>
    <3>. DEFINE t == Text(<<>>, L)
    <3>1. IsSeq(t) /\ Len(t) = 0  BY Tuple, TextSeq
    <3>. HIDE DEF t
    <3>2. PICK S : t \in Seq(S)  BY <3>1 DEF IsSeq
    <3>3. t = <<>>  BY <3>1, <3>2
    <3>. QED  BY <3>3 DEF t
  <2>. QED  BY <2>1, ShortPaths DEF Run
<1>2. ASSUME NEW x, NEW a \in Stacks, NEW b \in Stacks, Takes(x, L, a, b)  PROVE Run(<<x>>, L, a, b)
  <2>. DEFINE R == Effect(x, L)
              t == Text(<<x>>, L)
  <2>1. IsSeq(t) /\ Len(t) = 1 /\ t[1] = R
    <3>. DEFINE c == <<x>>
    <3>1. IsSeq(c) /\ Len(c) = 1 /\ c[1] = x  BY Tuple
    <3>. HIDE DEF c
    <3>2. IsSeq(Text(c, L)) /\ Len(Text(c, L)) = 1 /\ Text(c, L)[1] = Effect(c[1], L)
      BY <3>1, TextSeq
    <3>. QED  BY <3>1, <3>2 DEF c
  <2>2. <<a, b>> \in R  BY <1>2, EffectIs
  <2>. HIDE DEF R, t
  <2>3. t = <<R>>
    <3>1. PICK S : t \in Seq(S)  BY <2>1 DEF IsSeq
    <3>. QED  BY <2>1, <3>1
  <2>4. Path(<<R>>, a, b)  BY <2>2, ShortPaths
  <2>. QED  BY <2>3, <2>4 DEF t, Run
<1>3. ASSUME NEW c, NEW d, NEW a, NEW b, NEW e, IsSeq(c), IsSeq(d), Run(c, L, a, b), Run(d, L, b, e)
      PROVE  Run(c \o d, L, a, e)
  <2>. DEFINE tc == Text(c, L)
              td == Text(d, L)
  <2>1. IsSeq(tc) /\ IsSeq(td) /\ Text(c \o d, L) = tc \o td  BY <1>3, TextSeq, TextConcat
  <2>2. Path(tc, a, b) /\ Path(td, b, e)  BY <1>3 DEF Run
  <2>. HIDE DEF tc, td
  <2>3. Path(tc \o td, a, e)  BY <2>1, <2>2, PathConcat
  <2>. QED  BY <2>1, <2>3 DEF Run
<1>. QED  BY <1>1, <1>2, <1>3

\* Two elements are one and one; four are a sequence.
LEMMA Pieces ==
  /\ \A a, b : <<a, b>> = <<a>> \o <<b>>
  /\ \A a, b, c, d : IsSeq(<<a, b, c, d>>)
<1>1. ASSUME NEW a, NEW b  PROVE <<a, b>> = <<a>> \o <<b>>
  <2>. DEFINE p == <<a>>
              q == <<b>>
              r == <<a>> \o <<b>>
              e == <<a, b>>
  <2>1. /\ IsSeq(p) /\ Len(p) = 1 /\ p[1] = a /\ IsSeq(q) /\ Len(q) = 1 /\ q[1] = b
        /\ IsSeq(e) /\ Len(e) = 2 /\ e[1] = a /\ e[2] = b
    BY Tuple
  <2>2. r = p \o q  OBVIOUS
  <2>. HIDE DEF p, q, r, e
  <2>3. e = r
    <3>1. /\ Len(e) = Len(p) + Len(q)
          /\ \A i \in 1..Len(p) : e[i] = p[i]
          /\ \A i \in 1..Len(q) : e[Len(p) + i] = q[i]
      BY <2>1
    <3>. QED  BY <2>1, <2>2, <3>1, IsConcat
  <2>. QED  BY <2>3 DEF e, r
<1>2. ASSUME NEW a, NEW b, NEW c, NEW d  PROVE IsSeq(<<a, b, c, d>>)
  <2>1. <<a, b, c, d>> = <<a>> \o <<b, c, d>>  OBVIOUS
  <2>. QED  BY <2>1, Tuple, Concat
<1>. QED  BY <1>1, <1>2

\* One instruction.
LEMMA OneRun ==
  ASSUME NEW L, NEW a \in Steady
  PROVE  /\ \A r : Run(<<<<"push", r>>>>, L, a, Raise(a, 1))
         /\ \A r : Run(<<<<"push_imm", r>>>>, L, a, Raise(a, 1))
         /\ \A r : r \notin {"rsp", "rbp"} => Run(<<<<"pop", r>>>>, L, Raise(a, 1), a)
         /\ \A x : Still(x) => Run(<<x>>, L, a, a)
<1>0. a \in Stacks /\ Raise(a, 1) \in Stacks  BY SteadyIs
<1>1. ASSUME NEW r  PROVE Run(<<<<"push", r>>>>, L, a, Raise(a, 1))
  <2>. DEFINE x == <<"push", r>>
  <2>1. x[1] = "push"  OBVIOUS
  <2>. HIDE DEF x
  <2>2. Takes(x, L, a, Raise(a, 1))  BY <2>1 DEF Takes, Pushes
  <2>3. Run(<<x>>, L, a, Raise(a, 1))  BY <1>0, <2>2, Runs
  <2>. QED  BY <2>3 DEF x
<1>2. ASSUME NEW r  PROVE Run(<<<<"push_imm", r>>>>, L, a, Raise(a, 1))
  <2>. DEFINE x == <<"push_imm", r>>
  <2>1. x[1] = "push_imm"  OBVIOUS
  <2>. HIDE DEF x
  <2>2. Takes(x, L, a, Raise(a, 1))  BY <2>1 DEF Takes, Pushes
  <2>3. Run(<<x>>, L, a, Raise(a, 1))  BY <1>0, <2>2, Runs
  <2>. QED  BY <2>3 DEF x
<1>3. ASSUME NEW r, r \notin {"rsp", "rbp"}  PROVE Run(<<<<"pop", r>>>>, L, Raise(a, 1), a)
  <2>. DEFINE x == <<"pop", r>>
  <2>1. x[1] = "pop" /\ x[2] = r  OBVIOUS
  <2>. HIDE DEF x
  <2>2. Takes(x, L, Raise(a, 1), a)  BY <1>3, <2>1 DEF Takes, Pops
  <2>3. Run(<<x>>, L, Raise(a, 1), a)  BY <1>0, <2>2, Runs
  <2>. QED  BY <2>3 DEF x
<1>4. ASSUME NEW x, Still(x)  PROVE Run(<<x>>, L, a, a)
  <2>1. Takes(x, L, a, a)  BY <1>4 DEF Takes
  <2>. QED  BY <1>0, <2>1, Runs
<1>. QED  BY <1>1, <1>2, <1>3, <1>4

\* A few instructions.
LEMMA FewRuns ==
  ASSUME NEW L, NEW a, NEW b, NEW c, NEW w, Run(<<w>>, L, a, b)
  PROVE  /\ \A x : Run(<<x>>, L, b, c) => Run(<<w, x>>, L, a, c)
         /\ \A x, y : Run(<<x, y>>, L, b, c) => Run(<<w, x, y>>, L, a, c)
         /\ \A x, y, z : Run(<<x, y, z>>, L, b, c) => Run(<<w, x, y, z>>, L, a, c)
<1>1. ASSUME NEW d, IsSeq(d), Run(d, L, b, c)  PROVE Run(<<w>> \o d, L, a, c)
  <2>1. IsSeq(<<w>>)  BY Tuple
  <2>. QED  BY <1>1, <2>1, Runs
<1>2. ASSUME NEW x, Run(<<x>>, L, b, c)  PROVE Run(<<w, x>>, L, a, c)
  <2>1. IsSeq(<<x>>) /\ <<w, x>> = <<w>> \o <<x>>  BY Tuple, Pieces
  <2>. QED  BY <1>1, <1>2, <2>1
<1>3. ASSUME NEW x, NEW y, Run(<<x, y>>, L, b, c)  PROVE Run(<<w, x, y>>, L, a, c)
  <2>0. <<w, x, y>> = <<w>> \o <<x, y>>  OBVIOUS
  <2>1. IsSeq(<<x, y>>)  BY Tuple
  <2>. QED  BY <1>1, <1>3, <2>0, <2>1
<1>4. ASSUME NEW x, NEW y, NEW z, Run(<<x, y, z>>, L, b, c)  PROVE Run(<<w, x, y, z>>, L, a, c)
  <2>0. <<w, x, y, z>> = <<w>> \o <<x, y, z>>  OBVIOUS
  <2>1. IsSeq(<<x, y, z>>)  BY Tuple
  <2>. QED  BY <1>1, <1>4, <2>0, <2>1
<1>. QED  BY <1>2, <1>3, <1>4

\* A text of instructions that leave the stack alone.
LEMMA StillRun ==
  ASSUME NEW S, NEW c \in Seq(S), \A x \in S : Still(x), NEW L, NEW a \in Steady
  PROVE  IsSeq(c) /\ Run(c, L, a, a)
<1>. DEFINE n == Len(c)
            t == Text(c, L)
            h == [i \in 1..n + 1 |-> a]
<1>1. IsSeq(c) /\ n \in Nat /\ DOMAIN c = 1..n  BY DEF IsSeq
<1>2. Len(t) = n /\ \A i \in 1..n : t[i] = Effect(c[i], L)  BY <1>1, TextSeq
<1>3. ASSUME NEW i \in 1..n  PROVE <<a, a>> \in t[i]
  <2>1. Still(c[i])  BY <1>1
  <2>2. Takes(c[i], L, a, a)  BY <2>1 DEF Takes
  <2>3. <<a, a>> \in Effect(c[i], L)
    <3>1. a \in Stacks  BY SteadyIs
    <3>. QED  BY <2>2, <3>1, EffectIs
  <2>. QED  BY <2>3, <1>2
<1>4. \A i \in 1..n + 1 : h[i] = a  OBVIOUS
<1>s. a \in Stacks  BY SteadyIs
<1>5. h \in [1..n + 1 -> Stacks]  BY <1>s
<1>. HIDE DEF h, n, t
<1>6. h[1] = a /\ h[n + 1] = a /\ \A i \in 1..n : h[i] = a /\ h[i + 1] = a  BY <1>1, <1>4
<1>7. Path(t, a, a)  BY <1>2, <1>3, <1>5, <1>6 DEF Path
<1>. QED  BY <1>1, <1>7 DEF Run, t

\* The texts of gen() that have no labels.
LEMMA TextRuns ==
  ASSUME NEW L, NEW a \in Steady
  PROVE  /\ Run(Drop, L, Raise(a, 1), a) /\ Run(Keep, L, a, Raise(a, 1))
         /\ \A offset : Run(PushLocal(offset), L, a, Raise(a, 1))
         /\ \A name : Run(PushSymbol(name), L, a, Raise(a, 1))
         /\ \A kind \in Binary : Run(Operate(kind), L, a, a)
         /\ Run(AlignStack, L, a, Padded(a, 2)) /\ Run(UnalignStack, L, Padded(a, 2), Raise(a, 1))
         /\ \A n \in 0..6 : Run(PopArguments(n), L, Raise(a, n), a)
         /\ a.marks = <<>> => \A b \in Stacks : Run(Epilogue, L, a, b)
<1>0. a \in Stacks /\ Raise(a, 1) \in Stacks  BY SteadyIs
<1>1. Run(Drop, L, Raise(a, 1), a) /\ Run(Keep, L, a, Raise(a, 1))  BY OneRun DEF Drop, Keep
<1>2. ASSUME NEW offset  PROVE Run(PushLocal(offset), L, a, Raise(a, 1))
  <2>. DEFINE x == <<"mov", "rax", "rbp">>
              y == <<"sub_imm", "rax", offset>>
              z == <<"push", "rax">>
  <2>1. Still(x) /\ Still(y)  BY DEF Still, Computes
  <2>2. Run(<<z>>, L, a, Raise(a, 1))  BY OneRun
  <2>3. PushLocal(offset) = <<x, y, z>>  BY DEF PushLocal
  <2>. HIDE DEF x, y, z
  <2>4. Run(<<x>>, L, a, a) /\ Run(<<y>>, L, a, a)  BY <2>1, OneRun
  <2>5. Run(<<y, z>>, L, a, Raise(a, 1))  BY <2>2, <2>4, FewRuns
  <2>6. Run(<<x, y, z>>, L, a, Raise(a, 1))  BY <2>4, <2>5, FewRuns
  <2>. QED  BY <2>3, <2>6
<1>3. ASSUME NEW name  PROVE Run(PushSymbol(name), L, a, Raise(a, 1))
  <2>. DEFINE x == <<"lea", "rax", name>>
              z == <<"push", "rax">>
  <2>1. Still(x)  BY DEF Still, Computes
  <2>2. Run(<<z>>, L, a, Raise(a, 1))  BY OneRun
  <2>3. PushSymbol(name) = <<x, z>>  BY DEF PushSymbol
  <2>. HIDE DEF x, z
  <2>4. Run(<<x>>, L, a, a)  BY <2>1, OneRun
  <2>5. Run(<<x, z>>, L, a, Raise(a, 1))  BY <2>2, <2>4, FewRuns
  <2>. QED  BY <2>3, <2>5
<1>4. ASSUME NEW kind \in Binary  PROVE Run(Operate(kind), L, a, a)
  <2>. DEFINE D == <<<<"cqo">>, <<"idiv", "rdi">>>>
              C(cc) == <<<<"cmp", "rax", "rdi">>, <<"set", cc>>, <<"movzb">>>>
              R == <<<<"push", "rdx">>, <<"pop", "rax">>>>
  <2>1. Run(D, L, a, a) /\ IsSeq(D)
    <3>. DEFINE S == {<<"cqo">>, <<"idiv", "rdi">>}
    <3>1. D \in Seq(S)  OBVIOUS
    <3>2. \A x \in S : Still(x)  BY DEF Still
    <3>. HIDE DEF S, D
    <3>. QED  BY <3>1, <3>2, StillRun
  <2>2. ASSUME NEW cc  PROVE Run(C(cc), L, a, a)
    <3>. DEFINE S == {<<"cmp", "rax", "rdi">>, <<"set", cc>>, <<"movzb">>}
                c == C(cc)
    <3>1. c \in Seq(S)  OBVIOUS
    <3>2. \A x \in S : Still(x)  BY DEF Still
    <3>. HIDE DEF S, c
    <3>3. Run(c, L, a, a)  BY <3>1, <3>2, StillRun
    <3>. QED  BY <3>3 DEF c
  <2>3. Run(R, L, a, a) /\ IsSeq(R)
    <3>. DEFINE x == <<"push", "rdx">>
                y == <<"pop", "rax">>
    <3>1. Run(<<x>>, L, a, Raise(a, 1)) /\ Run(<<y>>, L, Raise(a, 1), a)
      <4>1. "rax" \notin {"rsp", "rbp"}  OBVIOUS
      <4>. QED  BY <4>1, OneRun
    <3>2. R = <<x, y>> /\ IsSeq(R)  BY Tuple
    <3>. HIDE DEF x, y, R
    <3>. QED  BY <3>1, <3>2, FewRuns
  <2>4. ASSUME NEW op, op \in {"add", "sub", "imul", "and", "or"}
        PROVE  Run(<<<<op, "rax", "rdi">>>>, L, a, a)
    <3>. DEFINE x == <<op, "rax", "rdi">>
    <3>1. Still(x)  BY <2>4 DEF Still, Computes
    <3>. HIDE DEF x
    <3>2. Run(<<x>>, L, a, a)  BY <3>1, OneRun
    <3>. QED  BY <3>2 DEF x
  <2>5. Run(D \o R, L, a, a)
    <3>1. \A c, d : IsSeq(c) /\ IsSeq(d) /\ Run(c, L, a, a) /\ Run(d, L, a, a)
                     => Run(c \o d, L, a, a)
      BY Runs, ZenonT(30)
    <3>. HIDE DEF D, R
    <3>. QED  BY <2>1, <2>3, <3>1
  <2>6. \/ \E op \in {"add", "sub", "imul", "and", "or"} : Operate(kind) = <<<<op, "rax", "rdi">>>>
        \/ Operate(kind) = D \/ Operate(kind) = D \o R
        \/ \E cc \in {"e", "ne", "l", "le"} : Operate(kind) = C(cc)
    BY DEF Operate, Binary
  <2>. HIDE DEF D, R, C
  <2>. QED  BY <2>1, <2>2, <2>4, <2>5, <2>6
<1>5. Run(AlignStack, L, a, Padded(a, 2))
  <2>. DEFINE c1 == <<"mov", "rax", "rsp">>
              c2 == <<"mov_imm", "rdi", 16>>
              c3 == <<"cqo">>
              c4 == <<"idiv", "rdi">>
              c5 == <<"sub", "rsp", "rdx">>
              x == <<"push", "rdx">>
              p(k) == Padded(a, k)
  <2>0. /\ Stage(a, "mov") \in Stacks /\ Stage(a, "imm") \in Stacks
        /\ Stage(a, "cqo") \in Stacks /\ Stage(a, "idiv") \in Stacks
        /\ p(0) \in Stacks /\ p(1) \in Stacks /\ p(2) \in Stacks
    <3>1. a.h \in Nat /\ a.marks \in Seq(Nat)  BY <1>0, StackIs
    <3>2. \A at \in Stages : Stage(a, at) \in Stacks  BY <3>1, StackIs DEF Stage
    <3>. QED  BY <3>2, PaddedIs DEF Stages
  <2>1. /\ Aligns(c1, a, a, Stage(a, "mov")) /\ Aligns(c2, a, Stage(a, "mov"), Stage(a, "imm"))
        /\ Aligns(c3, a, Stage(a, "imm"), Stage(a, "cqo"))
        /\ Aligns(c4, a, Stage(a, "cqo"), Stage(a, "idiv"))
        /\ Aligns(c5, a, Stage(a, "idiv"), p(0))
    BY DEF Aligns
  <2>2. Pushes(x, p(0), p(1)) /\ Pushes(x, p(1), p(2))  BY PaddedIs DEF Pushes
  <2>3. AlignStack = <<c1, c2, c3>> \o <<c4, c5, x, x>>  BY DEF AlignStack
  <2>. HIDE DEF c1, c2, c3, c4, c5, x, p
  <2>4. /\ Run(<<c1>>, L, a, Stage(a, "mov")) /\ Run(<<c2>>, L, Stage(a, "mov"), Stage(a, "imm"))
        /\ Run(<<c3>>, L, Stage(a, "imm"), Stage(a, "cqo"))
        /\ Run(<<c4>>, L, Stage(a, "cqo"), Stage(a, "idiv"))
        /\ Run(<<c5>>, L, Stage(a, "idiv"), p(0))
    <3>1. ASSUME NEW w, NEW b \in Stacks, NEW d \in Stacks, Aligns(w, a, b, d)
          PROVE  Run(<<w>>, L, b, d)
      <4>1. Takes(w, L, b, d)  BY <3>1 DEF Takes
      <4>. QED  BY <4>1, Runs
    <3>. QED  BY <3>1, <2>0, <2>1, <1>0
  <2>5. Run(<<x>>, L, p(0), p(1)) /\ Run(<<x>>, L, p(1), p(2))
    <3>1. Takes(x, L, p(0), p(1)) /\ Takes(x, L, p(1), p(2))  BY <2>2 DEF Takes
    <3>. QED  BY <3>1, <2>0, Runs
  <2>6. Run(<<c1, c2, c3>>, L, a, Stage(a, "cqo"))
    <3>1. Run(<<c2, c3>>, L, Stage(a, "mov"), Stage(a, "cqo"))  BY <2>4, FewRuns
    <3>. QED  BY <2>4, <3>1, FewRuns
  <2>7. Run(<<c4, c5, x, x>>, L, Stage(a, "cqo"), p(2))
    <3>1. Run(<<x, x>>, L, p(0), p(2))  BY <2>5, FewRuns
    <3>2. Run(<<c5, x, x>>, L, Stage(a, "idiv"), p(2))  BY <2>4, <3>1, FewRuns
    <3>. QED  BY <2>4, <3>2, FewRuns
  <2>8. IsSeq(<<c1, c2, c3>>) /\ IsSeq(<<c4, c5, x, x>>)  BY Tuple, Pieces
  <2>. QED  BY <2>3, <2>6, <2>7, <2>8, Runs DEF p
<1>6. Run(UnalignStack, L, Padded(a, 2), Raise(a, 1))
  <2>. DEFINE x == <<"pop", "rdx">>
              y == <<"add", "rsp", "rdx">>
              z == <<"push", "rax">>
              p(k) == Padded(a, k)
  <2>0. p(0) \in Stacks /\ p(1) \in Stacks /\ p(2) \in Stacks  BY PaddedIs
  <2>1. UnalignStack = <<x, x, y, z>>  BY DEF UnalignStack
  <2>2. Pops(x, p(2), p(1)) /\ Pops(x, p(1), p(0))  BY PaddedIs DEF Pops
  <2>3. Aligns(y, a, p(0), a)  BY DEF Aligns
  <2>4. Run(<<z>>, L, a, Raise(a, 1))  BY OneRun
  <2>. HIDE DEF x, y, z, p
  <2>5. Run(<<x>>, L, p(2), p(1)) /\ Run(<<x>>, L, p(1), p(0)) /\ Run(<<y>>, L, p(0), a)
    <3>1. Takes(x, L, p(2), p(1)) /\ Takes(x, L, p(1), p(0))  BY <2>2 DEF Takes
    <3>2. Takes(y, L, p(0), a)  BY <2>3 DEF Takes
    <3>. QED  BY <3>1, <3>2, <2>0, <1>0, Runs
  <2>6. Run(<<y, z>>, L, p(0), Raise(a, 1))  BY <2>4, <2>5, FewRuns
  <2>7. Run(<<x, y, z>>, L, p(1), Raise(a, 1))  BY <2>5, <2>6, FewRuns
  <2>8. Run(<<x, x, y, z>>, L, p(2), Raise(a, 1))  BY <2>5, <2>7, FewRuns
  <2>. QED  BY <2>1, <2>8 DEF p
<1>7. ASSUME NEW n \in 0..6  PROVE Run(PopArguments(n), L, Raise(a, n), a)
  <2>. DEFINE c == PopArguments(n)
              t == Text(c, L)
              h == [i \in 1..n + 1 |-> Raise(a, n + 1 - i)]
              S == { <<"pop", arglist[n + 1 - i]>> : i \in 1..n }
  <2>1. /\ c \in [1..n -> S]
        /\ \A i \in 1..n : c[i][1] = "pop" /\ c[i][2] \notin {"rsp", "rbp"}
    <3>1. ASSUME NEW i \in 1..n  PROVE arglist[n + 1 - i] \notin {"rsp", "rbp"}
      <4>1. n + 1 - i \in 1..6  OBVIOUS
      <4>. QED  BY <4>1 DEF arglist
    <3>. QED  BY <3>1 DEF PopArguments
  <2>. HIDE DEF c, S
  <2>2. IsSeq(c) /\ Len(c) = n
    <3>1. c \in Seq(S) /\ Len(c) = n  BY <2>1
    <3>. QED  BY <3>1 DEF IsSeq
  <2>3. Len(t) = n /\ \A i \in 1..n : t[i] = Effect(c[i], L)  BY <2>2, TextSeq
  <2>4. h \in [1..n + 1 -> Stacks] /\ \A i \in 1..n + 1 : h[i] = Raise(a, n + 1 - i)
    <3>1. \A i \in 1..n + 1 : n + 1 - i \in Nat  OBVIOUS
    <3>2. \A i \in 1..n + 1 : Raise(a, n + 1 - i) \in Stacks  BY <3>1, SteadyIs
    <3>. QED  BY <3>2
  <2>. HIDE DEF h, t
  <2>5. ASSUME NEW i \in 1..n  PROVE <<h[i], h[i + 1]>> \in t[i]
    <3>. DEFINE b == h[i]
                d == h[i + 1]
                k == n - i
    <3>1. i \in 1..n + 1 /\ i + 1 \in 1..n + 1 /\ k \in Nat  OBVIOUS
    <3>2. b \in Stacks /\ d \in Stacks  BY <3>1, <2>4
    <3>3. b = Raise(a, k + 1)
      <4>1. n + 1 - i = k + 1  BY <3>1
      <4>. QED  BY <3>1, <4>1, <2>4
    <3>4. d = Raise(a, k)
      <4>1. n + 1 - (i + 1) = k  BY <3>1
      <4>. QED  BY <3>1, <4>1, <2>4
    <3>. HIDE DEF b, d, k
    <3>5. b = Raise(d, 1) /\ d \in Steady  BY <3>1, <3>3, <3>4, SteadyIs
    <3>6. Takes(c[i], L, b, d)  BY <2>1, <3>5 DEF Takes, Pops
    <3>7. <<b, d>> \in Effect(c[i], L)  BY <3>2, <3>6, EffectIs
    <3>. QED  BY <3>7, <2>3 DEF b, d
  <2>6. h[1] = Raise(a, n) /\ h[n + 1] = a
    <3>1. 1 \in 1..n + 1 /\ n + 1 \in 1..n + 1 /\ n + 1 - 1 = n /\ n + 1 - (n + 1) = 0  OBVIOUS
    <3>2. h[1] = Raise(a, n) /\ h[n + 1] = Raise(a, 0)  BY <3>1, <2>4
    <3>. QED  BY <3>2, SteadyIs
  <2>7. n \in Nat /\ Path(t, Raise(a, n), a)  BY <2>3, <2>4, <2>5, <2>6 DEF Path
  <2>. QED  BY <2>7 DEF Run, t, c
<1>8. ASSUME a.marks = <<>>, NEW b \in Stacks  PROVE Run(Epilogue, L, a, b)
  <2>. DEFINE x == <<"mov", "rsp", "rbp">>
              y == <<"pop", "rbp">>
              z == <<"ret">>
              s == Stack(0, <<>>, "leaving")
              t == Stack(0, <<>>, "left")
  <2>0. s \in Stacks /\ t \in Stacks
    <3>1. 0 \in Nat /\ <<>> \in Seq(Nat) /\ "leaving" \in Stages /\ "left" \in Stages
      BY DEF Stages
    <3>. QED  BY <3>1, StackIs
  <2>1. Epilogue = <<x, y, z>>  BY DEF Epilogue
  <2>2. Returns(x, a, s) /\ Returns(y, s, t) /\ Returns(z, t, b)  BY <1>8 DEF Returns, Level
  <2>. HIDE DEF x, y, z, s, t
  <2>3. Takes(x, L, a, s) /\ Takes(y, L, s, t) /\ Takes(z, L, t, b)  BY <2>2 DEF Takes
  <2>5. Run(<<x>>, L, a, s) /\ Run(<<y>>, L, s, t) /\ Run(<<z>>, L, t, b)
    BY <2>0, <2>3, <1>0, Runs
  <2>6. Run(<<y, z>>, L, s, b)  BY <2>5, FewRuns
  <2>7. Run(<<x, y, z>>, L, a, b)  BY <2>5, <2>6, FewRuns
  <2>. QED  BY <2>1, <2>7
<1>. QED  BY <1>1, <1>2, <1>3, <1>4, <1>5, <1>6, <1>7, <1>8

\* The texts with labels: all labels of a call stand for the height at which it begins.
LEMMA LabelRuns ==
  ASSUME NEW L, NEW l, NEW a \in Level, \A p \in {"begin", "end", "else"} : L[<<p, l>>] = a.h
  PROVE  \A p \in {"begin", "end", "else"} :
           /\ Run(IfZero(p, l), L, Raise(a, 1), a)
           /\ \A n \in Nat : Run(<<Label(p, l)>>, L, Raise(a, n), a)
           /\ \A n \in Nat, c \in Stacks : Run(<<Jump("jmp", p, l)>>, L, Raise(a, n), c)
<1>. SUFFICES ASSUME NEW p \in {"begin", "end", "else"}
              PROVE  /\ Run(IfZero(p, l), L, Raise(a, 1), a)
                     /\ \A n \in Nat : Run(<<Label(p, l)>>, L, Raise(a, n), a)
                     /\ \A n \in Nat, c \in Stacks :
                          Run(<<Jump("jmp", p, l)>>, L, Raise(a, n), c)
  OBVIOUS
<1>0. L[<<p, l>>] = a.h  OBVIOUS
<1>s. a \in Steady /\ a \in Stacks /\ a.h \in Nat /\ a = Stack(a.h, <<>>, "body")
  <2>1. a \in Steady /\ a.marks = <<>>  BY DEF Level
  <2>. QED  BY <2>1, SteadyIs, StackIs
<1>r. \A n \in Nat : /\ Raise(a, n) \in Level /\ Raise(a, n) \in Stacks
                     /\ a.h <= Raise(a, n).h
  <2>1. \A n \in Nat : Raise(a, n) \in Level /\ Raise(a, n).h = a.h + n /\ Raise(a, n) \in Stacks
    BY <1>s, SteadyIs DEF Level
  <2>2. \A n \in Nat : a.h <= a.h + n  BY <1>s
  <2>. QED  BY <2>1, <2>2
<1>1. Run(IfZero(p, l), L, Raise(a, 1), a)
  <2>. DEFINE x == <<"pop", "rax">>
              y == <<"cmp_imm", "rax", 0>>
              z == Jump("je", p, l)
  <2>1. IfZero(p, l) = <<x, y, z>>  BY DEF IfZero
  <2>2. Run(<<x>>, L, Raise(a, 1), a)
    <3>1. "rax" \notin {"rsp", "rbp"}  OBVIOUS
    <3>. QED  BY <3>1, <1>s, OneRun
  <2>3. Still(y)  BY DEF Still
  <2>4. z[1] = "je" /\ z[2] = <<p, l>>  BY DEF Jump
  <2>. HIDE DEF x, y, z
  <2>5. Takes(z, L, a, a)
    <3>1. a.h <= a.h  BY <1>s
    <3>. QED  BY <2>4, <3>1, <1>0 DEF Takes, Jumps
  <2>6. Run(<<y>>, L, a, a) /\ Run(<<z>>, L, a, a)  BY <2>3, <2>5, <1>s, OneRun, Runs
  <2>7. Run(<<y, z>>, L, a, a)  BY <2>6, FewRuns
  <2>8. Run(<<x, y, z>>, L, Raise(a, 1), a)  BY <2>2, <2>7, FewRuns
  <2>. QED  BY <2>1, <2>8
<1>2. ASSUME NEW n \in Nat  PROVE Run(<<Label(p, l)>>, L, Raise(a, n), a)
  <2>. DEFINE x == Label(p, l)
  <2>1. x[1] = "label" /\ x[2] = <<p, l>>  BY DEF Label
  <2>. HIDE DEF x
  <2>2. Takes(x, L, Raise(a, n), a)  BY <2>1, <1>0, <1>s, <1>r DEF Takes, Jumps
  <2>3. Run(<<x>>, L, Raise(a, n), a)  BY <2>2, <1>s, <1>r, Runs
  <2>. QED  BY <2>3 DEF x
<1>3. ASSUME NEW n \in Nat, NEW c \in Stacks
      PROVE  Run(<<Jump("jmp", p, l)>>, L, Raise(a, n), c)
  <2>. DEFINE x == Jump("jmp", p, l)
  <2>1. x[1] = "jmp" /\ x[2] = <<p, l>>  BY DEF Jump
  <2>. HIDE DEF x
  <2>2. Takes(x, L, Raise(a, n), c)  BY <2>1, <1>0, <1>r DEF Takes, Jumps
  <2>3. Run(<<x>>, L, Raise(a, n), c)  BY <2>2, <1>r, Runs
  <2>. QED  BY <2>3 DEF x
<1>. QED  BY <1>1, <1>2, <1>3

\* A sequence that takes the state a to b.
Moves(c, L, a, b) == IsSeq(c) /\ Run(c, L, a, b)

\* One such text behind another.
LEMMA MovesConcat ==
  ASSUME NEW L, NEW a, NEW b, NEW e, NEW c, NEW d, Moves(c, L, a, b), Moves(d, L, b, e)
  PROVE  Moves(c \o d, L, a, e)
<1>1. IsSeq(c) /\ IsSeq(d) /\ Run(c, L, a, b) /\ Run(d, L, b, e)  BY DEF Moves
<1>2. IsSeq(c \o d)  BY <1>1, Concat
<1>3. Run(c \o d, L, a, e)  BY <1>1, Runs
<1>. QED  BY <1>2, <1>3 DEF Moves

\* The texts of gen() once more.
LEMMA TextMoves ==
  ASSUME NEW L, NEW a \in Steady
  PROVE  /\ Moves(<<>>, L, a, a)
         /\ \A r : Moves(<<<<"push_imm", r>>>>, L, a, Raise(a, 1))
         /\ Moves(Drop, L, Raise(a, 1), a) /\ Moves(Keep, L, a, Raise(a, 1))
         /\ \A offset : Moves(PushLocal(offset), L, a, Raise(a, 1))
         /\ \A name : Moves(PushSymbol(name), L, a, Raise(a, 1))
         /\ \A kind \in Binary : Moves(Operate(kind), L, a, a)
         /\ Moves(AlignStack, L, a, Padded(a, 2)) /\ Moves(UnalignStack, L, Padded(a, 2), Raise(a, 1))
         /\ \A n \in 0..6 : Moves(PopArguments(n), L, Raise(a, n), a)
         /\ a.marks = <<>> => \A b \in Stacks : Moves(Epilogue, L, a, b)
<1>. USE DEF Moves
<1>1. Moves(<<>>, L, a, a)
  <2>1. a \in Stacks  BY SteadyIs
  <2>. QED  BY <2>1, Tuple, Runs
<1>2. ASSUME NEW r  PROVE Moves(<<<<"push_imm", r>>>>, L, a, Raise(a, 1))
  <2>. DEFINE x == <<"push_imm", r>>
  <2>1. Run(<<x>>, L, a, Raise(a, 1))  BY OneRun
  <2>. HIDE DEF x
  <2>2. IsSeq(<<x>>)  BY Tuple
  <2>. QED  BY <2>1, <2>2 DEF x
<1>3. /\ IsSeq(Drop) /\ IsSeq(Keep) /\ IsSeq(AlignStack) /\ IsSeq(UnalignStack) /\ IsSeq(Epilogue)
      /\ \A offset : IsSeq(PushLocal(offset))
      /\ \A kind \in Binary : IsSeq(Operate(kind))
      /\ \A n \in 0..6 : IsSeq(PopArguments(n))
  <2>1. \A n \in 0..6 : n \in Nat  OBVIOUS
  <2>. QED  BY <2>1, PlainTexts DEF Plain
<1>4. \A name : IsSeq(PushSymbol(name))  BY MarkedTexts DEF Prints
<1>. HIDE DEF Moves
<1>5. /\ Run(Drop, L, Raise(a, 1), a) /\ Run(Keep, L, a, Raise(a, 1))
      /\ \A offset : Run(PushLocal(offset), L, a, Raise(a, 1))
      /\ \A name : Run(PushSymbol(name), L, a, Raise(a, 1))
      /\ \A kind \in Binary : Run(Operate(kind), L, a, a)
      /\ Run(AlignStack, L, a, Padded(a, 2)) /\ Run(UnalignStack, L, Padded(a, 2), Raise(a, 1))
      /\ \A n \in 0..6 : Run(PopArguments(n), L, Raise(a, n), a)
      /\ a.marks = <<>> => \A b \in Stacks : Run(Epilogue, L, a, b)
  BY TextRuns
<1>. QED  BY <1>1, <1>2, <1>3, <1>4, <1>5 DEF Moves

\* The texts of the calls with labels.
LEMMA LabelMoves ==
  ASSUME NEW L, NEW l, NEW a \in Level, \A p \in {"begin", "end", "else"} : L[<<p, l>>] = a.h
  PROVE  \A p, r \in {"begin", "end", "else"} :
           /\ Moves(IfZero(p, l), L, Raise(a, 1), a)
           /\ Moves(Drop \o <<Label(p, l)>> \o Keep, L, Raise(a, 1), Raise(a, 1))
           /\ Moves(Drop \o <<Jump("jmp", p, l), Label(r, l)>> \o Keep, L, Raise(a, 1), Raise(a, 1))
           /\ \A n \in Nat :
                /\ Moves(<<Label(p, l)>>, L, Raise(a, n), a)
                /\ Moves(<<Label(p, l)>> \o <<<<"push_imm", 1>>>>, L, Raise(a, n), Raise(a, 1))
                /\ Moves(<<Label(p, l)>> \o <<>>, L, Raise(a, n), a)
                /\ Moves(<<Jump("jmp", p, l), Label(r, l)>>, L, Raise(a, n), a)
                /\ Moves(<<Jump("jmp", p, l), Label(r, l)>> \o Keep, L, Raise(a, n), Raise(a, 1))
<1>. TAKE p, r \in {"begin", "end", "else"}
<1>. DEFINE P == <<<<"push_imm", 1>>>>
            B == <<Label(p, l)>>
            J == <<Jump("jmp", p, l), Label(r, l)>>
            a1 == Raise(a, 1)
<1>s. a \in Steady /\ a \in Stacks /\ Raise(a, 0) = a  BY SteadyIs DEF Level
<1>0. Moves(Drop, L, a1, a) /\ Moves(Keep, L, a, a1) /\ Moves(P, L, a, a1) /\ Moves(<<>>, L, a, a)
  BY <1>s, TextMoves
<1>1. Moves(IfZero(p, l), L, a1, a)
  <2>1. IsSeq(IfZero(p, l))  BY MarkedTexts DEF Prints
  <2>. QED  BY <2>1, LabelRuns DEF Moves
<1>2. ASSUME NEW n \in Nat  PROVE Moves(B, L, Raise(a, n), a)
  <2>1. IsSeq(B)  BY Tuple
  <2>2. Run(B, L, Raise(a, n), a)  BY LabelRuns
  <2>. QED  BY <2>1, <2>2 DEF Moves
<1>3. ASSUME NEW n \in Nat  PROVE Moves(J, L, Raise(a, n), a)
  <2>. DEFINE x == Jump("jmp", p, l)
              y == Label(r, l)
  <2>1. Run(<<x>>, L, Raise(a, n), a)  BY <1>s, LabelRuns
  <2>a. Run(<<y>>, L, a, a)
    <3>1. Run(<<y>>, L, Raise(a, 0), a)  BY LabelRuns
    <3>. QED  BY <3>1, <1>s
  <2>. HIDE DEF x, y
  <2>2. Run(<<x, y>>, L, Raise(a, n), a) /\ IsSeq(<<x, y>>)  BY <2>1, <2>a, FewRuns, Tuple
  <2>. QED  BY <2>2 DEF Moves, x, y
<1>. HIDE DEF P, B, J
<1>4. Moves(B, L, a, a) /\ Moves(J, L, a, a)
  <2>1. Moves(B, L, Raise(a, 0), a) /\ Moves(J, L, Raise(a, 0), a)  BY <1>2, <1>3
  <2>. QED  BY <2>1, <1>s
<1>. HIDE DEF a1
<1>5. Moves(Drop \o B, L, a1, a) /\ Moves(Drop \o J, L, a1, a)  BY <1>0, <1>4, MovesConcat
<1>6. Moves(Drop \o B \o Keep, L, a1, a1) /\ Moves(Drop \o J \o Keep, L, a1, a1)
  BY <1>0, <1>5, MovesConcat
<1>7. ASSUME NEW n \in Nat
      PROVE  /\ Moves(B \o P, L, Raise(a, n), a1) /\ Moves(B \o <<>>, L, Raise(a, n), a)
             /\ Moves(J \o Keep, L, Raise(a, n), a1)
  <2>1. Moves(B, L, Raise(a, n), a) /\ Moves(J, L, Raise(a, n), a)  BY <1>2, <1>3
  <2>. QED  BY <2>1, <1>0, MovesConcat
<1>. QED  BY <1>1, <1>2, <1>3, <1>6, <1>7 DEF P, B, J, a1

-----------------------------------------------------------------------------
(* The states of the work that is left. *)

\* The part x of the work takes the state a to b, with trees of T.
Allowed(x, L, T, a, b) ==
  \/ x.kind = "ASM" /\ Moves(x.code, L, a, b)
  \/ x.kind = "ERROR"
  \/ x = NoNode /\ b = a
  \/ /\ x \in T /\ a \in Steady /\ b = Raise(a, 1)
     /\ x.kind \in StatementKinds => a.marks = <<>>
  \/ /\ x.kind = "STRUCTREF" /\ IsSeq(x.path) /\ x.path # <<>>
     /\ b = a /\ \E c \in Steady : a = Raise(c, 1)
  \/ /\ x.kind = "FUNCDEF" /\ x.params \in UpToSix(Int) /\ x.offset \in Nat /\ x.body \in T
     /\ a = Outside /\ b = Outside
  \/ x.kind \in {"GVARDEF", "LITERAL", "STRUCTDEF"} /\ a = Outside /\ b = Outside
  \/ x = ZeroedNode /\ a = Outside /\ b = Outside

Does(x, L, T) == { p \in Stacks \X Stacks : Allowed(x, L, T, p[1], p[2]) }
Work(q, L, T) == [i \in DOMAIN q |-> Does(q[i], L, T)]
Works(q, L, T, a, b) == IsSeq(q) /\ Path(Work(q, L, T), a, b)

\* A pair of what a part does.
LEMMA DoesIs ==
  ASSUME NEW x, NEW L, NEW T, NEW a \in Stacks, NEW b \in Stacks
  PROVE  <<a, b>> \in Does(x, L, T) <=> Allowed(x, L, T, a, b)
<1>1. <<a, b>> \in Stacks \X Stacks /\ <<a, b>>[1] = a /\ <<a, b>>[2] = b  OBVIOUS
<1>. QED  BY <1>1 DEF Does

\* The relations of work are as many as its parts.
LEMMA WorkSeq ==
  ASSUME NEW q, IsSeq(q), NEW L, NEW T
  PROVE  /\ IsSeq(Work(q, L, T)) /\ Len(Work(q, L, T)) = Len(q)
         /\ \A i \in 1..Len(q) : Work(q, L, T)[i] = Does(q[i], L, T)
<1>. DEFINE t == Work(q, L, T)
            S == SUBSET (Stacks \X Stacks)
<1>1. Len(q) \in Nat /\ DOMAIN q = 1..Len(q)  BY SeqFacts
<1>2. \A i \in 1..Len(q) : Does(q[i], L, T) \in S  BY DEF Does
<1>3. t \in [1..Len(q) -> S] /\ \A i \in 1..Len(q) : t[i] = Does(q[i], L, T)
  BY <1>1, <1>2 DEF Work
<1>. HIDE DEF t, S
<1>4. t \in Seq(S) /\ Len(t) = Len(q)  BY <1>1, <1>3
<1>. QED  BY <1>3, <1>4 DEF t, IsSeq

\* Work in front of other work.
LEMMA WorksConcat ==
  ASSUME NEW L, NEW T, NEW a, NEW b, NEW c, NEW q, NEW r, Works(q, L, T, a, b), Works(r, L, T, b, c)
  PROVE  Works(q \o r, L, T, a, c)
<1>. DEFINE e == q \o r
            n == Len(q)
            m == Len(r)
            te == Work(e, L, T)
            tq == Work(q, L, T)
            tr == Work(r, L, T)
            s == tq \o tr
<1>0. IsSeq(q) /\ IsSeq(r) /\ Path(tq, a, b) /\ Path(tr, b, c)  BY DEF Works
<1>1. /\ IsSeq(e) /\ Len(e) = n + m /\ n \in Nat /\ m \in Nat
      /\ \A i \in 1..n : e[i] = q[i]
      /\ \A i \in 1..m : e[n + i] = r[i]
  BY <1>0, Concat, SeqFacts
<1>. HIDE DEF e
<1>2. IsSeq(te) /\ Len(te) = Len(e) /\ \A i \in 1..Len(e) : te[i] = Does(e[i], L, T)
  BY <1>1, WorkSeq
<1>3. /\ IsSeq(tq) /\ Len(tq) = n /\ \A i \in 1..n : tq[i] = Does(q[i], L, T)
      /\ IsSeq(tr) /\ Len(tr) = m /\ \A i \in 1..m : tr[i] = Does(r[i], L, T)
  BY <1>0, WorkSeq
<1>4. s = tq \o tr  OBVIOUS
<1>. HIDE DEF te, tq, tr, n, m, s
<1>5. \A i \in 1..n : te[i] = tq[i]  BY <1>1, <1>2, <1>3
<1>6. ASSUME NEW i \in 1..m  PROVE te[n + i] = tr[i]
  <2>1. n + i \in 1..Len(e)  BY <1>1
  <2>2. te[n + i] = Does(e[n + i], L, T)  BY <2>1, <1>2
  <2>. QED  BY <2>2, <1>1, <1>3
<1>7. /\ IsSeq(te) /\ IsSeq(tq) /\ IsSeq(tr) /\ Len(te) = Len(tq) + Len(tr)
      /\ \A i \in 1..Len(tq) : te[i] = tq[i]
      /\ \A i \in 1..Len(tr) : te[Len(tq) + i] = tr[i]
  BY <1>1, <1>2, <1>3, <1>5, <1>6
<1>8. te = s  BY <1>4, <1>7, IsConcat
<1>9. Path(s, a, c)  BY <1>0, <1>3, <1>4, PathConcat
<1>. QED  BY <1>1, <1>8, <1>9 DEF e, te, Works

\* Work of no parts and of one.
LEMMA ShortWorks ==
  ASSUME NEW L, NEW T
  PROVE  /\ \A a \in Stacks : Works(<<>>, L, T, a, a)
         /\ \A x : \A a, b \in Stacks : Allowed(x, L, T, a, b) => Works(<<x>>, L, T, a, b)
<1>1. ASSUME NEW a \in Stacks  PROVE Works(<<>>, L, T, a, a)
  <2>0. IsSeq(<<>>)  BY Tuple
  <2>1. Work(<<>>, L, T) = <<>>
    <3>. DEFINE t == Work(<<>>, L, T)
    <3>1. IsSeq(t) /\ Len(t) = 0  BY Tuple, WorkSeq
    <3>. HIDE DEF t
    <3>2. PICK S : t \in Seq(S)  BY <3>1 DEF IsSeq
    <3>3. t = <<>>  BY <3>1, <3>2
    <3>. QED  BY <3>3 DEF t
  <2>. QED  BY <2>0, <2>1, ShortPaths DEF Works
<1>2. ASSUME NEW x, NEW a \in Stacks, NEW b \in Stacks, Allowed(x, L, T, a, b)
      PROVE  Works(<<x>>, L, T, a, b)
  <2>. DEFINE R == Does(x, L, T)
              q == <<x>>
              t == Work(q, L, T)
  <2>1. IsSeq(q) /\ Len(q) = 1 /\ q[1] = x  BY Tuple
  <2>. HIDE DEF q
  <2>2. IsSeq(t) /\ Len(t) = 1 /\ t[1] = R  BY <2>1, WorkSeq
  <2>3. <<a, b>> \in R  BY <1>2, DoesIs
  <2>. HIDE DEF R, t
  <2>4. t = <<R>>
    <3>1. PICK S : t \in Seq(S)  BY <2>2 DEF IsSeq
    <3>. QED  BY <2>2, <3>1
  <2>5. Path(<<R>>, a, b)  BY <2>3, ShortPaths
  <2>. QED  BY <2>1, <2>4, <2>5 DEF t, q, Works
<1>. QED  BY <1>1, <1>2

\* Work begins with what its first part does.
LEMMA WorksHead ==
  ASSUME NEW L, NEW T, NEW a, NEW c, NEW q, q # <<>>, Works(q, L, T, a, c)
  PROVE  a \in Stacks /\ \E b \in Stacks : Allowed(Head(q), L, T, a, b) /\ Works(Tail(q), L, T, b, c)
<1>. DEFINE t == Work(q, L, T)
            r == Tail(q)
            tr == Work(r, L, T)
            u == Tail(t)
            n == Len(q)
<1>0. IsSeq(q) /\ Path(t, a, c)  BY DEF Works
<1>1. /\ n \in Nat \ {0} /\ IsSeq(r) /\ Len(r) = n - 1 /\ Head(q) = q[1]
      /\ \A i \in 1..n - 1 : r[i] = q[i + 1]
  <2>1. IsSeq(q) /\ q # <<>>  BY <1>0
  <2>2. n \in Nat  BY <2>1, SeqFacts
  <2>3. /\ n > 0 /\ IsSeq(r) /\ Len(r) = n - 1 /\ Head(q) = q[1]
        /\ \A i \in 1..n - 1 : r[i] = q[i + 1]
    BY <2>1, HeadTail
  <2>. HIDE DEF n, r
  <2>. QED  BY <2>2, <2>3
<1>2. IsSeq(t) /\ Len(t) = n /\ \A i \in 1..n : t[i] = Does(q[i], L, T)
  BY <1>0, WorkSeq
<1>. HIDE DEF r
<1>3. IsSeq(tr) /\ Len(tr) = n - 1 /\ \A i \in 1..n - 1 : tr[i] = Does(r[i], L, T)
  BY <1>1, WorkSeq
<1>. HIDE DEF t, tr, n
<1>4. t # <<>>
  <2>1. Len(<<>>) = 0  BY Tuple
  <2>. QED  BY <2>1, <1>1, <1>2
<1>5. IsSeq(u) /\ Len(u) = n - 1 /\ Head(t) = t[1] /\ \A i \in 1..n - 1 : u[i] = t[i + 1]
  BY <1>2, <1>4, HeadTail
<1>6. a \in Stacks /\ \E b \in Stacks : <<a, b>> \in Head(t) /\ Path(u, b, c)
  BY <1>0, <1>2, <1>4, PathHead
<1>. HIDE DEF u
<1>7. u = tr
  <2>1. ASSUME NEW i \in 1..n - 1  PROVE u[i] = tr[i]
    <3>1. i + 1 \in 1..n  BY <1>1
    <3>. QED  BY <3>1, <1>1, <1>2, <1>3, <1>5
  <2>2. PICK S : u \in Seq(S)  BY <1>5 DEF IsSeq
  <2>3. PICK R : tr \in Seq(R)  BY <1>3 DEF IsSeq
  <2>. DEFINE V == S \cup R
  <2>4. u \in Seq(V) /\ tr \in Seq(V)  BY <2>2, <2>3
  <2>. HIDE DEF V
  <2>. QED  BY <2>1, <2>4, <1>3, <1>5
<1>8. PICK b \in Stacks : <<a, b>> \in Head(t) /\ Path(u, b, c)  BY <1>6
<1>9. Head(t) = Does(Head(q), L, T)
  <2>1. 1 \in 1..n  BY <1>1
  <2>. QED  BY <2>1, <1>1, <1>2, <1>5
<1>10. Allowed(Head(q), L, T, a, b)  BY <1>6, <1>8, <1>9, DoesIs
<1>11. Works(r, L, T, b, c)  BY <1>1, <1>7, <1>8 DEF Works, tr
<1>. QED  BY <1>6, <1>10, <1>11 DEF r

\* A few parts.
LEMMA FewWorks ==
  ASSUME NEW L, NEW T, NEW a \in Stacks, NEW b \in Stacks, NEW c, NEW w, Allowed(w, L, T, a, b)
  PROVE  /\ \A x : Works(<<x>>, L, T, b, c) => Works(<<w, x>>, L, T, a, c)
         /\ \A x, y : Works(<<x, y>>, L, T, b, c) => Works(<<w, x, y>>, L, T, a, c)
         /\ \A x, y, z : Works(<<x, y, z>>, L, T, b, c) => Works(<<w, x, y, z>>, L, T, a, c)
         /\ \A x, y, z, k : Works(<<x, y, z, k>>, L, T, b, c) => Works(<<w, x, y, z, k>>, L, T, a, c)
         /\ \A x, y, z, k, l :
              Works(<<x, y, z, k, l>>, L, T, b, c) => Works(<<w, x, y, z, k, l>>, L, T, a, c)
         /\ \A x, y, z, k, l, m :
              Works(<<x, y, z, k, l, m>>, L, T, b, c) => Works(<<w, x, y, z, k, l, m>>, L, T, a, c)
<1>1. ASSUME NEW d, Works(d, L, T, b, c)  PROVE Works(<<w>> \o d, L, T, a, c)
  <2>1. Works(<<w>>, L, T, a, b)  BY ShortWorks
  <2>. QED  BY <1>1, <2>1, WorksConcat
<1>2. ASSUME NEW x, Works(<<x>>, L, T, b, c)  PROVE Works(<<w, x>>, L, T, a, c)
  <2>1. <<w, x>> = <<w>> \o <<x>>  BY Pieces
  <2>. QED  BY <1>1, <1>2, <2>1
<1>3. ASSUME NEW x, NEW y, Works(<<x, y>>, L, T, b, c)  PROVE Works(<<w, x, y>>, L, T, a, c)
  <2>1. <<w, x, y>> = <<w>> \o <<x, y>>  OBVIOUS
  <2>. QED  BY <1>1, <1>3, <2>1
<1>4. ASSUME NEW x, NEW y, NEW z, Works(<<x, y, z>>, L, T, b, c)
      PROVE  Works(<<w, x, y, z>>, L, T, a, c)
  <2>1. <<w, x, y, z>> = <<w>> \o <<x, y, z>>  OBVIOUS
  <2>. QED  BY <1>1, <1>4, <2>1
<1>5. ASSUME NEW x, NEW y, NEW z, NEW k, Works(<<x, y, z, k>>, L, T, b, c)
      PROVE  Works(<<w, x, y, z, k>>, L, T, a, c)
  <2>1. <<w, x, y, z, k>> = <<w>> \o <<x, y, z, k>>  OBVIOUS
  <2>. QED  BY <1>1, <1>5, <2>1
<1>6. ASSUME NEW x, NEW y, NEW z, NEW k, NEW l, Works(<<x, y, z, k, l>>, L, T, b, c)
      PROVE  Works(<<w, x, y, z, k, l>>, L, T, a, c)
  <2>1. <<w, x, y, z, k, l>> = <<w>> \o <<x, y, z, k, l>>  OBVIOUS
  <2>. QED  BY <1>1, <1>6, <2>1
<1>7. ASSUME NEW x, NEW y, NEW z, NEW k, NEW l, NEW m, Works(<<x, y, z, k, l, m>>, L, T, b, c)
      PROVE  Works(<<w, x, y, z, k, l, m>>, L, T, a, c)
  <2>1. <<w, x, y, z, k, l, m>> = <<w>> \o <<x, y, z, k, l, m>>  OBVIOUS
  <2>. QED  BY <1>1, <1>7, <2>1
<1>. QED  BY <1>2, <1>3, <1>4, <1>5, <1>6, <1>7

\* Parts with states between them.
LEMMA LongWorks ==
  ASSUME NEW L, NEW T, NEW q, IsSeq(q), NEW h \in [1..Len(q) + 1 -> Stacks],
         \A i \in 1..Len(q) : Allowed(q[i], L, T, h[i], h[i + 1])
  PROVE  Works(q, L, T, h[1], h[Len(q) + 1])
<1>. DEFINE t == Work(q, L, T)
            n == Len(q)
<1>1. n \in Nat  BY SeqFacts
<1>2. Len(t) = n /\ \A i \in 1..n : t[i] = Does(q[i], L, T)  BY WorkSeq
<1>. HIDE DEF t
<1>3. ASSUME NEW i \in 1..n  PROVE <<h[i], h[i + 1]>> \in t[i]
  <2>1. i \in 1..n + 1 /\ i + 1 \in 1..n + 1  BY <1>1
  <2>2. h[i] \in Stacks /\ h[i + 1] \in Stacks  BY <2>1
  <2>3. <<h[i], h[i + 1]>> \in Does(q[i], L, T)  BY <2>2, DoesIs
  <2>. QED  BY <2>3, <1>2
<1>4. Path(t, h[1], h[n + 1])  BY <1>2, <1>3 DEF Path
<1>. QED  BY <1>4 DEF t, Works

-----------------------------------------------------------------------------------------------------------------------------------------------
(* The work of a call. *)

\* Trees whose children are trees, none of which is a `struct S`.
Pure(T, G, N) == Closed(T, G, N) /\ \A x \in T : x.kind # "STRUCTDEF"

\* The first words on top of a state.
LEMMA Raises ==
  ASSUME NEW a \in Steady
  PROVE  /\ a \in Stacks /\ Raise(a, 1) \in Stacks /\ Raise(a, 2) \in Stacks
         /\ Raise(a, 1) \in Steady /\ Raise(a, 2) \in Steady
         /\ Raise(Raise(a, 1), 1) = Raise(a, 2)
<1>1. 1 \in Nat /\ 2 \in Nat /\ 1 + 1 = 2  OBVIOUS
<1>2. Raise(Raise(a, 1), 1) = Raise(a, 1 + 1)  BY <1>1, SteadyIs
<1>. QED  BY <1>1, <1>2, SteadyIs

\* Which children of a tree are expressions.
LEMMA Operands ==
  ASSUME NEW T, NEW G, NEW N, Closed(T, G, N), NEW E, E = Expressions(T), NEW x \in T
  PROVE  /\ x.kind \in Unary =>
              \/ x.lhs \in E
              \/ x.kind = "RETURN" /\ x.lhs = NoNode
              \/ x.kind = "ADDR" /\ x.lhs.kind = "LITERALREF" /\ x.lhs.index \in N
         /\ x.kind \in Pairs \cup {"IF_ELSE"} => x.lhs \in E
         /\ x.kind \in Binary \cup {"ASSIGN"} => x.rhs \in E
         /\ x.kind = "FOR" => /\ x.initstmt \in Optional(E) /\ x.testexpr \in Optional(E)
                              /\ x.updstmt \in Optional(E)
         /\ x.kind = "FUNCALL" => x.arg \in UpToSix(E)
<1>. USE DEF Unary, Pairs, Binary
<1>1. x \in Leaves(G, N) \/ x \in InnerNodes(T)  BY DEF Closed
<1>2. CASE x \in Leaves(G, N)
  <2>1. CASE x \in [kind : {"ADDR"}, lhs : [kind : {"LITERALREF"}, index : N]]
    BY <2>1
  <2>2. CASE x \notin [kind : {"ADDR"}, lhs : [kind : {"LITERALREF"}, index : N]]
    <3>1. x.kind \in {"NUM", "LVAR", "GVARREF", "STRUCTDEF"}
      BY <1>2, <2>2 DEF Leaves, LeafNodes, StructTypes
    <3>. QED  BY <3>1
  <2>. QED  BY <2>1, <2>2
<1>3. CASE x \in InnerNodes(T)
  <2>i. InnerNodes(T) = [kind : {"ADDR", "DEREF", "NOT"}, lhs : E]
          \cup [kind : {"CAST"}, lhs : E, type : TypeRecord]
          \cup [kind : {"RETURN"}, lhs : Optional(E)]
          \cup [kind : Binary \cup {"ASSIGN"}, lhs : E, rhs : E]
          \cup [kind : {"IF", "WHILE"}, lhs : E, rhs : T]
          \cup [kind : {"IF_ELSE"}, lhs : E, rhs : T, elsehs : T]
          \cup [kind : {"FOR"}, initstmt : Optional(E), testexpr : Optional(E),
                updstmt : Optional(E), lhs : T]
          \cup [kind : {"BLOCK"}, child : Seq(T)]
          \cup [kind : {"FUNCALL"}, name : STRING, arg : UpToSix(E)]
    BY DEF InnerNodes
  <2>0. CASE x \in [kind : {"RETURN"}, lhs : Optional(E)]
    BY <2>0 DEF Optional
  <2>1. CASE x \in [kind : {"ADDR", "DEREF", "NOT"}, lhs : E]
    BY <2>1
  <2>2. CASE x \in [kind : {"CAST"}, lhs : E, type : TypeRecord]
    BY <2>2
  <2>3. CASE \/ x \in [kind : Binary \cup {"ASSIGN"}, lhs : E, rhs : E]
             \/ x \in [kind : {"IF", "WHILE"}, lhs : E, rhs : T]
    BY <2>3
  <2>4. CASE x \in [kind : {"IF_ELSE"}, lhs : E, rhs : T, elsehs : T]
    BY <2>4
  <2>5. CASE x \in [kind : {"FOR"}, initstmt : Optional(E), testexpr : Optional(E),
                    updstmt : Optional(E), lhs : T]
    BY <2>5
  <2>6. CASE x \in [kind : {"BLOCK"}, child : Seq(T)]
    BY <2>6
  <2>7. CASE x \in [kind : {"FUNCALL"}, name : STRING, arg : UpToSix(E)]
    BY <2>7
  <2>. QED  BY <1>3, <2>0, <2>1, <2>2, <2>3, <2>4, <2>5, <2>6, <2>7, <2>i
<1>. QED  BY <1>1, <1>2, <1>3

\* The parts that calls of gen() have in common.
LEMMA PartsDo ==
  ASSUME NEW T, NEW L, NEW a \in Steady
  PROVE  /\ \A c, b : Moves(c, L, a, b) => Allowed(Asm(c), L, T, a, b)
         /\ \A x \in Expressions(T) : Allowed(x, L, T, a, Raise(a, 1))
         /\ a.marks = <<>> => \A x \in T : Allowed(x, L, T, a, Raise(a, 1))
         /\ \A b : Allowed(NoNode, L, T, a, a) /\ Allowed(Stop, L, T, a, b)
         /\ \A path : IsSeq(path) => Allowed(Refs(path), L, T, Raise(a, 1), Raise(a, 1))
         /\ \A x : Allowed(GenVariable(x), L, T, a, Raise(a, 1))
<1>1. ASSUME NEW c, NEW b, Moves(c, L, a, b)  PROVE Allowed(Asm(c), L, T, a, b)
  <2>1. Asm(c).kind = "ASM" /\ Asm(c).code = c  BY DEF Asm
  <2>. QED  BY <1>1, <2>1 DEF Allowed
<1>2. /\ \A x \in Expressions(T) : Allowed(x, L, T, a, Raise(a, 1))
      /\ a.marks = <<>> => \A x \in T : Allowed(x, L, T, a, Raise(a, 1))
  BY DEF Allowed, Expressions
<1>3. \A b : Allowed(NoNode, L, T, a, a) /\ Allowed(Stop, L, T, a, b)
  <2>1. Stop.kind = "ERROR"  BY DEF Stop
  <2>. QED  BY <2>1 DEF Allowed
<1>4. ASSUME NEW path, IsSeq(path)  PROVE Allowed(Refs(path), L, T, Raise(a, 1), Raise(a, 1))
  <2>1. CASE path = <<>>  BY <2>1 DEF Refs, Allowed
  <2>2. CASE path # <<>>
    <3>1. Refs(path).kind = "STRUCTREF" /\ Refs(path).path = path  BY <2>2 DEF Refs
    <3>. QED  BY <1>4, <2>2, <3>1 DEF Allowed
  <2>. QED  BY <2>1, <2>2
<1>5. ASSUME NEW x  PROVE Allowed(GenVariable(x), L, T, a, Raise(a, 1))
  <2>1. \A offset : Allowed(Asm(PushLocal(offset)), L, T, a, Raise(a, 1))  BY <1>1, TextMoves
  <2>2. \A name : Allowed(Asm(PushSymbol(name)), L, T, a, Raise(a, 1))  BY <1>1, TextMoves
  <2>. QED  BY <2>1, <2>2, <1>3 DEF GenVariable
<1>. QED  BY <1>1, <1>2, <1>3, <1>4, <1>5

\* Texts of a few instructions.
LEMMA ShortMoves ==
  ASSUME NEW L, NEW a, NEW b
  PROVE  /\ \A x : Run(<<x>>, L, a, b) => Moves(<<x>>, L, a, b)
         /\ \A x, y : Run(<<x, y>>, L, a, b) => Moves(<<x, y>>, L, a, b)
         /\ \A x, y, z : Run(<<x, y, z>>, L, a, b) => Moves(<<x, y, z>>, L, a, b)
BY Tuple DEF Moves

\* An operand off the stack and the result on it.
LEMMA Replaces ==
  ASSUME NEW L, NEW a \in Steady, NEW s, NEW r, NEW y, Still(y), s \notin {"rsp", "rbp"}
  PROVE  Run(<<<<"pop", s>>, y, <<"push", r>>>>, L, Raise(a, 1), Raise(a, 1))
<1>. DEFINE x == <<"pop", s>>
            z == <<"push", r>>
<1>1. Run(<<x>>, L, Raise(a, 1), a) /\ Run(<<y>>, L, a, a) /\ Run(<<z>>, L, a, Raise(a, 1))
  BY OneRun
<1>. HIDE DEF x, z
<1>2. Run(<<y, z>>, L, a, Raise(a, 1))  BY <1>1, FewRuns
<1>3. Run(<<x, y, z>>, L, Raise(a, 1), Raise(a, 1))  BY <1>1, <1>2, FewRuns
<1>. QED  BY <1>3 DEF x, z

\* A member's address, a value, the address an assignment stores to.
LEMMA AccessWorks ==
  ASSUME NEW T, NEW G, NEW N, Pure(T, G, N), NEW L, NEW a \in Steady
  PROVE  /\ \A x : IsSeq(x.path) /\ x.path # <<>> => Works(GenRef(x), L, T, Raise(a, 1), Raise(a, 1))
         /\ \A x \in T : x.kind \in {"LVAR", "GVARREF"} => Works(GenValue(x), L, T, a, Raise(a, 1))
         /\ \A x \in T : Works(GenTarget(x), L, T, a, Raise(a, 1))
<1>0. /\ a \in Stacks /\ Raise(a, 1) \in Stacks /\ Raise(a, 2) \in Stacks
      /\ Raise(a, 1) \in Steady /\ Raise(a, 2) \in Steady /\ Raise(Raise(a, 1), 1) = Raise(a, 2)
  BY Raises
<1>c. Closed(T, G, N)  BY DEF Pure
<1>1. ASSUME NEW x, IsSeq(x.path), x.path # <<>>  PROVE Works(GenRef(x), L, T, Raise(a, 1), Raise(a, 1))
  <2>. DEFINE ref == x.path[1]
              c == <<<<"pop", "rax">>>>
              d == IF ref.ptr THEN <<<<"load", "rax", "rax">>>> ELSE <<>>
              e == <<<<"add_imm", "rax", ref.offset>>, <<"push", "rax">>>>
              p == Asm(c \o d \o e)
              r == Refs(Tail(x.path))
  <2>1. Moves(c, L, Raise(a, 1), a)  BY OneRun, ShortMoves
  <2>2. Moves(d, L, a, a)
    <3>. DEFINE y == <<"load", "rax", "rax">>
    <3>1. Still(y)  BY DEF Still, Computes
    <3>. HIDE DEF y
    <3>2. Moves(<<y>>, L, a, a)  BY <3>1, OneRun, ShortMoves
    <3>3. Moves(<<>>, L, a, a)  BY TextMoves
    <3>. QED  BY <3>2, <3>3 DEF y
  <2>3. Moves(e, L, a, Raise(a, 1))
    <3>. DEFINE y == <<"add_imm", "rax", ref.offset>>
                z == <<"push", "rax">>
    <3>1. Still(y) /\ Run(<<z>>, L, a, Raise(a, 1))  BY OneRun DEF Still, Computes
    <3>. HIDE DEF y, z
    <3>2. Run(<<y>>, L, a, a)  BY <3>1, OneRun
    <3>3. Moves(<<y, z>>, L, a, Raise(a, 1))  BY <3>1, <3>2, FewRuns, ShortMoves
    <3>. QED  BY <3>3 DEF y, z
  <2>4. GenRef(x) = <<p, r>>  BY DEF GenRef
  <2>. HIDE DEF c, d, e
  <2>5. Moves(c \o d, L, Raise(a, 1), a)  BY <2>1, <2>2, MovesConcat
  <2>6. Moves(c \o d \o e, L, Raise(a, 1), Raise(a, 1))  BY <2>3, <2>5, MovesConcat
  <2>7. Allowed(p, L, T, Raise(a, 1), Raise(a, 1))  BY <2>6, <1>0, PartsDo
  <2>8. IsSeq(Tail(x.path))  BY <1>1, HeadTail
  <2>9. Allowed(r, L, T, Raise(a, 1), Raise(a, 1))  BY <2>8, PartsDo
  <2>. HIDE DEF p, r
  <2>10. Works(<<r>>, L, T, Raise(a, 1), Raise(a, 1))  BY <2>9, <1>0, ShortWorks
  <2>11. Works(<<p, r>>, L, T, Raise(a, 1), Raise(a, 1))  BY <2>7, <2>10, <1>0, FewWorks
  <2>. QED  BY <2>4, <2>11
<1>2. ASSUME NEW x \in T, x.kind \in {"LVAR", "GVARREF"}  PROVE Works(GenValue(x), L, T, a, Raise(a, 1))
  <2>. DEFINE load == IF x.kind = "LVAR" /\ x.byte THEN "load_byte" ELSE "load"
              y == <<load, "rax", "rax">>
              c == <<<<"pop", "rax">>, y, <<"push", "rax">>>>
              p == GenVariable(x)
              r == Refs(x.path)
              k == Asm(c)
  <2>1. GenValue(x) = <<p, r, k>>  BY DEF GenValue
  <2>2. Still(y)
    <3>1. y[1] \in {"load", "load_byte"}  OBVIOUS
    <3>2. y[2] = "rax"  OBVIOUS
    <3>. HIDE DEF y
    <3>. QED  BY <3>1, <3>2 DEF Still, Computes
  <2>. HIDE DEF y
  <2>3. Run(c, L, Raise(a, 1), Raise(a, 1))  BY <2>2, Replaces
  <2>4. Moves(c, L, Raise(a, 1), Raise(a, 1))  BY <2>3, ShortMoves
  <2>. HIDE DEF c
  <2>5. Allowed(k, L, T, Raise(a, 1), Raise(a, 1))  BY <2>4, <1>0, PartsDo
  <2>6. IsSeq(x.path)  BY <1>c, <1>2, Shapes
  <2>7. Allowed(p, L, T, a, Raise(a, 1)) /\ Allowed(r, L, T, Raise(a, 1), Raise(a, 1))  BY <2>6, PartsDo
  <2>. HIDE DEF p, r, k
  <2>8. Works(<<k>>, L, T, Raise(a, 1), Raise(a, 1))  BY <2>5, <1>0, ShortWorks
  <2>9. Works(<<r, k>>, L, T, Raise(a, 1), Raise(a, 1))  BY <2>7, <2>8, <1>0, FewWorks
  <2>10. Works(<<p, r, k>>, L, T, a, Raise(a, 1))  BY <2>7, <2>9, <1>0, FewWorks
  <2>. QED  BY <2>1, <2>10
<1>3. ASSUME NEW x \in T  PROVE Works(GenTarget(x), L, T, a, Raise(a, 1))
  <2>1. CASE x.kind = "DEREF"
    <3>1. x.lhs \in Expressions(T)  BY <2>1, <1>c, Operands DEF Unary
    <3>2. Allowed(x.lhs, L, T, a, Raise(a, 1))  BY <3>1, PartsDo
    <3>3. Works(<<x.lhs>>, L, T, a, Raise(a, 1))  BY <3>2, <1>0, ShortWorks
    <3>. QED  BY <2>1, <3>3 DEF GenTarget
  <2>2. CASE x.kind # "DEREF"
    <3>. DEFINE p == GenVariable(x)
                r == IF "path" \in DOMAIN x THEN Refs(x.path) ELSE NoNode
    <3>1. GenTarget(x) = <<p, r>>  BY <2>2 DEF GenTarget
    <3>2. Allowed(p, L, T, a, Raise(a, 1))  BY PartsDo
    <3>3. Allowed(r, L, T, Raise(a, 1), Raise(a, 1))
      <4>1. CASE "path" \in DOMAIN x
        <5>1. IsSeq(x.path)  BY <4>1, <1>c, Shapes
        <5>. QED  BY <4>1, <5>1, PartsDo
      <4>2. CASE "path" \notin DOMAIN x
        <5>1. Allowed(NoNode, L, T, Raise(a, 1), Raise(a, 1))  BY <1>0, PartsDo
        <5>. QED  BY <4>2, <5>1
      <4>. QED  BY <4>1, <4>2
    <3>. HIDE DEF p, r
    <3>4. Works(<<r>>, L, T, Raise(a, 1), Raise(a, 1))  BY <3>3, <1>0, ShortWorks
    <3>5. Works(<<p, r>>, L, T, a, Raise(a, 1))  BY <3>2, <3>4, <1>0, FewWorks
    <3>. QED  BY <3>1, <3>5
  <2>. QED  BY <2>1, <2>2
<1>. QED  BY <1>1, <1>2, <1>3

\* Two operands off the stack.
LEMMA TwoPops ==
  ASSUME NEW L, NEW a \in Steady
  PROVE  Moves(<<<<"pop", "rdi">>, <<"pop", "rax">>>>, L, Raise(a, 2), a)
<1>. DEFINE x == <<"pop", "rdi">>
            y == <<"pop", "rax">>
<1>1. /\ Raise(a, 1) \in Steady /\ Raise(Raise(a, 1), 1) = Raise(a, 2)
      /\ "rdi" \notin {"rsp", "rbp"} /\ "rax" \notin {"rsp", "rbp"}
  BY Raises
<1>2. Run(<<x>>, L, Raise(Raise(a, 1), 1), Raise(a, 1)) /\ Run(<<y>>, L, Raise(a, 1), a)  BY <1>1, OneRun
<1>. HIDE DEF x, y
<1>3. Run(<<x>>, L, Raise(a, 2), Raise(a, 1))  BY <1>1, <1>2
<1>4. Moves(<<x, y>>, L, Raise(a, 2), a)  BY <1>2, <1>3, FewRuns, ShortMoves
<1>. QED  BY <1>4 DEF x, y

\* The operators, and whatever else has one operand.
LEMMA OperatorWorks ==
  ASSUME NEW T, NEW E, E = Expressions(T), NEW L, NEW a \in Steady, NEW x
  PROVE  /\ x.kind \in Binary /\ x.lhs \in E /\ x.rhs \in E => Works(GenBinary(x), L, T, a, Raise(a, 1))
         /\ x.lhs \in E => Works(GenNot(x), L, T, a, Raise(a, 1)) /\ Works(GenDeref(x), L, T, a, Raise(a, 1))
         /\ x.lhs \in Optional(E) /\ a.marks = <<>> => Works(GenReturn(x), L, T, a, Raise(a, 1))
<1>0. /\ a \in Stacks /\ Raise(a, 1) \in Stacks /\ Raise(a, 2) \in Stacks
      /\ Raise(a, 1) \in Steady /\ Raise(a, 2) \in Steady /\ Raise(Raise(a, 1), 1) = Raise(a, 2)
  BY Raises
<1>1. ASSUME x.kind \in Binary, x.lhs \in E, x.rhs \in E
      PROVE  Works(GenBinary(x), L, T, a, Raise(a, 1))
  <2>. DEFINE c == <<<<"pop", "rdi">>, <<"pop", "rax">>>>
              d == Operate(x.kind)
              p == Asm(c \o d \o Keep)
              u == x.lhs
              v == x.rhs
  <2>1. Moves(c, L, Raise(a, 2), a)  BY TwoPops
  <2>2. Moves(d, L, a, a) /\ Moves(Keep, L, a, Raise(a, 1))  BY <1>1, TextMoves
  <2>3. GenBinary(x) = <<u, v, p>>  BY DEF GenBinary
  <2>. HIDE DEF c, d
  <2>4. Moves(c \o d, L, Raise(a, 2), a)  BY <2>1, <2>2, MovesConcat
  <2>5. Moves(c \o d \o Keep, L, Raise(a, 2), Raise(a, 1))  BY <2>2, <2>4, MovesConcat
  <2>6. Allowed(p, L, T, Raise(a, 2), Raise(a, 1))  BY <2>5, <1>0, PartsDo
  <2>7. Allowed(u, L, T, a, Raise(a, 1))  BY <1>1, PartsDo
  <2>8. Allowed(v, L, T, Raise(a, 1), Raise(a, 2))  BY <1>1, <1>0, PartsDo
  <2>. HIDE DEF p, u, v
  <2>9. Works(<<p>>, L, T, Raise(a, 2), Raise(a, 1))  BY <2>6, <1>0, ShortWorks
  <2>10. Works(<<v, p>>, L, T, Raise(a, 1), Raise(a, 1))  BY <2>8, <2>9, <1>0, FewWorks
  <2>11. Works(<<u, v, p>>, L, T, a, Raise(a, 1))  BY <2>7, <2>10, <1>0, FewWorks
  <2>. QED  BY <2>3, <2>11
<1>2. ASSUME x.lhs \in E, NEW y, Still(y)
      PROVE  Works(<<x.lhs, Asm(Drop \o <<y, <<"push", "rax">>>>)>>, L, T, a, Raise(a, 1))
  <2>. DEFINE z == <<"push", "rax">>
              c == <<y, z>>
              p == Asm(Drop \o c)
              u == x.lhs
  <2>1. Run(<<y>>, L, a, a) /\ Run(<<z>>, L, a, Raise(a, 1))  BY <1>2, OneRun
  <2>. HIDE DEF z
  <2>2. Moves(c, L, a, Raise(a, 1))  BY <2>1, FewRuns, ShortMoves
  <2>. HIDE DEF c
  <2>3. Moves(Drop \o c, L, Raise(a, 1), Raise(a, 1))  BY <2>2, TextMoves, MovesConcat
  <2>4. Allowed(p, L, T, Raise(a, 1), Raise(a, 1))  BY <2>3, <1>0, PartsDo
  <2>5. Allowed(u, L, T, a, Raise(a, 1))  BY <1>2, PartsDo
  <2>. HIDE DEF p, u
  <2>6. Works(<<p>>, L, T, Raise(a, 1), Raise(a, 1))  BY <2>4, <1>0, ShortWorks
  <2>7. Works(<<u, p>>, L, T, a, Raise(a, 1))  BY <2>5, <2>6, <1>0, FewWorks
  <2>. QED  BY <2>7 DEF p, u, c, z
<1>3. ASSUME x.lhs \in E
      PROVE  Works(GenNot(x), L, T, a, Raise(a, 1)) /\ Works(GenDeref(x), L, T, a, Raise(a, 1))
  <2>1. Still(<<"xor_imm", "rax", 1>>) /\ Still(<<"load", "rax", "rax">>)  BY DEF Still, Computes
  <2>. QED  BY <1>2, <1>3, <2>1 DEF GenNot, GenDeref
<1>4. ASSUME x.lhs \in Optional(E), a.marks = <<>>  PROVE Works(GenReturn(x), L, T, a, Raise(a, 1))
  <2>1. CASE x.lhs = NoNode
    <3>. DEFINE y == <<"mov_imm", "rax", 0>>
                p == Asm(<<y>> \o Epilogue)
    <3>1. Still(y)  BY DEF Still, Computes
    <3>2. GenReturn(x) = <<p>>  BY <2>1 DEF GenReturn
    <3>. HIDE DEF y
    <3>3. Moves(<<y>>, L, a, a)  BY <3>1, OneRun, ShortMoves
    <3>4. Moves(Epilogue, L, a, Raise(a, 1))  BY <1>0, <1>4, TextMoves
    <3>5. Moves(<<y>> \o Epilogue, L, a, Raise(a, 1))  BY <3>3, <3>4, MovesConcat
    <3>6. Allowed(p, L, T, a, Raise(a, 1))  BY <3>5, PartsDo
    <3>. HIDE DEF p
    <3>. QED  BY <3>2, <3>6, <1>0, ShortWorks
  <2>2. CASE x.lhs # NoNode
    <3>. DEFINE p == Asm(Drop \o Epilogue)
                u == x.lhs
    <3>1. GenReturn(x) = <<u, p>>  BY <2>2 DEF GenReturn
    <3>2. Moves(Drop, L, Raise(a, 1), a) /\ Moves(Epilogue, L, a, Raise(a, 1))  BY <1>0, <1>4, TextMoves
    <3>3. Moves(Drop \o Epilogue, L, Raise(a, 1), Raise(a, 1))  BY <3>2, MovesConcat
    <3>4. Allowed(p, L, T, Raise(a, 1), Raise(a, 1))  BY <3>3, <1>0, PartsDo
    <3>5. Allowed(u, L, T, a, Raise(a, 1))  BY <1>4, <2>2, PartsDo DEF Optional
    <3>. HIDE DEF p, u
    <3>6. Works(<<p>>, L, T, Raise(a, 1), Raise(a, 1))  BY <3>4, <1>0, ShortWorks
    <3>7. Works(<<u, p>>, L, T, a, Raise(a, 1))  BY <3>5, <3>6, <1>0, FewWorks
    <3>. QED  BY <3>1, <3>7
  <2>. QED  BY <2>1, <2>2
<1>. QED  BY <1>1, <1>3, <1>4

\* An assignment.
LEMMA AssignWorks ==
  ASSUME NEW T, NEW G, NEW N, Pure(T, G, N), NEW L, NEW a \in Steady, NEW x,
         x.lhs \in T, x.rhs \in Expressions(T)
  PROVE  Works(GenAssign(x), L, T, a, Raise(a, 1))
<1>0. /\ a \in Stacks /\ Raise(a, 1) \in Stacks /\ Raise(a, 2) \in Stacks
      /\ Raise(a, 1) \in Steady /\ Raise(a, 2) \in Steady /\ Raise(Raise(a, 1), 1) = Raise(a, 2)
  BY Raises
<1>. DEFINE c == <<<<"pop", "rdi">>, <<"pop", "rax">>>>
            y == <<"store", "rax", "rdi">>
            z == <<"push", "rdi">>
            d == <<y, z>>
            e == <<<<"pop", "rdi">>, <<"pop", "rax">>, y, z>>
            p == Asm(e)
            v == x.rhs
            t == GenTarget(x.lhs)
<1>1. Works(t, L, T, a, Raise(a, 1))  BY AccessWorks
<1>2. Moves(c, L, Raise(a, 2), a)  BY TwoPops
<1>3. Still(y) /\ Run(<<z>>, L, a, Raise(a, 1))  BY OneRun DEF Still, Computes
<1>4. GenAssign(x) = t \o <<v, p>>  BY DEF GenAssign
<1>5. e = c \o d  OBVIOUS
<1>. HIDE DEF c, y, z, e, t
<1>6. Run(<<y>>, L, a, a)  BY <1>3, OneRun
<1>7. Moves(d, L, a, Raise(a, 1))  BY <1>3, <1>6, FewRuns, ShortMoves
<1>. HIDE DEF d
<1>8. Moves(c \o d, L, Raise(a, 2), Raise(a, 1))  BY <1>2, <1>7, MovesConcat
<1>9. Allowed(p, L, T, Raise(a, 2), Raise(a, 1))  BY <1>0, <1>5, <1>8, PartsDo
<1>10. Allowed(v, L, T, Raise(a, 1), Raise(a, 2))  BY <1>0, PartsDo
<1>. HIDE DEF p, v
<1>11. Works(<<p>>, L, T, Raise(a, 2), Raise(a, 1))  BY <1>9, <1>0, ShortWorks
<1>12. Works(<<v, p>>, L, T, Raise(a, 1), Raise(a, 1))  BY <1>10, <1>11, <1>0, FewWorks
<1>13. Works(t \o <<v, p>>, L, T, a, Raise(a, 1))  BY <1>1, <1>12, WorksConcat
<1>. QED  BY <1>4, <1>13

\* The branches and the loops.
LEMMA BranchWorks ==
  ASSUME NEW T, NEW E, E = Expressions(T), NEW L, NEW l, NEW a \in Level,
         \A p \in {"begin", "end", "else"} : L[<<p, l>>] = a.h, NEW x
  PROVE  /\ x.lhs \in E /\ x.rhs \in T => /\ Works(GenIf(x, l), L, T, a, Raise(a, 1))
                                          /\ Works(GenWhile(x, l), L, T, a, Raise(a, 1))
         /\ x.lhs \in E /\ x.rhs \in T /\ x.elsehs \in T => Works(GenIfElse(x, l), L, T, a, Raise(a, 1))
         /\ x.lhs \in T /\ {x.initstmt, x.testexpr, x.updstmt} \subseteq Optional(E)
              => Works(GenFor(x, l), L, T, a, Raise(a, 1))
<1>0. /\ a \in Stacks /\ Raise(a, 1) \in Stacks /\ Raise(a, 2) \in Stacks
      /\ Raise(a, 1) \in Steady /\ Raise(a, 2) \in Steady /\ Raise(Raise(a, 1), 1) = Raise(a, 2)
  BY Raises DEF Level
<1>s. a \in Steady /\ a.marks = <<>> /\ Raise(a, 0) = a  BY SteadyIs DEF Level
<1>. DEFINE zero(p) == Asm(IfZero(p, l))
            start == Asm(<<Label("begin", l)>>)
            end == Asm(Drop \o <<Label("end", l)>> \o Keep)
            again == Asm(Drop \o <<Jump("jmp", "begin", l), Label("end", l)>> \o Keep)
            turn == Asm(<<Jump("jmp", "end", l), Label("else", l)>>)
            once == Asm(<<Jump("jmp", "begin", l), Label("end", l)>> \o Keep)
            test == Asm(<<Label("begin", l)>>
                         \o (IF x.testexpr = NoNode THEN <<<<"push_imm", 1>>>> ELSE <<>>))
<1>1. /\ Allowed(zero("end"), L, T, Raise(a, 1), a) /\ Allowed(zero("else"), L, T, Raise(a, 1), a)
      /\ Allowed(start, L, T, a, a)
      /\ Allowed(end, L, T, Raise(a, 1), Raise(a, 1)) /\ Allowed(again, L, T, Raise(a, 1), Raise(a, 1))
      /\ Allowed(turn, L, T, Raise(a, 1), a)
      /\ \A b \in {Raise(a, 1), Raise(a, 2)} : Allowed(once, L, T, b, Raise(a, 1))
  <2>0. 0 \in Nat /\ 1 \in Nat /\ 2 \in Nat  OBVIOUS
  <2>1. /\ Moves(IfZero("end", l), L, Raise(a, 1), a) /\ Moves(IfZero("else", l), L, Raise(a, 1), a)
        /\ Moves(<<Label("begin", l)>>, L, a, a)
        /\ Moves(Drop \o <<Label("end", l)>> \o Keep, L, Raise(a, 1), Raise(a, 1))
        /\ Moves(Drop \o <<Jump("jmp", "begin", l), Label("end", l)>> \o Keep, L, Raise(a, 1), Raise(a, 1))
        /\ Moves(<<Jump("jmp", "end", l), Label("else", l)>>, L, Raise(a, 1), a)
        /\ \A b \in {Raise(a, 1), Raise(a, 2)} :
             Moves(<<Jump("jmp", "begin", l), Label("end", l)>> \o Keep, L, b, Raise(a, 1))
    BY <1>0, <1>s, <2>0, LabelMoves
  <2>. QED  BY <2>1, <1>0, <1>s, PartsDo
<1>2. \A b \in {a, Raise(a, 1)} :
        Allowed(test, L, T, b, IF x.testexpr = NoNode THEN Raise(a, 1) ELSE a)
  <2>0. 0 \in Nat /\ 1 \in Nat  OBVIOUS
  <2>1. SUFFICES ASSUME NEW b \in {a, Raise(a, 1)}
                 PROVE  Allowed(test, L, T, b, IF x.testexpr = NoNode THEN Raise(a, 1) ELSE a)
    OBVIOUS
  <2>2. /\ Moves(<<Label("begin", l)>> \o <<<<"push_imm", 1>>>>, L, b, Raise(a, 1))
        /\ Moves(<<Label("begin", l)>> \o <<>>, L, b, a)
    BY <1>0, <1>s, <2>0, LabelMoves
  <2>. QED  BY <2>2, <1>0, <1>s, PartsDo
<1>. HIDE DEF zero, start, end, again, turn, once, test
<1>3. ASSUME x.lhs \in E, x.rhs \in T  PROVE Works(GenIf(x, l), L, T, a, Raise(a, 1))
  <2>. DEFINE u == x.lhs
              v == x.rhs
              z == zero("end")
  <2>1. GenIf(x, l) = <<u, z, v, end>>  BY DEF GenIf, zero, end
  <2>2. /\ Allowed(u, L, T, a, Raise(a, 1)) /\ Allowed(z, L, T, Raise(a, 1), a)
        /\ Allowed(v, L, T, a, Raise(a, 1)) /\ Allowed(end, L, T, Raise(a, 1), Raise(a, 1))
    BY <1>1, <1>3, <1>s, PartsDo
  <2>. HIDE DEF u, v, z
  <2>3. Works(<<end>>, L, T, Raise(a, 1), Raise(a, 1))  BY <2>2, <1>0, ShortWorks
  <2>4. Works(<<v, end>>, L, T, a, Raise(a, 1))  BY <2>2, <2>3, <1>0, FewWorks
  <2>5. Works(<<z, v, end>>, L, T, Raise(a, 1), Raise(a, 1))  BY <2>2, <2>4, <1>0, FewWorks
  <2>6. Works(<<u, z, v, end>>, L, T, a, Raise(a, 1))  BY <2>2, <2>5, <1>0, FewWorks
  <2>. QED  BY <2>1, <2>6
<1>4. ASSUME x.lhs \in E, x.rhs \in T  PROVE Works(GenWhile(x, l), L, T, a, Raise(a, 1))
  <2>. DEFINE u == x.lhs
              v == x.rhs
              z == zero("end")
  <2>1. GenWhile(x, l) = <<start, u, z, v, again>>  BY DEF GenWhile, zero, start, again
  <2>2. /\ Allowed(u, L, T, a, Raise(a, 1)) /\ Allowed(z, L, T, Raise(a, 1), a)
        /\ Allowed(v, L, T, a, Raise(a, 1))
    BY <1>1, <1>4, <1>s, PartsDo
  <2>. HIDE DEF u, v, z
  <2>3. Works(<<again>>, L, T, Raise(a, 1), Raise(a, 1))  BY <1>1, <1>0, ShortWorks
  <2>4. Works(<<v, again>>, L, T, a, Raise(a, 1))  BY <2>2, <2>3, <1>0, FewWorks
  <2>5. Works(<<z, v, again>>, L, T, Raise(a, 1), Raise(a, 1))  BY <2>2, <2>4, <1>0, FewWorks
  <2>6. Works(<<u, z, v, again>>, L, T, a, Raise(a, 1))  BY <2>2, <2>5, <1>0, FewWorks
  <2>7. Works(<<start, u, z, v, again>>, L, T, a, Raise(a, 1))  BY <1>1, <2>6, <1>0, FewWorks
  <2>. QED  BY <2>1, <2>7
<1>5. ASSUME x.lhs \in E, x.rhs \in T, x.elsehs \in T  PROVE Works(GenIfElse(x, l), L, T, a, Raise(a, 1))
  <2>. DEFINE u == x.lhs
              v == x.rhs
              w == x.elsehs
              z == zero("else")
  <2>1. GenIfElse(x, l) = <<u, z, v, turn, w, end>>  BY DEF GenIfElse, zero, turn, end
  <2>2. /\ Allowed(u, L, T, a, Raise(a, 1)) /\ Allowed(z, L, T, Raise(a, 1), a)
        /\ Allowed(v, L, T, a, Raise(a, 1)) /\ Allowed(w, L, T, a, Raise(a, 1))
    BY <1>1, <1>5, <1>s, PartsDo
  <2>. HIDE DEF u, v, w, z
  <2>3. Works(<<end>>, L, T, Raise(a, 1), Raise(a, 1))  BY <1>1, <1>0, ShortWorks
  <2>4. Works(<<w, end>>, L, T, a, Raise(a, 1))  BY <2>2, <2>3, <1>0, FewWorks
  <2>5. Works(<<turn, w, end>>, L, T, Raise(a, 1), Raise(a, 1))  BY <1>1, <2>4, <1>0, FewWorks
  <2>6. Works(<<v, turn, w, end>>, L, T, a, Raise(a, 1))  BY <2>2, <2>5, <1>0, FewWorks
  <2>7. Works(<<z, v, turn, w, end>>, L, T, Raise(a, 1), Raise(a, 1))  BY <2>2, <2>6, <1>0, FewWorks
  <2>8. Works(<<u, z, v, turn, w, end>>, L, T, a, Raise(a, 1))  BY <2>2, <2>7, <1>0, FewWorks
  <2>. QED  BY <2>1, <2>8
<1>6. ASSUME x.lhs \in T, x.initstmt \in Optional(E), x.testexpr \in Optional(E), x.updstmt \in Optional(E)
      PROVE  Works(GenFor(x, l), L, T, a, Raise(a, 1))
  <2>. DEFINE i == x.initstmt
              t == x.testexpr
              b == x.lhs
              u == x.updstmt
              z == zero("end")
              d == IF x.testexpr = NoNode THEN Raise(a, 1) ELSE a
  <2>1. GenFor(x, l) = <<i, test, t, z, b, u, once>>  BY DEF GenFor, zero, test, once
  <2>2. Allowed(z, L, T, Raise(a, 1), a) /\ Allowed(b, L, T, a, Raise(a, 1))  BY <1>1, <1>6, <1>s, PartsDo
  <2>3. PICK e \in {a, Raise(a, 1)} : Allowed(i, L, T, a, e)
    <3>1. CASE i \in E  BY <3>1, <1>s, PartsDo
    <3>2. CASE i = NoNode  BY <3>2, <1>s, PartsDo
    <3>. QED  BY <1>6, <3>1, <3>2 DEF Optional
  <2>4. PICK f \in {Raise(a, 1), Raise(a, 2)} : Allowed(u, L, T, Raise(a, 1), f)
    <3>1. CASE u \in E
      <4>1. Allowed(u, L, T, Raise(a, 1), Raise(Raise(a, 1), 1))  BY <3>1, <1>0, <1>s, PartsDo
      <4>. QED  BY <4>1, <1>0
    <3>2. CASE u = NoNode
      <4>1. Allowed(u, L, T, Raise(a, 1), Raise(a, 1))  BY <3>2, <1>0, <1>s, PartsDo
      <4>. QED  BY <4>1
    <3>. QED  BY <1>6, <3>1, <3>2 DEF Optional
  <2>5. Allowed(test, L, T, e, d)  BY <1>2, <2>3
  <2>6. Allowed(t, L, T, d, Raise(a, 1))
    <3>1. CASE x.testexpr = NoNode
      <4>1. Allowed(NoNode, L, T, Raise(a, 1), Raise(a, 1))  BY <1>0, <1>s, PartsDo
      <4>. QED  BY <3>1, <4>1
    <3>2. CASE x.testexpr # NoNode
      <4>1. t \in E  BY <3>2, <1>6 DEF Optional
      <4>. QED  BY <3>2, <4>1, <1>s, PartsDo
    <3>. QED  BY <3>1, <3>2
  <2>7. Allowed(once, L, T, f, Raise(a, 1))  BY <1>1, <2>4
  <2>8. d \in Stacks /\ e \in Stacks /\ f \in Stacks  BY <1>0, <2>3, <2>4
  <2>. HIDE DEF i, t, b, u, z, d
  <2>9. Works(<<once>>, L, T, f, Raise(a, 1))  BY <2>7, <2>8, <1>0, ShortWorks
  <2>10. Works(<<u, once>>, L, T, Raise(a, 1), Raise(a, 1))  BY <2>4, <2>8, <2>9, <1>0, FewWorks
  <2>11. Works(<<b, u, once>>, L, T, a, Raise(a, 1))  BY <2>2, <2>10, <1>0, FewWorks
  <2>12. Works(<<z, b, u, once>>, L, T, Raise(a, 1), Raise(a, 1))  BY <2>2, <2>11, <1>0, FewWorks
  <2>13. Works(<<t, z, b, u, once>>, L, T, d, Raise(a, 1))  BY <2>6, <2>8, <2>12, <1>0, FewWorks
  <2>14. Works(<<test, t, z, b, u, once>>, L, T, e, Raise(a, 1))  BY <2>5, <2>8, <2>13, FewWorks
  <2>15. Works(<<i, test, t, z, b, u, once>>, L, T, a, Raise(a, 1))  BY <2>3, <2>8, <2>14, <1>0, FewWorks
  <2>. QED  BY <2>1, <2>15
<1>. QED  BY <1>3, <1>4, <1>5, <1>6

\* The arguments of a call.
LEMMA ArgumentWorks ==
  ASSUME NEW T, NEW L, NEW a \in Steady, NEW q \in Seq(Expressions(T))
  PROVE  Works(q, L, T, a, Raise(a, Len(q)))
<1>. DEFINE n == Len(q)
            E == Expressions(T)
            h == [i \in 1..n + 1 |-> Raise(a, i - 1)]
<1>1. n \in Nat /\ IsSeq(q) /\ \A i \in 1..n : q[i] \in E  BY DEF IsSeq
<1>. HIDE DEF n, E
<1>2. h \in [1..n + 1 -> Stacks] /\ \A i \in 1..n + 1 : h[i] = Raise(a, i - 1)
  <2>1. \A i \in 1..n + 1 : i - 1 \in Nat  BY <1>1
  <2>2. \A i \in 1..n + 1 : Raise(a, i - 1) \in Stacks  BY <2>1, SteadyIs
  <2>. QED  BY <2>2
<1>. HIDE DEF h
<1>3. ASSUME NEW i \in 1..n  PROVE Allowed(q[i], L, T, h[i], h[i + 1])
  <2>. DEFINE b == h[i]
  <2>1. /\ i \in 1..n + 1 /\ i + 1 \in 1..n + 1 /\ i - 1 \in Nat /\ (i + 1) - 1 = (i - 1) + 1
        /\ 1 \in Nat
    BY <1>1
  <2>2. b = Raise(a, i - 1) /\ h[i + 1] = Raise(a, (i + 1) - 1)  BY <1>2, <2>1
  <2>. HIDE DEF b
  <2>3. b \in Steady /\ h[i + 1] = Raise(b, 1)  BY <2>1, <2>2, SteadyIs
  <2>4. Allowed(q[i], L, T, b, Raise(b, 1))  BY <2>3, <1>1, PartsDo DEF E
  <2>. QED  BY <2>3, <2>4 DEF b
<1>4. h[1] = a /\ h[n + 1] = Raise(a, n)
  <2>1. 1 \in 1..n + 1 /\ n + 1 \in 1..n + 1 /\ 1 - 1 = 0 /\ (n + 1) - 1 = n  BY <1>1
  <2>2. h[1] = Raise(a, 0) /\ h[n + 1] = Raise(a, n)  BY <1>2, <2>1
  <2>. QED  BY <2>2, SteadyIs
<1>5. Works(q, L, T, h[1], h[n + 1])  BY <1>1, <1>2, <1>3, LongWorks DEF n
<1>. QED  BY <1>4, <1>5 DEF n

\* A block.
LEMMA BlockWorks ==
  ASSUME NEW T, NEW L, NEW a \in Level, NEW q \in Seq(T)
  PROVE  Works(Statements(q), L, T, a, a)
<1>. DEFINE n == Len(q)
<1>s. /\ a \in Steady /\ a \in Stacks /\ a.marks = <<>>
      /\ Raise(a, 1) \in Steady /\ Raise(a, 1) \in Stacks
  BY Raises DEF Level
<1>1. n \in Nat /\ IsSeq(q) /\ \A i \in 1..n : q[i] \in T  BY DEF IsSeq
<1>2. Works(Statements(q), L, T, a, a)
  <2>. DEFINE s == Statements(q)
              S == T \cup {Asm(Drop)}
              m == 2 * n
              h == [i \in 1..m + 1 |-> IF i % 2 = 1 THEN a ELSE Raise(a, 1)]
  <2>1. m \in Nat /\ m % 2 = 0 /\ \A i \in 1..m : i % 2 = 1 => (i + 1) \div 2 \in 1..n
    <3>. HIDE DEF n
    <3>. QED  BY <1>1
  <2>2. /\ s \in [1..m -> S]
        /\ \A i \in 1..m : s[i] = IF i % 2 = 1 THEN q[(i + 1) \div 2] ELSE Asm(Drop)
    BY <1>1, <2>1 DEF Statements
  <2>3. Allowed(Asm(Drop), L, T, Raise(a, 1), a)
    <3>1. Moves(Drop, L, Raise(a, 1), a)  BY <1>s, TextMoves
    <3>. QED  BY <3>1, <1>s, PartsDo
  <2>. HIDE DEF s, n, m
  <2>4. /\ h \in [1..m + 1 -> Stacks]
        /\ \A i \in 1..m + 1 : h[i] = IF i % 2 = 1 THEN a ELSE Raise(a, 1)
    BY <2>1, <1>s
  <2>. HIDE DEF h, S
  <2>s. s \in [1..m -> S]  BY <2>2
  <2>5. s \in Seq(S) /\ Len(s) = m /\ IsSeq(s)  BY <2>1, <2>s, Listed
  <2>6. ASSUME NEW i \in 1..m  PROVE Allowed(s[i], L, T, h[i], h[i + 1])
    <3>1. i \in Nat /\ i \in 1..m + 1 /\ i + 1 \in 1..m + 1  BY <2>1
    <3>2. PICK k \in 1..m + 1 : k = i + 1  BY <3>1
    <3>3. /\ h[k] = IF k % 2 = 1 THEN a ELSE Raise(a, 1)
          /\ h[i] = IF i % 2 = 1 THEN a ELSE Raise(a, 1)
      BY <2>4, <3>1
    <3>4. k % 2 = 1 <=> i % 2 # 1  BY <3>1, <3>2
    <3>5. CASE i % 2 = 1
      <4>1. s[i] \in T  BY <3>5, <2>1, <2>2, <1>1
      <4>2. Allowed(s[i], L, T, a, Raise(a, 1))  BY <4>1, <1>s, PartsDo
      <4>. QED  BY <3>2, <3>3, <3>4, <3>5, <4>2
    <3>6. CASE i % 2 # 1
      <4>1. s[i] = Asm(Drop)  BY <3>6, <2>2
      <4>. QED  BY <2>3, <3>2, <3>3, <3>4, <3>6, <4>1
    <3>. QED  BY <3>5, <3>6
  <2>7. h[1] = a /\ h[m + 1] = a
    <3>1. 1 \in 1..m + 1 /\ m + 1 \in 1..m + 1  BY <2>1
    <3>2. PICK k \in 1..m + 1 : k = m + 1  BY <3>1
    <3>3. k % 2 = 1 /\ 1 % 2 = 1  BY <2>1, <3>2
    <3>. QED  BY <2>4, <3>1, <3>2, <3>3
  <2>8. Works(s, L, T, h[1], h[m + 1])  BY <2>4, <2>5, <2>6, LongWorks
  <2>. QED  BY <2>7, <2>8 DEF s
<1>. QED  BY <1>2 DEF n

\* A block and a call.
LEMMA BlockAndCallWorks ==
  ASSUME NEW T, NEW L, NEW a \in Steady, NEW x
  PROVE  /\ a.marks = <<>> /\ x.child \in Seq(T) => Works(GenBlock(x), L, T, a, Raise(a, 1))
         /\ x.arg \in UpToSix(Expressions(T)) => Works(GenCall(x), L, T, a, Raise(a, 1))
<1>0. /\ a \in Stacks /\ Raise(a, 1) \in Stacks /\ Raise(a, 2) \in Stacks
      /\ Raise(a, 1) \in Steady /\ Raise(a, 2) \in Steady /\ Raise(Raise(a, 1), 1) = Raise(a, 2)
  BY Raises
<1>1. ASSUME a.marks = <<>>, x.child \in Seq(T)  PROVE Works(GenBlock(x), L, T, a, Raise(a, 1))
  <2>. DEFINE s == Statements(x.child)
              p == Asm(Keep)
  <2>1. Works(s, L, T, a, a)  BY <1>1, BlockWorks DEF Level
  <2>2. Allowed(p, L, T, a, Raise(a, 1))
    <3>1. Moves(Keep, L, a, Raise(a, 1))  BY TextMoves
    <3>. QED  BY <3>1, PartsDo
  <2>3. GenBlock(x) = Append(s, p)  BY DEF GenBlock
  <2>. HIDE DEF s, p
  <2>4. Append(s, p) = s \o <<p>>
    <3>1. PICK S : s \in Seq(S)  BY <2>1 DEF Works, IsSeq
    <3>2. s \in Seq(S \cup {p})  BY <3>1
    <3>. QED  BY <3>2
  <2>5. Works(<<p>>, L, T, a, Raise(a, 1))  BY <2>2, <1>0, ShortWorks
  <2>6. Works(s \o <<p>>, L, T, a, Raise(a, 1))  BY <2>1, <2>5, WorksConcat
  <2>. QED  BY <2>3, <2>4, <2>6
<1>2. ASSUME x.arg \in UpToSix(Expressions(T))  PROVE Works(GenCall(x), L, T, a, Raise(a, 1))
  <2>. DEFINE n == Len(x.arg)
              y == <<"mov_imm", "rax", 0>>
              z == <<"call", x.name>>
              c == <<y, z>>
              d == PopArguments(n)
              p == Asm(AlignStack)
              r == Asm(d \o c \o UnalignStack)
              q == x.arg
              b == Padded(a, 2)
              bn == Raise(b, n)
  <2>1. n \in 0..6 /\ q \in Seq(Expressions(T))
    <3>. DEFINE E == Expressions(T)
    <3>. HIDE DEF E
    <3>1. q \in Seq(E) /\ n <= 6  BY <1>2 DEF UpToSix, E
    <3>2. n \in Nat  BY <3>1
    <3>. HIDE DEF n, q
    <3>3. n \in 0..6  BY <3>1, <3>2
    <3>. QED  BY <3>1, <3>3 DEF E
  <2>2. b \in Steady  BY PaddedIs
  <2>3. b \in Stacks /\ bn \in Stacks /\ bn \in Steady
    <3>1. n \in Nat  BY <2>1
    <3>. QED  BY <2>2, <3>1, SteadyIs
  <2>4. Works(q, L, T, b, bn)  BY <2>1, <2>2, ArgumentWorks
  <2>5. Moves(AlignStack, L, a, b) /\ Moves(UnalignStack, L, b, Raise(a, 1))  BY TextMoves
  <2>6. Moves(d, L, bn, b)  BY <2>1, <2>2, TextMoves
  <2>7. Still(y)  BY DEF Still, Computes
  <2>8. Takes(z, L, b, b)  BY DEF Takes, Aligns
  <2>9. GenCall(x) = <<p>> \o q \o <<r>>  BY DEF GenCall
  <2>. HIDE DEF y, z, d, q, n, b, bn
  <2>10. Moves(c, L, b, b)
    <3>1. Run(<<y>>, L, b, b) /\ Run(<<z>>, L, b, b)  BY <2>2, <2>3, <2>7, <2>8, OneRun, Runs
    <3>. QED  BY <3>1, FewRuns, ShortMoves
  <2>. HIDE DEF c
  <2>11. Moves(d \o c, L, bn, b)  BY <2>6, <2>10, MovesConcat
  <2>12. Moves(d \o c \o UnalignStack, L, bn, Raise(a, 1))  BY <2>5, <2>11, MovesConcat
  <2>13. Allowed(r, L, T, bn, Raise(a, 1)) /\ Allowed(p, L, T, a, b)  BY <2>3, <2>5, <2>12, PartsDo
  <2>. HIDE DEF p, r
  <2>14. Works(<<p>>, L, T, a, b) /\ Works(<<r>>, L, T, bn, Raise(a, 1))
    BY <2>3, <2>13, <1>0, ShortWorks
  <2>15. Works(<<p>> \o q, L, T, a, bn)  BY <2>4, <2>14, WorksConcat
  <2>16. Works(<<p>> \o q \o <<r>>, L, T, a, Raise(a, 1))  BY <2>14, <2>15, WorksConcat
  <2>. QED  BY <2>9, <2>16
<1>. QED  BY <1>1, <1>2

\* A function: its height counts from where it has reserved its variables.
LEMMA FunctionWorks ==
  ASSUME NEW T, NEW L, NEW x, x.params \in UpToSix(Int), x.offset \in Nat, x.body \in T
  PROVE  Works(GenFunction(x), L, T, Outside, Outside)
<1>. DEFINE w == <<"fn", x.name>>
            u == <<"push", "rbp">>
            v == <<"mov", "rbp", "rsp">>
            z == <<"sub_imm", "rsp", variable_space(x)>>
            p == Asm(<<w, u, v, z>>)
            s == StoreParameters(x.params)
            n == Len(x.params)
            e == Asm(Epilogue)
            f == x.body
            in(at) == Stack(0, <<>>, at)
            a == in("body")
            o == Outside
<1>0. /\ in("entry") \in Stacks /\ in("saved") \in Stacks /\ in("framed") \in Stacks
      /\ a \in Level /\ a \in Steady /\ a \in Stacks /\ a.marks = <<>>
      /\ o \in Stacks /\ Raise(a, 1) \in Level /\ Raise(a, 1) \in Stacks /\ Raise(a, 1).marks = <<>>
      /\ Raise(a, 1) \in Steady
  <2>1. \A at \in Stages : in(at) \in Stacks /\ in(at).at = at /\ in(at).marks = <<>>
    <3>. DEFINE h == 0
                m == <<>>
    <3>1. h \in Nat /\ m \in Seq(Nat)  OBVIOUS
    <3>2. \A at : in(at) = Stack(h, m, at)  OBVIOUS
    <3>. HIDE DEF h, m, in
    <3>3. \A at \in Stages : /\ Stack(h, m, at) \in Stacks /\ Stack(h, m, at).at = at
                             /\ Stack(h, m, at).marks = m
      BY <3>1, StackIs
    <3>. QED  BY <3>2, <3>3 DEF m
  <2>2. a \in Stacks /\ a.at = "body" /\ a.marks = <<>>  BY <2>1 DEF Stages
  <2>3. o \in Stacks  BY StackIs
  <2>. HIDE DEF a, o
  <2>4. a \in Steady /\ a \in Level  BY <2>2 DEF Steady, Level
  <2>5. 1 \in Nat  OBVIOUS
  <2>6. Raise(a, 1) \in Level /\ Raise(a, 1) \in Stacks  BY <2>2, <2>4, <2>5, SteadyIs
  <2>7. Raise(a, 1).marks = <<>> /\ Raise(a, 1) \in Steady  BY <2>6 DEF Level
  <2>. QED  BY <2>1, <2>2, <2>3, <2>4, <2>6, <2>7 DEF Stages
<1>1. GenFunction(x) = <<p>> \o s \o <<f, e>>  BY DEF GenFunction
<1>2. Works(<<p>>, L, T, o, a)
  <2>1. variable_space(x) \in Nat
    <3>. DEFINE m == Len(x.params)
    <3>1. m \in Nat
      <4>1. x.params \in Seq(Int)  BY DEF UpToSix
      <4>. QED  BY <4>1
    <3>2. variable_space(x) = IF (m * 8 + x.offset) % 16 # 0 THEN m * 8 + x.offset + 8
                                                           ELSE m * 8 + x.offset
      BY DEF variable_space
    <3>. HIDE DEF m
    <3>3. m * 8 + x.offset \in Nat  BY <3>1
    <3>. QED  BY <3>2, <3>3
  <2>2. /\ Enters(w, o, in("entry")) /\ Enters(u, in("entry"), in("saved"))
        /\ Enters(v, in("saved"), in("framed")) /\ Enters(z, in("framed"), a)
    BY <2>1 DEF Enters
  <2>. HIDE DEF w, u, v, z, in, a, o
  <2>3. /\ Takes(w, L, o, in("entry")) /\ Takes(u, L, in("entry"), in("saved"))
        /\ Takes(v, L, in("saved"), in("framed")) /\ Takes(z, L, in("framed"), a)
    BY <2>2 DEF Takes
  <2>4. /\ Run(<<w>>, L, o, in("entry")) /\ Run(<<u>>, L, in("entry"), in("saved"))
        /\ Run(<<v>>, L, in("saved"), in("framed")) /\ Run(<<z>>, L, in("framed"), a)
    BY <2>3, <1>0, Runs
  <2>5. Run(<<v, z>>, L, in("saved"), a)  BY <2>4, FewRuns
  <2>6. Run(<<u, v, z>>, L, in("entry"), a)  BY <2>4, <2>5, FewRuns
  <2>7. Run(<<w, u, v, z>>, L, o, a)  BY <2>4, <2>6, FewRuns
  <2>8. IsSeq(<<w, u, v, z>>)  BY Pieces
  <2>9. Allowed(p, L, T, o, a)
    <3>. DEFINE c == <<w, u, v, z>>
    <3>1. Moves(c, L, o, a)  BY <2>7, <2>8 DEF Moves
    <3>. HIDE DEF c
    <3>2. Asm(c).kind = "ASM" /\ Asm(c).code = c  BY DEF Asm
    <3>3. Allowed(Asm(c), L, T, o, a)  BY <3>1, <3>2 DEF Allowed
    <3>. QED  BY <3>3 DEF c
  <2>. HIDE DEF p
  <2>. QED  BY <2>9, <1>0, ShortWorks
<1>. HIDE DEF a
<1>3. Works(s, L, T, a, a)
  <2>. DEFINE text(i) == PushLocal(x.params[i])
                          \o <<<<"pop", "rax">>, <<"store", "rax", arglist[i]>>, <<"mov_imm", "rax", 0>>>>
              S == { Asm(text(i)) : i \in 1..n }
              h == [i \in 1..n + 1 |-> a]
  <2>1. n \in Nat
    <3>1. x.params \in Seq(Int)  BY DEF UpToSix
    <3>. QED  BY <3>1
  <2>2. s \in [1..n -> S] /\ \A i \in 1..n : s[i] = Asm(text(i))  BY DEF StoreParameters
  <2>3. ASSUME NEW i  PROVE Allowed(Asm(text(i)), L, T, a, a)
    <3>. DEFINE k == <<"pop", "rax">>
                m == <<"store", "rax", arglist[i]>>
                j == <<"mov_imm", "rax", 0>>
    <3>1. Still(m) /\ Still(j)  BY DEF Still, Computes
    <3>2. Run(<<k>>, L, Raise(a, 1), a)
      <4>1. "rax" \notin {"rsp", "rbp"}  OBVIOUS
      <4>. QED  BY <4>1, <1>0, OneRun
    <3>3. Moves(PushLocal(x.params[i]), L, a, Raise(a, 1))  BY <1>0, TextMoves
    <3>. HIDE DEF k, m, j
    <3>4. Run(<<m>>, L, a, a) /\ Run(<<j>>, L, a, a)  BY <3>1, <1>0, OneRun
    <3>5. Run(<<m, j>>, L, a, a)  BY <3>4, FewRuns
    <3>6. Moves(<<k, m, j>>, L, Raise(a, 1), a)  BY <3>2, <3>5, FewRuns, ShortMoves
    <3>7. Moves(PushLocal(x.params[i]) \o <<k, m, j>>, L, a, a)  BY <3>3, <3>6, MovesConcat
    <3>8. Allowed(Asm(PushLocal(x.params[i]) \o <<k, m, j>>), L, T, a, a)  BY <3>7, <1>0, PartsDo
    <3>. QED  BY <3>8 DEF k, m, j
  <2>. HIDE DEF s, n, text
  <2>s. s \in [1..n -> S]  BY <2>2
  <2>4. s \in Seq(S) /\ Len(s) = n  BY <2>1, <2>s, Listed
  <2>5. h \in [1..n + 1 -> Stacks] /\ \A i \in 1..n + 1 : h[i] = a  BY <1>0
  <2>. HIDE DEF h, S
  <2>6. ASSUME NEW i \in 1..n  PROVE Allowed(s[i], L, T, h[i], h[i + 1])
    <3>1. i \in 1..n + 1 /\ i + 1 \in 1..n + 1  BY <2>1
    <3>. QED  BY <3>1, <2>2, <2>3, <2>5
  <2>7. IsSeq(s)  BY <2>4 DEF IsSeq
  <2>8. 1 \in 1..n + 1 /\ n + 1 \in 1..n + 1  BY <2>1
  <2>9. Works(s, L, T, h[1], h[n + 1])  BY <2>4, <2>5, <2>6, <2>7, LongWorks
  <2>. QED  BY <2>5, <2>8, <2>9
<1>4. Works(<<f, e>>, L, T, a, o)
  <2>1. Allowed(f, L, T, a, Raise(a, 1))  BY <1>0, PartsDo
  <2>2. Moves(Epilogue, L, Raise(a, 1), o)  BY <1>0, TextMoves
  <2>3. Allowed(e, L, T, Raise(a, 1), o)  BY <2>2, <1>0, PartsDo
  <2>. HIDE DEF f, e, o
  <2>4. Works(<<e>>, L, T, Raise(a, 1), o)  BY <2>3, <1>0, ShortWorks
  <2>. QED  BY <2>1, <2>4, <1>0, FewWorks
<1>. HIDE DEF p, s, e, f
<1>5. Works(<<p>> \o s, L, T, o, a)  BY <1>2, <1>3, WorksConcat
<1>6. Works(<<p>> \o s \o <<f, e>>, L, T, o, o)  BY <1>4, <1>5, WorksConcat
<1>. QED  BY <1>1, <1>6

\* Text outside of functions.
Declaring(c) == IsSeq(c) /\ \A i \in DOMAIN c : c[i][1] \notin Framings

\* It stays there.
LEMMA OutsideMoves ==
  ASSUME NEW c, Declaring(c), NEW L
  PROVE  Moves(c, L, Outside, Outside)
<1>. DEFINE n == Len(c)
            t == Text(c, L)
            h == [i \in 1..n + 1 |-> Outside]
<1>1. IsSeq(c) /\ n \in Nat /\ DOMAIN c = 1..n  BY SeqFacts DEF Declaring
<1>2. Len(t) = n /\ \A i \in 1..n : t[i] = Effect(c[i], L)  BY <1>1, TextSeq
<1>3. ASSUME NEW i \in 1..n  PROVE <<Outside, Outside>> \in t[i]
  <2>1. c[i][1] \notin Framings  BY <1>1 DEF Declaring
  <2>2. Takes(c[i], L, Outside, Outside)  BY <2>1 DEF Takes, Declares
  <2>3. <<Outside, Outside>> \in Effect(c[i], L)  BY <2>2, EffectIs, StackIs
  <2>. QED  BY <2>3, <1>2
<1>4. \A i \in 1..n + 1 : h[i] = Outside  OBVIOUS
<1>5. h \in [1..n + 1 -> Stacks]  BY StackIs
<1>. HIDE DEF h, n, t
<1>6. /\ h[1] = Outside /\ h[n + 1] = Outside
      /\ \A i \in 1..n : h[i] = Outside /\ h[i + 1] = Outside
  BY <1>1, <1>4
<1>7. Path(t, Outside, Outside)  BY <1>2, <1>3, <1>5, <1>6 DEF Path
<1>. QED  BY <1>1, <1>7 DEF Moves, Run, t

\* So is a symbol's data, and the node of a typedef, an addition without operands.
LEMMA OutsideWorks ==
  ASSUME NEW T, NEW L
  PROVE  /\ \A name : Works(Data(name), L, T, Outside, Outside)
         /\ Works(GenBinary(ZeroedNode), L, T, Outside, Outside)
<1>0. /\ Outside \in Stacks
      /\ \A c : Declaring(c) => Allowed(Asm(c), L, T, Outside, Outside)
      /\ Allowed(NoNode, L, T, Outside, Outside)
  <2>1. ASSUME NEW c, Declaring(c)  PROVE Allowed(Asm(c), L, T, Outside, Outside)
    <3>1. Asm(c).kind = "ASM" /\ Asm(c).code = c  BY DEF Asm
    <3>2. Moves(c, L, Outside, Outside)  BY <2>1, OutsideMoves
    <3>. QED  BY <3>1, <3>2 DEF Allowed
  <2>. QED  BY <2>1, StackIs DEF Allowed
<1>1. ASSUME NEW name  PROVE Works(Data(name), L, T, Outside, Outside)
  <2>. DEFINE c == <<<<"data", name>>>>
              p == Asm(c)
  <2>1. Declaring(c)
    <3>1. "data" \notin Framings  BY DEF Framings
    <3>. QED  BY <3>1, Tuple DEF Declaring
  <2>2. Data(name) = <<p>>  BY DEF Data
  <2>. HIDE DEF c
  <2>3. Allowed(p, L, T, Outside, Outside)  BY <2>1, <1>0
  <2>. HIDE DEF p
  <2>. QED  BY <2>2, <2>3, <1>0, ShortWorks
<1>2. Works(GenBinary(ZeroedNode), L, T, Outside, Outside)
  <2>. DEFINE u == <<"pop", "rdi">>
              v == <<"pop", "rax">>
              c == <<u, v>>
              d == Operate("ADD")
              e == c \o d \o Keep
              p == Asm(e)
              o == NoNode
  <2>1. GenBinary(ZeroedNode) = <<o, o, p>>  BY DEF GenBinary, ZeroedNode
  <2>2. Declaring(e)
    <3>. DEFINE S == {u, v, <<"add", "rax", "rdi">>, <<"push", "rax">>}
    <3>1. e \in Seq(S)  BY DEF Operate, Keep
    <3>2. \A x \in S : x[1] \notin Framings  BY DEF Framings
    <3>. HIDE DEF S, e
    <3>. QED  BY <3>1, <3>2 DEF Declaring, IsSeq
  <2>. HIDE DEF c, d
  <2>. HIDE DEF e
  <2>6. Allowed(p, L, T, Outside, Outside) /\ Allowed(o, L, T, Outside, Outside)  BY <2>2, <1>0
  <2>. HIDE DEF p, o
  <2>7. Works(<<p>>, L, T, Outside, Outside)  BY <2>6, <1>0, ShortWorks
  <2>8. Works(<<o, p>>, L, T, Outside, Outside)  BY <2>6, <2>7, <1>0, FewWorks
  <2>9. Works(<<o, o, p>>, L, T, Outside, Outside)  BY <2>6, <2>8, <1>0, FewWorks
  <2>. QED  BY <2>1, <2>9
<1>. QED  BY <1>1, <1>2

\* A tree's work pushes one value.
LEMMA TreeWorks ==
  ASSUME NEW T, NEW G, NEW N, Pure(T, G, N), NEW L, NEW l, NEW a \in Steady,
         \A p \in {"begin", "end", "else"} : L[<<p, l>>] = a.h, NEW x \in T,
         x.kind \in StatementKinds => a.marks = <<>>
  PROVE  Works(gen(x, l), L, T, a, Raise(a, 1))
<1>. DEFINE E == Expressions(T)
<1>0. /\ Closed(T, G, N) /\ x.kind # "STRUCTDEF" /\ a \in Stacks /\ Raise(a, 1) \in Stacks
      /\ x.kind \in StatementKinds => a \in Level
  BY Raises DEF Pure, Level
<1>e. E = Expressions(T)  OBVIOUS
<1>. HIDE DEF E
<1>1. x.kind \in {"NUM", "LVAR", "GVARREF", "IF_ELSE", "FOR", "BLOCK", "FUNCALL"}
                   \cup Unary \cup Pairs
  BY <1>0, Shapes
<1>2. /\ x.kind \in Unary => \/ x.lhs \in E
                             \/ x.kind = "RETURN" /\ x.lhs = NoNode
                             \/ x.kind = "ADDR" /\ x.lhs.kind = "LITERALREF" /\ x.lhs.index \in N
      /\ x.kind \in Pairs \cup {"IF_ELSE"} => x.lhs \in E
      /\ x.kind \in Binary \cup {"ASSIGN"} => x.rhs \in E
      /\ x.kind = "FOR" => /\ x.initstmt \in Optional(E) /\ x.testexpr \in Optional(E)
                           /\ x.updstmt \in Optional(E)
      /\ x.kind = "FUNCALL" => x.arg \in UpToSix(E)
  BY <1>0, <1>e, Operands
<1>s. /\ x.kind \in {"IF", "WHILE", "IF_ELSE"} => x.rhs \in T
      /\ x.kind = "IF_ELSE" => x.elsehs \in T
      /\ x.kind = "FOR" => x.lhs \in T
      /\ x.kind = "BLOCK" => x.child \in Seq(T)
      /\ x.kind = "ASSIGN" => x.lhs \in T
  BY <1>0, Shapes DEF Pairs
<1>3. CASE x.kind = "NUM"
  <2>. DEFINE p == Asm(<<<<"push_imm", x.val>>>>)
  <2>1. Moves(<<<<"push_imm", x.val>>>>, L, a, Raise(a, 1))  BY TextMoves
  <2>2. Allowed(p, L, T, a, Raise(a, 1))  BY <2>1, PartsDo
  <2>3. gen(x, l) = <<p>>  BY <1>3, GenCases
  <2>. HIDE DEF p
  <2>. QED  BY <2>2, <2>3, <1>0, ShortWorks
<1>4. CASE x.kind \in {"LVAR", "GVARREF"}
  <2>1. Works(GenValue(x), L, T, a, Raise(a, 1))  BY <1>4, AccessWorks
  <2>. QED  BY <1>4, <2>1, GenCases
<1>5. CASE x.kind = "ASSIGN"
  <2>1. x.lhs \in T /\ x.rhs \in E  BY <1>2, <1>s, <1>5
  <2>2. Works(GenAssign(x), L, T, a, Raise(a, 1))  BY <2>1, <1>e, AssignWorks
  <2>. QED  BY <1>5, <2>2, GenCases
<1>6. CASE x.kind \in {"WHILE", "IF"}
  <2>1. x.lhs \in E /\ x.rhs \in T /\ a \in Level
    BY <1>0, <1>2, <1>s, <1>6 DEF Pairs, StatementKinds
  <2>2. Works(GenIf(x, l), L, T, a, Raise(a, 1)) /\ Works(GenWhile(x, l), L, T, a, Raise(a, 1))
    BY <2>1, <1>e, BranchWorks
  <2>. QED  BY <1>6, <2>2, GenCases
<1>7. CASE x.kind = "IF_ELSE"
  <2>1. a \in Level /\ x.lhs \in E /\ x.rhs \in T /\ x.elsehs \in T
    BY <1>0, <1>2, <1>s, <1>7 DEF StatementKinds
  <2>2. Works(GenIfElse(x, l), L, T, a, Raise(a, 1))  BY <1>e, <2>1, BranchWorks
  <2>. QED  BY <1>7, <2>2, GenCases
<1>8. CASE x.kind = "FOR"
  <2>1. a \in Level /\ x.lhs \in T /\ {x.initstmt, x.testexpr, x.updstmt} \subseteq Optional(E)
    BY <1>0, <1>2, <1>s, <1>8 DEF StatementKinds
  <2>2. Works(GenFor(x, l), L, T, a, Raise(a, 1))  BY <1>e, <2>1, BranchWorks
  <2>. QED  BY <1>8, <2>2, GenCases
<1>9. CASE x.kind \in {"BLOCK", "FUNCALL"}
  <2>1. /\ x.kind = "BLOCK" => Works(GenBlock(x), L, T, a, Raise(a, 1))
        /\ x.kind = "FUNCALL" => Works(GenCall(x), L, T, a, Raise(a, 1))
    BY <1>0, <1>2, <1>s, <1>e, BlockAndCallWorks DEF Level, StatementKinds
  <2>. QED  BY <1>9, <2>1, GenCases
<1>10. CASE x.kind = "ADDR"
  <2>. DEFINE p == GenVariable(x.lhs)
  <2>1. Allowed(p, L, T, a, Raise(a, 1))  BY PartsDo
  <2>2. gen(x, l) = <<p>>  BY <1>10, GenCases
  <2>. HIDE DEF p
  <2>. QED  BY <2>1, <2>2, <1>0, ShortWorks
<1>11. CASE x.kind \in {"DEREF", "NOT"}
  <2>1. x.lhs \in E  BY <1>2, <1>11 DEF Unary
  <2>2. Works(GenNot(x), L, T, a, Raise(a, 1)) /\ Works(GenDeref(x), L, T, a, Raise(a, 1))
    BY <2>1, <1>e, OperatorWorks
  <2>. QED  BY <1>11, <2>2, GenCases
<1>12. CASE x.kind = "RETURN"
  <2>1. x.lhs \in Optional(E) /\ a.marks = <<>>
    BY <1>0, <1>2, <1>12 DEF Unary, Optional, Level, StatementKinds
  <2>2. Works(GenReturn(x), L, T, a, Raise(a, 1))  BY <2>1, <1>e, OperatorWorks
  <2>. QED  BY <1>12, <2>2, GenCases
<1>13. CASE x.kind = "CAST"
  <2>. DEFINE p == x.lhs
  <2>1. p \in E  BY <1>2, <1>13 DEF Unary
  <2>2. Allowed(p, L, T, a, Raise(a, 1))  BY <2>1, <1>e, PartsDo
  <2>3. gen(x, l) = <<p>>  BY <1>13, GenCases
  <2>. HIDE DEF p
  <2>. QED  BY <2>2, <2>3, <1>0, ShortWorks
<1>14. CASE x.kind \in Binary
  <2>1. x.lhs \in E /\ x.rhs \in E  BY <1>2, <1>14 DEF Pairs
  <2>2. Works(GenBinary(x), L, T, a, Raise(a, 1))  BY <2>1, <1>e, <1>14, OperatorWorks
  <2>. QED  BY <1>14, <2>2, GenCases
<1>15. \/ x.kind \in {"NUM", "LVAR", "GVARREF", "ASSIGN", "WHILE", "IF", "IF_ELSE", "FOR", "BLOCK",
                      "FUNCALL", "ADDR", "DEREF", "NOT", "RETURN", "CAST"}
       \/ x.kind \in Binary
  BY <1>1 DEF Unary, Pairs
<1>. QED
  BY <1>3, <1>4, <1>5, <1>6, <1>7, <1>8, <1>9, <1>10, <1>11, <1>12, <1>13, <1>14, <1>15

\* So does a call's work what the node in its place does, when the labels of the
\* call stand for the height at which it begins.
LEMMA CallWorks ==
  ASSUME NEW T, NEW G, NEW N, Pure(T, G, N), NEW L, NEW l, NEW a \in Stacks, NEW b \in Stacks,
         \A p \in {"begin", "end", "else"} : L[<<p, l>>] = a.h,
         NEW x, Allowed(x, L, T, a, b), x.kind \notin {"ASM", "ERROR", "NULL"}
  PROVE  Works(gen(x, l), L, T, a, b)
<1>1. CASE /\ x \in T /\ a \in Steady /\ b = Raise(a, 1)
           /\ x.kind \in StatementKinds => a.marks = <<>>
  BY <1>1, TreeWorks
<1>2. CASE /\ x.kind = "STRUCTREF" /\ IsSeq(x.path) /\ x.path # <<>>
           /\ b = a /\ \E c \in Steady : a = Raise(c, 1)
  <2>1. PICK c \in Steady : a = Raise(c, 1)  BY <1>2
  <2>2. Works(GenRef(x), L, T, Raise(c, 1), Raise(c, 1))  BY <1>2, AccessWorks
  <2>. QED  BY <1>2, <2>1, <2>2, GenCases
<1>3. CASE /\ x.kind = "FUNCDEF" /\ x.params \in UpToSix(Int) /\ x.offset \in Nat /\ x.body \in T
           /\ a = Outside /\ b = Outside
  <2>1. Works(GenFunction(x), L, T, a, b)  BY <1>3, FunctionWorks
  <2>. QED  BY <1>3, <2>1, GenCases
<1>4. CASE x.kind \in {"GVARDEF", "LITERAL", "STRUCTDEF"} /\ a = Outside /\ b = Outside
  <2>1. Works(<<>>, L, T, a, a)  BY ShortWorks
  <2>2. Works(Data(x.name), L, T, a, a) /\ Works(Data(LiteralName(x.index)), L, T, a, a)
    BY <1>4, OutsideWorks
  <2>. QED  BY <1>4, <2>1, <2>2, GenCases
<1>5. CASE x = ZeroedNode /\ a = Outside /\ b = Outside
  <2>1. Works(GenBinary(x), L, T, a, b)  BY <1>5, OutsideWorks
  <2>2. gen(x, l) = GenBinary(x)
    <3>1. x.kind \in Binary  BY <1>5 DEF ZeroedNode, Binary
    <3>. QED  BY <3>1, GenCases
  <2>. QED  BY <2>1, <2>2
<1>6. x # NoNode  BY DEF NoNode
<1>. QED  BY <1>1, <1>2, <1>3, <1>4, <1>5, <1>6 DEF Allowed

-----------------------------------------------------------------------------
(* Other heights for labels that are not in use. *)

\* The labels in a text and those it jumps to.
Places(c) == Named(c, "label") \cup Jumped(c)
PlacesToCome(q) == ToCome(q, "label") \cup JumpsToCome(q)

\* No other labels' heights matter.
LEMMA Agreeing ==
  ASSUME NEW K, NEW L, NEW M, \A m \in M : K[m] = L[m]
  PROVE  /\ \A c : Places(c) \subseteq M => Text(c, K) = Text(c, L)
         /\ \A q, T : PlacesToCome(q) \subseteq M => Work(q, K, T) = Work(q, L, T)
<1>1. ASSUME NEW c, Places(c) \subseteq M  PROVE Text(c, K) = Text(c, L)
  <2>1. ASSUME NEW i \in DOMAIN c  PROVE Effect(c[i], K) = Effect(c[i], L)
    <3>1. c[i][1] \in {"label", "jmp", "je"} => c[i][2] \in M
      BY <1>1 DEF Places, Named, Jumped, Ops
    <3>. DEFINE x == c[i]
    <3>. HIDE DEF x
    <3>2. x[1] \in {"label", "jmp", "je"} => K[x[2]] = L[x[2]]  BY <3>1 DEF x
    <3>3. \A a, b : Takes(x, K, a, b) <=> Takes(x, L, a, b)  BY <3>2 DEF Takes, Jumps
    <3>4. Effect(x, K) = Effect(x, L)  BY <3>3 DEF Effect
    <3>. QED  BY <3>4 DEF x
  <2>. QED  BY <2>1 DEF Text
<1>2. ASSUME NEW q, NEW T, PlacesToCome(q) \subseteq M  PROVE Work(q, K, T) = Work(q, L, T)
  <2>1. ASSUME NEW i \in DOMAIN q  PROVE Does(q[i], K, T) = Does(q[i], L, T)
    <3>. DEFINE x == q[i]
    <3>1. x.kind = "ASM" => Prefix(x) = x.code  BY DEF Prefix
    <3>2. Places(Prefix(x)) \subseteq M
      <4>1. \A op : Named(Prefix(x), op) \subseteq ToCome(q, op)  BY DEF ToCome
      <4>. QED  BY <1>2, <4>1 DEF Places, PlacesToCome, JumpsToCome, Jumped
    <3>. HIDE DEF x
    <3>3. x.kind = "ASM" => Text(x.code, K) = Text(x.code, L)  BY <1>1, <3>1, <3>2
    <3>4. x.kind = "ASM" => \A a, b : Moves(x.code, K, a, b) <=> Moves(x.code, L, a, b)
      BY <3>3 DEF Moves, Run
    <3>5. \A a, b : Allowed(x, K, T, a, b) <=> Allowed(x, L, T, a, b)  BY <3>4 DEF Allowed
    <3>6. Does(x, K, T) = Does(x, L, T)  BY <3>5 DEF Does
    <3>. QED  BY <3>6 DEF x
  <2>. QED  BY <2>1 DEF Work
<1>. QED  BY <1>1, <1>2

\* The labels in the text and in the work are those of calls before the next one.
LEMMA OldLabels ==
  ASSUME NEW c, NEW q, NEW n, NEW T, NEW U, Fitting(c, q, n, T, U)
  PROVE  Places(c) \subseteq Before(n) /\ PlacesToCome(q) \subseteq Before(n)
<1>1. Named(c, "label") \subseteq Before(n) /\ ToCome(q, "label") \subseteq Before(n)
  BY DEF Fitting
<1>2. Jumped(c) \subseteq Named(c, "label") \cup ToCome(q, "label")
  <2>1. Settled(c, ToCome(q, "label"))  BY DEF Fitting
  <2>. QED  BY <2>1 DEF Settled, Jumped, Named
<1>3. JumpsToCome(q) \subseteq Named(c, "label") \cup ToCome(q, "label")
  BY DEF Fitting, Open, Named
<1>. QED  BY <1>1, <1>2, <1>3 DEF Places, PlacesToCome

\* The height a for the labels of the call n.
At(L, n, a) == [m \in Labels |-> IF m[2] = n THEN a ELSE L[m]]

\* They are new.
LEMMA AtLabels ==
  ASSUME NEW L \in Heights, NEW n \in Nat, NEW a \in Nat
  PROVE  /\ At(L, n, a) \in Heights
         /\ \A p \in {"begin", "end", "else"} : At(L, n, a)[<<p, n>>] = a
         /\ \A m \in Before(n) : At(L, n, a)[m] = L[m]
<1>1. At(L, n, a) \in Heights  BY DEF At, Heights
<1>2. ASSUME NEW p \in {"begin", "end", "else"}  PROVE At(L, n, a)[<<p, n>>] = a
  BY DEF At, Labels
<1>3. ASSUME NEW m \in Before(n)  PROVE At(L, n, a)[m] = L[m]
  <2>1. PICK p \in {"begin", "end", "else"}, k \in 0..n - 1 : m = <<p, k>>  BY DEF Before
  <2>2. m \in Labels /\ m[2] = k /\ k # n  BY <2>1 DEF Labels
  <2>. QED  BY <2>2 DEF At
<1>. QED  BY <1>1, <1>2, <1>3

-----------------------------------------------------------------------------
(* The invariant. *)

\* No definition has a `struct S` among its leaves.
Clean == code \in Seq(DefinitionNode({}))
Grove == AnyTree(LeafNodes(Globals, Literals))

\* States through the text and the work, from outside of a function to there.
Bounded(L, b) == Run(out, L, Outside, b) /\ Works(todo, L, Grove, b, Outside)

StackInv ==
  phase \in {"literals", "code", "done"} /\ Clean
    => \E L \in Heights : \E b \in Stacks : Bounded(L, b)

\* The trees of programs without `struct S` as a value.
LEMMA GrovePure ==
  Pure(Grove, Globals, Literals)
<1>. DEFINE G == Globals
            N == Literals
            F == LeafNodes(G, N)
            T == AnyTree(F)
<1>1. T \subseteq F \cup InnerNodes(T)  BY AllTrees
<1>. HIDE DEF T, G, N
<1>2. Closed(T, G, N)  BY <1>1 DEF Closed, Leaves
<1>3. \A x \in F : x.kind # "STRUCTDEF"  BY DEF LeafNodes
<1>4. \A x \in InnerNodes(T) : x.kind # "STRUCTDEF"  BY DEF InnerNodes, Binary
<1>. HIDE DEF F
<1>5. Pure(T, G, N)  BY <1>1, <1>2, <1>3, <1>4 DEF Pure
<1>. QED  BY <1>5 DEF Grove, T, F, G, N

\* What is called for an element of code[].
LEMMA DefinitionDoes ==
  ASSUME Clean, NEW i \in DOMAIN code, NEW L
  PROVE  Allowed(code[i], L, Grove, Outside, Outside)
<1>. DEFINE d == code[i]
            F == LeafNodes(Globals, Literals)
            D == [kind : {"FUNCDEF"}, name : STRING, params : UpToSix(Int), offset : Nat,
                  body : Trees(F)[Height]]
<1>1. d \in DefinitionNode({})  BY DEF Clean
<1>2. DefinitionNode({})
        = D \cup [kind : {"GVARDEF"}, name : STRING] \cup [kind : {"STRUCTDEF"}] \cup {ZeroedNode}
  <2>1. F \cup {} = F  OBVIOUS
  <2>. QED  BY <2>1 DEF DefinitionNode
<1>3. Trees(F)[Height] \subseteq Grove  BY AllTrees DEF Grove
<1>. HIDE DEF F
<1>4. CASE d \in D
  <2>1. d.kind = "FUNCDEF" /\ d.params \in UpToSix(Int) /\ d.offset \in Nat /\ d.body \in Grove
    BY <1>3, <1>4
  <2>. QED  BY <2>1 DEF Allowed
<1>5. CASE d.kind \in {"GVARDEF", "STRUCTDEF"}  BY <1>5 DEF Allowed
<1>6. CASE d = ZeroedNode  BY <1>6 DEF Allowed
<1>7. d \in D \/ d.kind \in {"GVARDEF", "STRUCTDEF"} \/ d = ZeroedNode
  <2>. HIDE DEF D, d
  <2>. QED  BY <1>1, <1>2
<1>. QED  BY <1>4, <1>5, <1>6, <1>7

\* No work leaves the stack as it was.
LEMMA NothingToDo ==
  ASSUME NEW L, NEW T, NEW a, NEW b, Works(<<>>, L, T, a, b)
  PROVE  a = b /\ a \in Stacks
<1>. DEFINE t == Work(<<>>, L, T)
<1>1. IsSeq(<<>>) /\ Len(<<>>) = 0  BY Tuple
<1>2. IsSeq(t) /\ Len(t) = 0  BY <1>1, WorkSeq
<1>3. Path(t, a, b)  BY DEF Works
<1>. HIDE DEF t
<1>. QED  BY <1>2, <1>3 DEF Path

\* The states are kept when the arrays stay and the states of the new text and work are known.
LEMMA StackKeeps ==
  ASSUME code' = code, literals_def' = literals_def,
         Clean => \E L \in Heights : \E b \in Stacks :
                    Run(out', L, Outside, b) /\ Works(todo', L, Grove, b, Outside)
  PROVE  StackInv'
<1>1. Globals' = Globals /\ Literals' = Literals  BY DEF Globals, Literals
<1>2. Grove' = Grove  BY <1>1 DEF Grove
<1>3. Clean' <=> Clean
  <2>1. DefinitionNode({})' = DefinitionNode({})  BY <1>1 DEF DefinitionNode
  <2>. QED  BY <2>1 DEF Clean
<1>. QED  BY <1>2, <1>3 DEF StackInv, Bounded

\* The end of program().
LEMMA StackEndProgram ==
  ASSUME PrintInv, EndProgram
  PROVE  StackInv'
<1>. DEFINE x == <<"intel_syntax">>
            c == <<x>>
            L == [m \in Labels |-> 0]
            q == <<>>
<1>1. out' = c /\ todo' = q /\ code' = code /\ literals_def' = literals_def
  BY DEF EndProgram, PrintInv, Unprinted
<1>2. Declaring(c)
  <2>1. IsSeq(c) /\ Len(c) = 1 /\ c[1] = x  BY Tuple
  <2>2. x[1] \notin Framings  BY DEF Framings
  <2>. HIDE DEF c, x
  <2>. QED  BY <2>1, <2>2, SeqFacts DEF Declaring
<1>3. L \in Heights  BY DEF Heights
<1>. HIDE DEF c, L
<1>4. Run(c, L, Outside, Outside)  BY <1>2, OutsideMoves DEF Moves
<1>5. Works(q, L, Grove, Outside, Outside)  BY ShortWorks, StackIs
<1>. HIDE DEF q
<1>. QED  BY <1>1, <1>3, <1>4, <1>5, StackIs, StackKeeps

\* The steps of gen().
LEMMA StackGen ==
  ASSUME PrintInv, StackInv, Call \/ CallNull \/ PrintAsm
  PROVE  StackInv'
<1>. DEFINE T == Grove
            x == Head(todo)
            r == Tail(todo)
            o == Outside
<1>1. /\ phase \in {"literals", "code"} /\ todo # <<>>
      /\ code' = code /\ literals_def' = literals_def
  BY DEF Call, CallNull, PrintAsm, Printing
<1>2. SUFFICES ASSUME Clean
               PROVE  \E L \in Heights : \E b \in Stacks :
                        Run(out', L, o, b) /\ Works(todo', L, T, b, o)
  <2>. HIDE DEF T
  <2>. QED  BY <1>1, StackKeeps DEF T
<1>3. PICK L \in Heights : \E b \in Stacks : Bounded(L, b)  BY <1>1, <1>2 DEF StackInv
<1>4. PICK b \in Stacks : Bounded(L, b)  BY <1>3
<1>5. /\ Run(out, L, o, b) /\ Works(todo, L, T, b, o) /\ o \in Stacks /\ b.h \in Nat
  BY <1>4, StackIs DEF Bounded
<1>6. /\ Fitting(out, todo, labelidx, Forest, Symbols(Globals, Literals))
      /\ labelidx \in Nat /\ IsSeq(out)
  BY <1>1 DEF PrintInv, Consistent, TypeOK, Fitting
<1>7. Pure(T, Globals, Literals)  BY GrovePure
<1>8. \A y \in T : y.kind \notin {"ASM", "ERROR", "NULL"}
  <2>1. Closed(T, Globals, Literals)  BY <1>7 DEF Pure
  <2>. HIDE DEF T
  <2>. QED  BY <2>1, Shapes DEF Unary, Pairs, Binary
<1>. HIDE DEF T, o
<1>9. CASE Call
  <2>. DEFINE n == labelidx
              K == At(L, n, b.h)
              p == gen(x, n)
  <2>1. x.kind \notin {"ASM", "ERROR", "NULL"} /\ todo' = p \o r /\ out' = out
    BY <1>9 DEF Call
  <2>2. /\ K \in Heights /\ \A w \in {"begin", "end", "else"} : K[<<w, n>>] = b.h
        /\ \A m \in Before(n) : K[m] = L[m]
    BY <1>5, <1>6, AtLabels
  <2>3. Places(out) \subseteq Before(n) /\ PlacesToCome(todo) \subseteq Before(n)
    BY <1>6, OldLabels
  <2>. HIDE DEF K, p
  <2>4. Text(out, K) = Text(out, L) /\ Work(todo, K, T) = Work(todo, L, T)
    <3>. DEFINE M == Before(n)
    <3>1. \A m \in M : K[m] = L[m]  BY <2>2
    <3>2. Places(out) \subseteq M /\ PlacesToCome(todo) \subseteq M  BY <2>3
    <3>. HIDE DEF M
    <3>3. Text(out, K) = Text(out, L)  BY <3>1, <3>2, Agreeing
    <3>4. Work(todo, K, T) = Work(todo, L, T)  BY <3>1, <3>2, Agreeing
    <3>. QED  BY <3>3, <3>4
  <2>5. Run(out, K, o, b) /\ Works(todo, K, T, b, o)  BY <1>5, <2>4 DEF Run, Works
  <2>6. PICK d \in Stacks : Allowed(x, K, T, b, d) /\ Works(r, K, T, d, o)
    BY <1>1, <2>5, WorksHead
  <2>. HIDE DEF x, r
  <2>7. Works(p, K, T, b, d)  BY <1>6, <1>7, <2>1, <2>2, <2>6, CallWorks DEF p
  <2>8. Works(todo', K, T, b, o)  BY <2>1, <2>6, <2>7, WorksConcat
  <2>. QED  BY <1>5, <2>1, <2>2, <2>5, <2>8
<1>10. PICK d \in Stacks : Allowed(x, L, T, b, d) /\ Works(r, L, T, d, o)
  BY <1>1, <1>5, WorksHead
<1>11. CASE CallNull
  <2>1. x.kind = "NULL" /\ todo' = r /\ out' = out  BY <1>11 DEF CallNull
  <2>. HIDE DEF x, r
  <2>2. d = b  BY <1>8, <1>10, <2>1 DEF Allowed, NoNode, ZeroedNode
  <2>. QED  BY <1>5, <1>10, <2>1, <2>2
<1>12. CASE PrintAsm
  <2>1. x.kind = "ASM" /\ todo' = r /\ out' = out \o x.code  BY <1>12 DEF PrintAsm
  <2>. HIDE DEF x, r
  <2>2. Moves(x.code, L, b, d)  BY <1>8, <1>10, <2>1 DEF Allowed, ZeroedNode, NoNode
  <2>3. Moves(out, L, o, b)  BY <1>5, <1>6 DEF Moves
  <2>4. Moves(out \o x.code, L, o, d)  BY <2>2, <2>3, MovesConcat
  <2>5. Run(out', L, o, d)  BY <2>1, <2>4 DEF Moves
  <2>. QED  BY <1>5, <1>10, <2>1, <2>5
<1>. QED  BY <1>9, <1>11, <1>12

\* The steps of main().
LEMMA StackMain ==
  ASSUME PrintInv, StackInv, PrintLiteral \/ EndLiterals \/ PrintDefinition \/ Finish
  PROVE  StackInv'
<1>. DEFINE T == Grove
            o == Outside
<1>1. /\ phase \in {"literals", "code"} /\ todo = <<>>
      /\ code' = code /\ literals_def' = literals_def
  BY DEF PrintLiteral, EndLiterals, PrintDefinition, Finish
<1>2. SUFFICES ASSUME Clean
               PROVE  \E L \in Heights : \E b \in Stacks :
                        Run(out', L, o, b) /\ Works(todo', L, T, b, o)
  <2>. HIDE DEF T
  <2>. QED  BY <1>1, StackKeeps DEF T
<1>3. PICK L \in Heights : \E b \in Stacks : Bounded(L, b)  BY <1>1, <1>2 DEF StackInv
<1>4. PICK b \in Stacks : Bounded(L, b)  BY <1>3
<1>5. Run(out, L, o, b) /\ Works(<<>>, L, T, b, o) /\ o \in Stacks
  BY <1>1, <1>4, StackIs DEF Bounded
<1>6. b = o  BY <1>5, NothingToDo
<1>q. Run(out, L, o, o)  BY <1>5, <1>6
<1>7. IsSeq(out) /\ IsSeq(code) /\ Len(code) \in Nat /\ printed \in Nat
  BY <1>1 DEF PrintInv, Consistent, TypeOK, Unprinted, Fitting
<1>p. ASSUME NEW x, Allowed(x, L, T, o, o), todo' = <<x>>, out' = out
      PROVE  Run(out', L, o, o) /\ Works(todo', L, T, o, o)
  <2>. HIDE DEF T, o
  <2>1. Works(<<x>>, L, T, o, o)  BY <1>5, <1>p, ShortWorks
  <2>. QED  BY <1>p, <1>q, <2>1
<1>8. CASE PrintLiteral
  <2>. DEFINE x == [kind |-> "LITERAL", index |-> printed]
  <2>1. todo' = <<x>> /\ out' = out  BY <1>8 DEF PrintLiteral
  <2>2. x.kind = "LITERAL"  OBVIOUS
  <2>. HIDE DEF x
  <2>3. Allowed(x, L, T, o, o)  BY <2>2 DEF Allowed
  <2>. HIDE DEF T, o
  <2>. QED  BY <1>5, <1>p, <2>1, <2>3
<1>9. CASE EndLiterals
  <2>. DEFINE x == <<"globl", "main">>
              c == <<x>>
  <2>1. todo' = todo /\ out' = Append(out, x)  BY <1>9 DEF EndLiterals
  <2>2. Declaring(c)
    <3>1. IsSeq(c) /\ Len(c) = 1 /\ c[1] = x  BY Tuple
    <3>2. x[1] \notin Framings  BY DEF Framings
    <3>. HIDE DEF c, x
    <3>. QED  BY <3>1, <3>2, SeqFacts DEF Declaring
  <2>. HIDE DEF x
  <2>3. Append(out, x) = out \o c
    <3>1. PICK S : out \in Seq(S)  BY <1>7 DEF IsSeq
    <3>2. out \in Seq(S \cup {x})  BY <3>1
    <3>. QED  BY <3>2
  <2>. HIDE DEF c
  <2>4. Moves(c, L, o, o)  BY <2>2, OutsideMoves
  <2>. HIDE DEF T, o
  <2>5. Moves(out, L, o, o)  BY <1>7, <1>q DEF Moves
  <2>6. Moves(out \o c, L, o, o)  BY <2>4, <2>5, MovesConcat
  <2>7. Run(out', L, o, o)  BY <2>1, <2>3, <2>6 DEF Moves
  <2>8. Works(todo', L, T, o, o)  BY <1>1, <1>5, <1>6, <2>1
  <2>. QED  BY <1>5, <2>7, <2>8
<1>10. CASE PrintDefinition
  <2>. DEFINE i == printed + 1
              x == code[i]
  <2>1. todo' = <<x>> /\ out' = out /\ printed < Len(code)  BY <1>10 DEF PrintDefinition
  <2>2. i \in DOMAIN code
    <3>1. DOMAIN code = 1..Len(code)  BY <1>7, SeqFacts
    <3>. QED  BY <1>7, <2>1, <3>1
  <2>3. Allowed(x, L, T, o, o)
    <3>. HIDE DEF i
    <3>. QED  BY <1>2, <2>2, DefinitionDoes
  <2>. HIDE DEF T, o, x
  <2>. QED  BY <1>5, <1>p, <2>1, <2>3
<1>11. CASE Finish
  <2>1. todo' = todo /\ out' = out  BY <1>11 DEF Finish
  <2>. HIDE DEF T, o
  <2>2. Works(todo', L, T, o, o)  BY <1>1, <1>5, <1>6, <2>1
  <2>. QED  BY <1>5, <1>q, <2>1, <2>2
<1>. QED  BY <1>8, <1>9, <1>10, <1>11

\* It is inductive, given the other one.
LEMMA StackStep ==
  ASSUME PrintInv, StackInv, [Parse \/ EndProgram \/ PrintNext]_printVars
  PROVE  StackInv'
<1>1. CASE Parse  BY <1>1 DEF Parse, StackInv
<1>2. CASE Error  BY <1>2 DEF Error, StackInv
<1>3. CASE UNCHANGED printVars
  <2>1. /\ code' = code /\ literals_def' = literals_def /\ phase' = phase /\ printed' = printed
        /\ todo' = todo /\ out' = out
    BY <1>3 DEF printVars
  <2>2. CASE phase \in {"literals", "code", "done"}
    <3>1. Clean => \E L \in Heights : \E b \in Stacks :
                     Run(out', L, Outside, b) /\ Works(todo', L, Grove, b, Outside)
      BY <2>1, <2>2 DEF StackInv, Bounded
    <3>. QED  BY <2>1, <3>1, StackKeeps
  <2>3. CASE phase \notin {"literals", "code", "done"}  BY <2>1, <2>3 DEF StackInv
  <2>. QED  BY <2>2, <2>3
<1>4. CASE EndProgram  BY <1>4, StackEndProgram
<1>5. CASE Call \/ CallNull \/ PrintAsm  BY <1>5, StackGen
<1>6. CASE PrintLiteral \/ EndLiterals \/ PrintDefinition \/ Finish  BY <1>6, StackMain
<1>. QED  BY <1>1, <1>2, <1>3, <1>4, <1>5, <1>6 DEF PrintNext

\* Both hold in every reachable state.
LEMMA StackInvariance ==
  PrintSpec => [](PrintInv /\ StackInv)
<1>1. PrintInit => PrintInv /\ StackInv
  <2>1. PrintInit => StackInv  BY DEF PrintInit, StackInv
  <2>. QED  BY <2>1, InvInit
<1>2. PrintInv /\ StackInv /\ [Parse \/ EndProgram \/ PrintNext]_printVars => PrintInv' /\ StackInv'
  BY InvStep, StackStep
<1>. QED  BY <1>1, <1>2, PTL DEF PrintSpec

-----------------------------------------------------------------------------
(* The property. *)

\* What can be behind an instruction.
LEMMA BehindCases ==
  ASSUME NEW start, NEW i, NEW d, NEW v \in Behind(start, i, d)
  PROVE  \/ i = start /\ v = 0
         \/ out[i][1] \in {"push", "push_imm"} /\ \E w \in d[i] : v = w + 1
         \/ out[i][1] = "pop" /\ \E w \in d[i] : v = w - 1
         \/ out[i][1] = "label" /\ v \in d[i]
         \/ /\ out[i][1] = "label"
            /\ \E j \in 1..i : out[j][1] \in {"jmp", "je"} /\ out[j][2] = out[i][2] /\ v \in d[j]
         \/ /\ out[i][1] \notin {"push", "push_imm", "pop", "label", "jmp", "ret"}
            /\ out[i] # <<"mov", "rsp", "rbp">> /\ v \in d[i]
<1>. DEFINE op == out[i][1]
            left == op \in {"jmp", "ret"} \/ out[i] = <<"mov", "rsp", "rbp">>
            B == Behind(start, i, d)
<1>1. CASE i = start
  <2>1. B = {0}  BY <1>1 DEF Behind
  <2>. QED  BY <1>1, <2>1
<1>2. CASE i # start /\ op \in {"push", "push_imm"}
  <2>1. B = { w + 1 : w \in d[i] }  BY <1>2 DEF Behind
  <2>. QED  BY <1>2, <2>1
<1>3. CASE i # start /\ op = "pop"
  <2>1. B = { w - 1 : w \in d[i] }  BY <1>3 DEF Behind
  <2>. QED  BY <1>3, <2>1
<1>4. CASE i # start /\ op = "label"
  <2>. DEFINE J == { j \in 1..i : out[j][1] \in {"jmp", "je"} /\ out[j][2] = out[i][2] }
  <2>0. ~left  BY <1>4
  <2>1. B = d[i] \cup UNION { d[j] : j \in J }  BY <1>4, <2>0 DEF Behind
  <2>2. v \in d[i] \/ \E j \in J : v \in d[j]
    <3>. HIDE DEF J
    <3>. QED  BY <2>1
  <2>. QED  BY <1>4, <2>2
<1>5. CASE i # start /\ left
  <2>0. op \notin {"push", "push_imm", "pop", "label"}  BY <1>5
  <2>1. B = {}  BY <1>5, <2>0 DEF Behind
  <2>. QED  BY <2>1
<1>6. CASE i # start /\ op \notin {"push", "push_imm", "pop", "label"} /\ ~left
  <2>1. B = d[i]  BY <1>6 DEF Behind
  <2>. QED  BY <1>6, <2>1
<1>. QED  BY <1>1, <1>2, <1>3, <1>4, <1>5, <1>6

\* Inside of a function, behind the prologue and in front of the epilogue.
Evaluating == {"body", "mov", "imm", "cqo", "idiv"}

\* What an instruction does there.
LEMMA TakesCases ==
  ASSUME NEW x, NEW L, NEW a \in Stacks, NEW b \in Stacks, Takes(x, L, a, b)
  PROVE  /\ x[1] = "label" => /\ a.at = "body" /\ L[x[2]] <= a.h
                              /\ b = Stack(L[x[2]], <<>>, "body")
         /\ x[1] \in {"je", "jmp"} => a.at = "body" /\ L[x[2]] <= a.h
         /\ a.at \in Evaluating =>
              \/ x[1] \in {"push", "push_imm"} /\ b.at \in Evaluating /\ b.h = a.h + 1
              \/ x[1] = "pop" /\ b.at \in Evaluating /\ a.h = b.h + 1
              \/ x[1] \in {"label", "jmp", "ret"} \/ x = <<"mov", "rsp", "rbp">>
              \/ x[1] \notin {"push", "push_imm", "pop", "label"} /\ b.at \in Evaluating /\ b.h = a.h
         /\ x[1] = "sub_imm" /\ x[2] = "rsp" => b = Stack(0, <<>>, "body")
<1>1. CASE Still(x) /\ a \in Steady /\ b = a
  <2>1. /\ x[1] \notin {"push", "push_imm", "pop", "label", "je", "jmp"}
        /\ ~(x[1] = "sub_imm" /\ x[2] = "rsp")
    BY <1>1 DEF Still, Computes
  <2>. QED  BY <1>1, <2>1
<1>2. CASE Pushes(x, a, b)
  <2>1. x[1] \in {"push", "push_imm"} /\ b = Raise(a, 1)  BY <1>2 DEF Pushes
  <2>2. b.h = a.h + 1 /\ b.at = a.at  BY <2>1, RaiseIs
  <2>. QED  BY <2>1, <2>2
<1>3. CASE Pops(x, a, b)
  <2>1. x[1] = "pop" /\ a = Raise(b, 1)  BY <1>3 DEF Pops
  <2>2. a.h = b.h + 1 /\ b.at = a.at  BY <2>1, RaiseIs
  <2>. QED  BY <2>1, <2>2
<1>4. CASE Jumps(x, L, a, b)
  <2>1. a.at = "body"  BY <1>4, SteadyIs DEF Jumps, Level
  <2>2. L[x[2]] <= a.h /\ x[1] \in {"label", "je", "jmp"}  BY <1>4 DEF Jumps
  <2>3. x[1] = "label" => b = Stack(L[x[2]], <<>>, "body")  BY <1>4 DEF Jumps
  <2>4. x[1] = "je" => b = a  BY <1>4 DEF Jumps
  <2>. QED  BY <2>1, <2>2, <2>3, <2>4 DEF Evaluating
<1>5. ASSUME NEW c \in Steady, Aligns(x, c, a, b)
      PROVE  /\ x[1] \notin {"push", "push_imm", "pop", "label", "je", "jmp", "sub_imm"}
             /\ b.at \in Evaluating /\ b.h = a.h
  <2>1. c \in Stacks /\ c.at = "body" /\ c.h \in Nat /\ c.marks \in Seq(Nat)  BY SteadyIs, StackIs
  <2>2. \A at \in Evaluating : Stage(c, at).h = c.h /\ Stage(c, at).at = at
    BY <2>1, StackIs DEF Stage, Evaluating, Stages
  <2>3. Padded(c, 0).h = c.h /\ Padded(c, 0).at = "body" /\ Padded(c, 2).at = "body"
    BY <2>1 DEF Padded, Stack
  <2>4. x[1] \notin {"push", "push_imm", "pop", "label", "je", "jmp", "sub_imm"}  BY <1>5 DEF Aligns
  <2>. DEFINE p == Padded(c, 0)
              q == Padded(c, 2)
              st(at) == Stage(c, at)
  <2>5. \/ a = c /\ b = st("mov")
        \/ a = st("mov") /\ b = st("imm")
        \/ a = st("imm") /\ b = st("cqo")
        \/ a = st("cqo") /\ b = st("idiv")
        \/ a = st("idiv") /\ b = p
        \/ a = q /\ b = q
        \/ a = p /\ b = c
    BY <1>5 DEF Aligns
  <2>6. \A at \in Evaluating : st(at).h = c.h /\ st(at).at = at  BY <2>2
  <2>7. p.h = c.h /\ p.at = "body" /\ q.at = "body"  BY <2>3
  <2>. HIDE DEF p, q, st
  <2>. QED  BY <2>1, <2>4, <2>5, <2>6, <2>7 DEF Evaluating
<1>6. CASE Enters(x, a, b)
  <2>1. /\ a.at \in {"out", "entry", "saved", "framed"}
        /\ x[1] \notin {"label", "je", "jmp"}
    BY <1>6 DEF Enters, Outside, Stack
  <2>2. x[1] = "sub_imm" => b = Stack(0, <<>>, "body")  BY <1>6 DEF Enters
  <2>. QED  BY <2>1, <2>2 DEF Evaluating
<1>7. CASE Returns(x, a, b)
  <2>1. x[1] \notin {"label", "je", "jmp", "sub_imm"}  BY <1>7 DEF Returns
  <2>2. x # <<"mov", "rsp", "rbp">> => a.at \in {"leaving", "left"}  BY <1>7 DEF Returns, Stack
  <2>. QED  BY <2>1, <2>2 DEF Evaluating
<1>8. CASE Declares(x, a, b)
  <2>1. a.at = "out" /\ x[1] \notin {"label", "je", "jmp", "sub_imm"}
    BY <1>8 DEF Declares, Outside, Stack, Framings
  <2>. QED  BY <2>1 DEF Evaluating
<1>. QED  BY <1>1, <1>2, <1>3, <1>4, <1>5, <1>6, <1>7, <1>8 DEF Takes

\* The heights are below the depths, counted from behind `start`.
LEMMA DepthsAbove ==
  ASSUME NEW L \in Heights, IsSeq(out), NEW h \in [1..Len(out) + 1 -> Stacks],
         \A i \in 1..Len(out) : Takes(out[i], L, h[i], h[i + 1]),
         Places(out) \subseteq Labels, NEW start \in 1..Len(out),
         h[start + 1].at \in Evaluating
  PROVE  \A i \in 1..Len(out) : \A v \in Depths(start)[i] :
           v \in Int /\ h[i].at \in Evaluating /\ v >= h[i].h - h[start + 1].h
<1>. DEFINE n == Len(out)
            F(m, f) == f = [i \in 0..m |-> IF i = 0 THEN <<{}>>
                                           ELSE Append(f[i - 1], Behind(start, i, f[i - 1]))]
            T == {m \in 0..n : \E f : F(m, f)}
            base == h[start + 1].h
<1>0. n \in Nat /\ start \in 1..n /\ base \in Nat
  <2>1. n \in Nat  BY SeqFacts
  <2>2. start + 1 \in 1..n + 1  BY <2>1
  <2>3. h[start + 1] \in Stacks  BY <2>2
  <2>. QED  BY <2>1, <2>3, StackIs
<1>. HIDE DEF n, base
<1>1. 0 \in T
  <2>. DEFINE f == [i \in 0..0 |-> <<{}>>]
  <2>1. F(0, f)  OBVIOUS
  <2>. HIDE DEF F, f
  <2>. QED  BY <2>1, <1>0
<1>2. ASSUME NEW k \in 1..n, k - 1 \in T  PROVE k \in T
  <2>1. PICK f : F(k - 1, f)  BY <1>2
  <2>. DEFINE next == Append(f[k - 1], Behind(start, k, f[k - 1]))
              g == [i \in 0..k |-> IF i = k THEN next ELSE f[i]]
  <2>2. \A i \in 0..k - 1 : g[i] = f[i]  BY <1>0
  <2>3. \A i \in 0..k : g[i] = IF i = 0 THEN <<{}>> ELSE Append(g[i - 1], Behind(start, i, g[i - 1]))
    <3>1. g[k] = Append(g[k - 1], Behind(start, k, g[k - 1])) /\ k # 0  BY <2>2, <1>0
    <3>2. ASSUME NEW i \in 0..k - 1
          PROVE  g[i] = IF i = 0 THEN <<{}>> ELSE Append(g[i - 1], Behind(start, i, g[i - 1]))
      <4>1. f[i] = IF i = 0 THEN <<{}>> ELSE Append(f[i - 1], Behind(start, i, f[i - 1]))  BY <2>1
      <4>2. i # 0 => i - 1 \in 0..k - 1  BY <1>0
      <4>. HIDE DEF g
      <4>. QED  BY <4>1, <4>2, <2>2
    <3>3. \A i \in 0..k : i = k \/ i \in 0..k - 1  BY <1>0
    <3>. HIDE DEF g
    <3>. QED  BY <3>1, <3>2, <3>3
  <2>4. g = [i \in 0..k |-> g[i]]  OBVIOUS
  <2>. HIDE DEF g
  <2>5. F(k, g)  BY <2>3, <2>4
  <2>. HIDE DEF F
  <2>. QED  BY <2>5, <1>0
<1>3. n \in T
  <2>. HIDE DEF T
  <2>1. 0..n \subseteq T  BY <1>0, <1>1, <1>2, Induct
  <2>. QED  BY <2>1, <1>0
<1>. DEFINE D == CHOOSE f : F(n, f)
<1>4. Depths(start) = D[n]  BY DEF Depths, n
<1>. HIDE DEF F
<1>5. F(n, D)  BY <1>3
<1>. HIDE DEF D, T
<1>6. /\ D[0] = <<{}>>
      /\ \A i \in 1..n : D[i] = Append(D[i - 1], Behind(start, i, D[i - 1]))
  <2>1. \A i \in 0..n : D[i] = IF i = 0 THEN <<{}>>
                               ELSE Append(D[i - 1], Behind(start, i, D[i - 1]))
    BY <1>5 DEF F
  <2>2. 0 \in 0..n /\ \A i \in 1..n : i \in 0..n /\ i # 0  BY <1>0
  <2>. QED  BY <2>1, <2>2
<1>. DEFINE Above(j, v) == start < j /\ v \in Int /\ h[j].at \in Evaluating /\ v >= h[j].h - base
            Good(i) == /\ IsSeq(D[i]) /\ Len(D[i]) = i + 1
                       /\ \A j \in 1..i + 1 : \A v \in D[i][j] : Above(j, v)
            S == {m \in 0..n : Good(m)}
<1>7. Good(0)
  <2>1. IsSeq(<<{}>>) /\ Len(<<{}>>) = 1 /\ <<{}>>[1] = {}  BY Tuple
  <2>2. \A j \in 1..0 + 1 : j = 1  OBVIOUS
  <2>. QED  BY <1>6, <2>1, <2>2
<1>8. ASSUME NEW i \in 1..n, Good(i - 1)  PROVE Good(i)
  <2>. DEFINE d == D[i - 1]
              B == Behind(start, i, d)
              x == out[i]
  <2>1. /\ IsSeq(d) /\ Len(d) = i
        /\ \A j \in 1..i : \A v \in d[j] : Above(j, v)
    <3>1. (i - 1) + 1 = i  BY <1>0
    <3>. QED  BY <1>8, <3>1
  <2>2. D[i] = Append(d, B)  BY <1>6
  <2>3. Takes(x, L, h[i], h[i + 1])  BY DEF n
  <2>4. i \in Nat /\ i \in 1..n + 1 /\ i + 1 \in 1..n + 1 /\ i \in 1..i  BY <1>0
  <2>s. \A j \in 1..n + 1 : h[j] \in Stacks /\ h[j].h \in Nat  BY StackIs DEF n
  <2>. DEFINE p == h[i].h
              q == h[i + 1].h
              l == L[x[2]]
              above == h[i + 1].at \in Evaluating
  <2>n. p \in Nat /\ q \in Nat  BY <2>4, <2>s
  <2>. HIDE DEF x
  <2>t. /\ x[1] = "label" => above /\ l <= p /\ q = l /\ l \in Nat
        /\ h[i].at \in Evaluating =>
              \/ x[1] \in {"push", "push_imm"} /\ above /\ q = p + 1
              \/ x[1] = "pop" /\ above /\ p = q + 1
              \/ x[1] \in {"label", "jmp", "ret"} \/ x = <<"mov", "rsp", "rbp">>
              \/ x[1] \notin {"push", "push_imm", "pop", "label"} /\ above /\ q = p
    <3>. DEFINE u == h[i]
                w == h[i + 1]
    <3>1. u \in Stacks /\ w \in Stacks /\ Takes(x, L, u, w)  BY <2>3, <2>4, <2>s
    <3>. HIDE DEF u, w
    <3>2. /\ x[1] = "label" => L[x[2]] <= u.h /\ w = Stack(L[x[2]], <<>>, "body")
          /\ u.at \in Evaluating =>
              \/ x[1] \in {"push", "push_imm"} /\ w.at \in Evaluating /\ w.h = u.h + 1
              \/ x[1] = "pop" /\ w.at \in Evaluating /\ u.h = w.h + 1
              \/ x[1] \in {"label", "jmp", "ret"} \/ x = <<"mov", "rsp", "rbp">>
              \/ x[1] \notin {"push", "push_imm", "pop", "label"} /\ w.at \in Evaluating /\ w.h = u.h
      BY <3>1, TakesCases
    <3>3. x[1] = "label" => w.h = L[x[2]] /\ w.at \in Evaluating
      BY <3>2 DEF Stack, Evaluating
    <3>4. x[1] = "label" => L[x[2]] \in Nat
      <4>1. w.h \in Nat  BY <3>1, StackIs
      <4>. QED  BY <3>3, <4>1
    <3>. QED  BY <3>2, <3>3, <3>4 DEF u, w
  <2>. HIDE DEF d, Above, p, q, l, above
  <2>a. start <= i => \A v : v \in Int /\ above /\ v >= q - base => Above(i + 1, v)
    <3>1. start <= i => start < i + 1  BY <2>4, <1>0
    <3>. QED  BY <3>1 DEF Above, q, above
  <2>5. ASSUME NEW v \in B  PROVE Above(i + 1, v)
    <3>0. \A w \in d[i] : /\ w \in Int /\ h[i].at \in Evaluating /\ w >= p - base
                         /\ start < i /\ start <= i
      <4>1. start < i => start <= i  BY <2>4, <1>0
      <4>2. \A w \in d[i] : Above(i, w)  BY <2>1, <2>4
      <4>. QED  BY <4>1, <4>2 DEF Above, p
    <3>1. CASE i = start /\ v = 0
      <4>1. above /\ q = base /\ start <= i  BY <2>4, <3>1 DEF base, q, above
      <4>. QED  BY <3>1, <4>1, <2>a, <1>0
    <3>2. CASE x[1] \in {"push", "push_imm"} /\ \E w \in d[i] : v = w + 1
      <4>1. PICK w \in d[i] : v = w + 1  BY <3>2
      <4>2. q = p + 1 /\ above  BY <2>t, <3>0, <3>2, <4>1
      <4>. QED  BY <4>1, <4>2, <3>0, <2>a, <2>n, <1>0
    <3>3. CASE x[1] = "pop" /\ \E w \in d[i] : v = w - 1
      <4>1. PICK w \in d[i] : v = w - 1  BY <3>3
      <4>2. p = q + 1 /\ above  BY <2>t, <3>0, <3>3, <4>1
      <4>. QED  BY <4>1, <4>2, <3>0, <2>a, <2>n, <1>0
    <3>4. CASE v \in d[i] /\ above /\ q <= p  BY <3>4, <3>0, <2>a, <2>n, <1>0
    <3>5. CASE /\ x[1] = "label"
               /\ \E j \in 1..i : out[j][1] \in {"jmp", "je"} /\ out[j][2] = x[2] /\ v \in d[j]
      <4>1. PICK j \in 1..i : out[j][1] \in {"jmp", "je"} /\ out[j][2] = x[2] /\ v \in d[j]
        BY <3>5
      <4>2. j \in 1..n /\ j \in 1..n + 1 /\ j + 1 \in 1..n + 1  BY <1>0
      <4>3. h[j] \in Stacks /\ h[j].h \in Nat /\ h[j + 1] \in Stacks  BY <4>2, <2>s
      <4>4. Takes(out[j], L, h[j], h[j + 1])  BY <4>2 DEF n
      <4>5. l <= h[j].h
        <5>. DEFINE u == h[j]
                    w == h[j + 1]
                    y == out[j]
        <5>1. u \in Stacks /\ w \in Stacks /\ Takes(y, L, u, w) /\ y[1] \in {"je", "jmp"}
          BY <4>1, <4>3, <4>4
        <5>. HIDE DEF u, w, y
        <5>2. L[y[2]] <= u.h  BY <5>1, TakesCases
        <5>. QED  BY <5>2, <4>1 DEF u, y, l
      <4>6. v \in Int /\ v >= h[j].h - base /\ start <= i
        <5>1. Above(j, v)  BY <4>1, <2>1
        <5>2. start < j /\ v \in Int /\ v >= h[j].h - base  BY <5>1 DEF Above
        <5>3. start <= i  BY <5>2, <2>4, <1>0
        <5>. QED  BY <5>2, <5>3
      <4>. DEFINE k == h[j].h
      <4>7. k \in Nat /\ l <= k /\ v >= k - base  BY <4>3, <4>5, <4>6
      <4>. HIDE DEF k
      <4>8. q = l /\ above  BY <2>t, <3>5
      <4>9. v >= q - base  BY <4>6, <4>7, <4>8, <2>n, <1>0
      <4>. QED  BY <4>6, <4>8, <4>9, <2>a
    <3>6. CASE x[1] = "label" /\ v \in d[i]  BY <3>4, <3>6, <2>t
    <3>7. CASE /\ x[1] \notin {"push", "push_imm", "pop", "label", "jmp", "ret"}
               /\ x # <<"mov", "rsp", "rbp">> /\ v \in d[i]
      <4>1. above /\ q = p  BY <2>t, <3>0, <3>7
      <4>. QED  BY <3>4, <3>7, <4>1, <2>n
    <3>8. \/ i = start /\ v = 0
          \/ x[1] \in {"push", "push_imm"} /\ \E w \in d[i] : v = w + 1
          \/ x[1] = "pop" /\ \E w \in d[i] : v = w - 1
          \/ x[1] = "label" /\ v \in d[i]
          \/ /\ x[1] = "label"
             /\ \E j \in 1..i : out[j][1] \in {"jmp", "je"} /\ out[j][2] = x[2] /\ v \in d[j]
          \/ /\ x[1] \notin {"push", "push_imm", "pop", "label", "jmp", "ret"}
             /\ x # <<"mov", "rsp", "rbp">> /\ v \in d[i]
      BY BehindCases DEF x
    <3>. QED  BY <3>1, <3>2, <3>3, <3>5, <3>6, <3>7, <3>8
  <2>. HIDE DEF B
  <2>6. /\ IsSeq(Append(d, B)) /\ Len(Append(d, B)) = i + 1
        /\ \A j \in 1..i : Append(d, B)[j] = d[j]
        /\ Append(d, B)[i + 1] = B
    <3>1. PICK U : d \in Seq(U)  BY <2>1 DEF IsSeq
    <3>2. d \in Seq(U \cup {B})  BY <3>1
    <3>3. Append(d, B) \in Seq(U \cup {B})  BY <3>2
    <3>. QED  BY <3>2, <3>3, <2>1, <2>4 DEF IsSeq
  <2>7. ASSUME NEW j \in 1..i + 1, NEW v \in Append(d, B)[j]  PROVE Above(j, v)
    <3>1. CASE j \in 1..i  BY <3>1, <2>1, <2>6, <2>7
    <3>2. CASE j = i + 1  BY <3>2, <2>5, <2>6, <2>7
    <3>. QED  BY <3>1, <3>2, <2>4
  <2>. QED  BY <2>2, <2>6, <2>7
<1>9. Good(n)
  <2>1. 0 \in S  BY <1>0, <1>7
  <2>2. ASSUME NEW i \in 1..n, i - 1 \in S  PROVE i \in S
    <3>1. Good(i - 1) /\ i \in 0..n  BY <1>0, <2>2
    <3>. HIDE DEF Good
    <3>. QED  BY <3>1, <1>8
  <2>. HIDE DEF S
  <2>3. 0..n \subseteq S  BY <1>0, <2>1, <2>2, Induct
  <2>4. n \in S  BY <1>0, <2>3
  <2>. QED  BY <2>4 DEF S
<1>10. \A j \in 1..n : j \in 1..n + 1  BY <1>0
<1>. QED  BY <1>4, <1>9, <1>10 DEF n, base

\* The invariants say what PopsCovered does.
LEMMA Covered ==
  PrintInv /\ StackInv => PopsCovered
<1>. SUFFICES ASSUME PrintInv, StackInv, phase = "done", Clean
              PROVE  /\ \A f \in { i \in Instructions("sub_imm") : out[i][2] = "rsp" } :
                          LET depths == Depths(f)
                          IN  \A i \in Instructions("pop") : 0 \notin depths[i]
                     /\ \A s \in Instructions("label") :
                          LET back == { j \in Instructions("jmp") \cup Instructions("je") :
                                          j > s /\ out[j][2] = out[s][2] }
                          IN  back # {} => LET depths == Depths(s)
                                           IN  \A j \in back : \A d \in depths[j] : d >= 0
  BY DEF PopsCovered, Clean
<1>. DEFINE n == Len(out)
<1>1. PICK L \in Heights : \E b \in Stacks : Bounded(L, b)  BY DEF StackInv
<1>2. PICK b \in Stacks : Run(out, L, Outside, b)  BY <1>1 DEF Bounded
<1>3. Fitting(out, todo, labelidx, Forest, Symbols(Globals, Literals))
  BY DEF PrintInv, Consistent
<1>4. IsSeq(out) /\ labelidx \in Nat  BY <1>3 DEF Fitting
<1>5. n \in Nat /\ DOMAIN out = 1..n  BY <1>4, SeqFacts
<1>6. Places(out) \subseteq Labels
  <2>1. Places(out) \subseteq Before(labelidx)  BY <1>3, OldLabels
  <2>2. Before(labelidx) \subseteq Labels  BY <1>4 DEF Before, Labels
  <2>. QED  BY <2>1, <2>2
<1>7. PICK h \in [1..n + 1 -> Stacks] : \A i \in 1..n : <<h[i], h[i + 1]>> \in Effect(out[i], L)
  <2>. DEFINE t == Text(out, L)
  <2>1. Len(t) = n /\ \A i \in 1..n : t[i] = Effect(out[i], L)  BY <1>4, TextSeq
  <2>2. Path(t, Outside, b)  BY <1>2 DEF Run
  <2>. HIDE DEF t, n
  <2>. QED  BY <2>1, <2>2 DEF Path
<1>. HIDE DEF n
<1>8. \A i \in 1..n : i \in 1..n + 1 /\ i + 1 \in 1..n + 1  BY <1>5
<1>9. \A i \in 1..n : Takes(out[i], L, h[i], h[i + 1])
  <2>1. SUFFICES ASSUME NEW i \in 1..n  PROVE Takes(out[i], L, h[i], h[i + 1])
    OBVIOUS
  <2>2. h[i] \in Stacks /\ h[i + 1] \in Stacks  BY <1>8
  <2>. QED  BY <2>2, <1>7, EffectIs
<1>s. \A i \in 1..n : /\ h[i] \in Stacks /\ h[i].h \in Nat
                       /\ h[i + 1] \in Stacks /\ h[i + 1].h \in Nat
  BY <1>8, StackIs
<1>10. ASSUME NEW start \in 1..n, h[start + 1].at \in Evaluating, NEW i \in 1..n, NEW v \in Depths(start)[i]
       PROVE  v \in Int /\ h[i].at \in Evaluating /\ v >= h[i].h - h[start + 1].h
  BY <1>4, <1>6, <1>9, <1>10, DepthsAbove DEF n
<1>t. ASSUME NEW i \in 1..n, NEW x, x = out[i], NEW u, u = h[i], NEW w, w = h[i + 1]
      PROVE  u \in Stacks /\ w \in Stacks /\ Takes(x, L, u, w)
  BY <1>s, <1>9, <1>t
<1>11. ASSUME NEW f \in Instructions("sub_imm"), out[f][2] = "rsp", NEW i \in Instructions("pop")
       PROVE  0 \notin Depths(f)[i]
  <2>1. f \in 1..n /\ i \in 1..n /\ out[f][1] = "sub_imm" /\ out[i][1] = "pop"
    BY <1>5 DEF Instructions
  <2>. DEFINE s == h[f + 1]
              u == h[i]
              w == h[i + 1]
              x == out[i]
              y == out[f]
              r == h[f]
  <2>2. /\ r \in Stacks /\ s \in Stacks /\ Takes(y, L, r, s) /\ y[1] = "sub_imm" /\ y[2] = "rsp"
        /\ u \in Stacks /\ w \in Stacks /\ Takes(x, L, u, w) /\ x[1] = "pop"
        /\ u.h \in Nat /\ w.h \in Nat
    BY <1>s, <1>t, <1>11, <2>1
  <2>3. SUFFICES ASSUME 0 \in Depths(f)[i]  PROVE FALSE
    OBVIOUS
  <2>. HIDE DEF x, y, r, w
  <2>4. s.h = 0 /\ s.at \in Evaluating
    <3>. HIDE DEF s
    <3>1. s = Stack(0, <<>>, "body")  BY <2>2, TakesCases
    <3>. QED  BY <3>1 DEF Stack, Evaluating
  <2>5. u.at \in Evaluating /\ 0 >= u.h - s.h  BY <1>10, <2>1, <2>3, <2>4
  <2>. HIDE DEF u, s
  <2>6. u.h = w.h + 1
    <3>1. u.at \in Evaluating =>
            \/ x[1] \in {"push", "push_imm"} /\ w.at \in Evaluating /\ w.h = u.h + 1
            \/ x[1] = "pop" /\ w.at \in Evaluating /\ u.h = w.h + 1
            \/ x[1] \in {"label", "jmp", "ret"} \/ x = <<"mov", "rsp", "rbp">>
            \/ x[1] \notin {"push", "push_imm", "pop", "label"} /\ w.at \in Evaluating /\ w.h = u.h
      BY <2>2, TakesCases
    <3>2. x # <<"mov", "rsp", "rbp">>  BY <2>2
    <3>. QED  BY <2>2, <2>5, <3>1, <3>2
  <2>. QED  BY <2>2, <2>4, <2>5, <2>6
<1>12. ASSUME NEW s \in Instructions("label"),
              NEW j \in Instructions("jmp") \cup Instructions("je"), out[j][2] = out[s][2],
              NEW d \in Depths(s)[j]
       PROVE  d >= 0
  <2>1. s \in 1..n /\ j \in 1..n /\ out[s][1] = "label" /\ out[j][1] \in {"jmp", "je"}
    BY <1>5 DEF Instructions
  <2>. DEFINE r == h[s]
              w == h[s + 1]
              u == h[j]
              t == h[j + 1]
              y == out[s]
              x == out[j]
  <2>2. /\ r \in Stacks /\ w \in Stacks /\ Takes(y, L, r, w) /\ y[1] = "label"
        /\ u \in Stacks /\ t \in Stacks /\ Takes(x, L, u, t) /\ x[1] \in {"je", "jmp"}
        /\ x[2] = y[2] /\ w.h \in Nat /\ u.h \in Nat
    BY <1>s, <1>t, <1>12, <2>1
  <2>. HIDE DEF r, t, x, y
  <2>3. w = Stack(L[y[2]], <<>>, "body")  BY <2>2, TakesCases
  <2>4. L[x[2]] <= u.h  BY <2>2, TakesCases
  <2>5. w.h = L[y[2]] /\ w.at \in Evaluating  BY <2>3 DEF Stack, Evaluating
  <2>6. d \in Int /\ d >= u.h - w.h  BY <1>10, <1>12, <2>1, <2>5
  <2>. DEFINE p == u.h
              q == w.h
  <2>7. p \in Nat /\ q \in Nat /\ q <= p /\ d >= p - q  BY <2>2, <2>4, <2>5, <2>6
  <2>. HIDE DEF p, q
  <2>. QED  BY <2>6, <2>7
<1>. QED  BY <1>11, <1>12

(* When main() is done and no `struct S` stood for a value, no pop in a      *)
(* function takes from the stack what was not pushed behind the reservation  *)
(* of the function's variables, and no loop jumps back with a lower stack    *)
(* than it began with: every call of gen() pushes what its caller expects.   *)
THEOREM PopsMatched == PrintSpec => []PopsCovered
BY Covered, StackInvariance, PTL
=============================================================================
