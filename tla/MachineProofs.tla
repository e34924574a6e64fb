------------------------------ MODULE MachineProofs ------------------------------
(***************************************************************************)
(* Proofs about the execution of the printed code (Machine), for every     *)
(* program of C, every stack and every word size: rsp is a multiple of 16  *)
(* at each call, nothing an expression pops is a variable, a loop takes    *)
(* nothing off the stack, and a function returns to its caller with the    *)
(* caller's rsp and rbp.                                                   *)
(*                                                                         *)
(* StackProofs gives a state of the stack to every place of the text.  The *)
(* invariant says that each active function is in the state of the place   *)
(* where it is: how far its rsp is below its variables, where its caller's *)
(* rbp and its return address lie, and where each alignment has put rsp    *)
(* and the two words that undo it.  An instruction takes the running       *)
(* function to the next state and leaves alone what the others rely on,    *)
(* because they rely on words above rsp that are no variables.             *)
(***************************************************************************)
EXTENDS Machine, StackProofs

-----------------------------------------------------------------------------
(* Memory, and the stack of one function. *)

Stored(M, a, v) == a \in DOMAIN M /\ M[a] = v

\* Evaluating below `low`, with h words on the stack of which marks were there at
\* each alignment: those put rsp at top, taking off pad, and pad was pushed twice,
\* unless it is still in rdx, whose value is dx.
Evaluates(low, h, marks, sp, dx, M) ==
  /\ sp \in Nat /\ sp + 8 * h <= low
  /\ LET n == Len(marks)
     IN  \E top, pad \in [1..n -> Nat] :
           /\ \A j \in 1..n : top[j] % 16 = 0 /\ top[j] + pad[j] + 8 * marks[j] <= low
           /\ \A i, j \in 1..n : i < j => top[j] + 16 <= top[i]
           /\ \A j \in 1..n - 1 :
                /\ top[j + 1] + pad[j + 1] + 8 * (marks[j + 1] - marks[j]) = top[j]
                /\ Stored(M, top[j] - 8, pad[j]) /\ Stored(M, top[j] - 16, pad[j])
           /\ n > 0 =>
                /\ h >= marks[n] /\ sp + 8 * (h - marks[n]) = top[n]
                /\ h >= marks[n] + 1 => Stored(M, top[n] - 8, pad[n])
                /\ h >= marks[n] + 2 => Stored(M, top[n] - 16, pad[n])
                /\ h < marks[n] + 2 => dx = pad[n]

\* What a function's evaluation stays below: its variables, and where rsp would be
\* if each loop, with L words on the stack at its head, had come there with none.
Bounds(L, F) == {F.low} \cup {F.heads[l] + 8 * L[l] : l \in DOMAIN F.heads}

\* A function with the frame F in the state s, with these values in rsp, rbp, rdx.
Shape(L, F, s, sp, bp, dx, M) ==
  /\ s \in Stacks /\ s.at # "out"
  /\ Stored(M, F.rsp, F.return)
  /\ s.at \in {"entry", "left"} => sp = F.rsp /\ bp = F.rbp
  /\ s.at = "saved" => sp = F.rsp - 8 /\ bp = F.rbp /\ Stored(M, sp, F.rbp)
  /\ s.at \notin {"entry", "left", "saved"} => bp = F.rsp - 8 /\ Stored(M, bp, F.rbp)
  /\ s.at \in {"framed", "leaving"} => sp = bp
  /\ s.at \in {"entry", "saved", "framed"} => DOMAIN F.heads = {}
  /\ s.at \in Evaluating =>
       \A low \in Bounds(L, F) : Evaluates(low, s.h, s.marks, sp, dx, M)

\* It runs, and has come so far with an alignment.
Running(L, F, s, R, M) ==
  /\ Shape(L, F, s, R["rsp"], R["rbp"], R["rdx"], M)
  /\ s.at \in {"mov", "imm", "cqo"} => R["rax"] = R["rsp"]
  /\ s.at \in {"imm", "cqo"} => R["rdi"] = 16
  /\ s.at = "cqo" => R["rdx"] = 0
  /\ s.at = "idiv" => R["rdx"] = R["rsp"] % 16

\* It has called a function, and rdx does not matter.
Suspended(L, F, s, sp, bp, M) ==
  /\ s.at = "body" /\ s.marks # <<>> /\ s.h = s.marks[Len(s.marks)] + 2
  /\ \A dx : Shape(L, F, s, sp, bp, dx, M)

IsFrame(L, F) ==
  /\ DOMAIN F = {"rsp", "rbp", "return", "low", "heads"}
  /\ F.rsp \in Int /\ F.low \in Int /\ F.low <= F.rsp - 8
  /\ \A l \in DOMAIN F.heads :
       F.heads[l] \in Int /\ L[l] \in Nat /\ F.heads[l] + 8 * L[l] <= F.low

\* What a function relies on: its return address, its caller's rbp and the words
\* between rsp and its variables.
Kept(M, N, F, sp) ==
  \A a \in Int : \A v :
    /\ a >= sp /\ (a + 8 <= F.low \/ a = F.rsp \/ a = F.rsp - 8) /\ Stored(M, a, v)
    => Stored(N, a, v)

-----------------------------------------------------------------------------
(* The stack of an evaluation. *)

\* Words that are kept.
LEMMA EvaluatesKept ==
  ASSUME NEW low \in Int, NEW h \in Nat, NEW marks \in Seq(Nat), NEW sp, NEW dx, NEW M, NEW N,
         Evaluates(low, h, marks, sp, dx, M),
         \A a \in Int : \A v : a >= sp /\ a + 8 <= low /\ Stored(M, a, v) => Stored(N, a, v)
  PROVE  Evaluates(low, h, marks, sp, dx, N)
<1>. DEFINE n == Len(marks)
<1>0. n \in Nat /\ \A j \in 1..n : marks[j] \in Nat  OBVIOUS
<1>1. sp \in Nat /\ sp + 8 * h <= low  BY DEF Evaluates
<1>2. PICK top \in [1..n -> Nat], pad \in [1..n -> Nat] :
        /\ \A j \in 1..n : top[j] % 16 = 0 /\ top[j] + pad[j] + 8 * marks[j] <= low
        /\ \A i, j \in 1..n : i < j => top[j] + 16 <= top[i]
        /\ \A j \in 1..n - 1 :
             /\ top[j + 1] + pad[j + 1] + 8 * (marks[j + 1] - marks[j]) = top[j]
             /\ Stored(M, top[j] - 8, pad[j]) /\ Stored(M, top[j] - 16, pad[j])
        /\ n > 0 =>
             /\ h >= marks[n] /\ sp + 8 * (h - marks[n]) = top[n]
             /\ h >= marks[n] + 1 => Stored(M, top[n] - 8, pad[n])
             /\ h >= marks[n] + 2 => Stored(M, top[n] - 16, pad[n])
             /\ h < marks[n] + 2 => dx = pad[n]
  BY DEF Evaluates
<1>. HIDE DEF n
<1>3. ASSUME NEW j \in 1..n, NEW k \in {8, 16}, top[j] - k >= sp
      PROVE  Stored(M, top[j] - k, pad[j]) => Stored(N, top[j] - k, pad[j])
  <2>. DEFINE t == top[j]
              d == pad[j]
              m == marks[j]
              a == top[j] - k
  <2>1. t \in Nat /\ d \in Nat /\ m \in Nat /\ t + d + 8 * m <= low  BY <1>0, <1>2
  <2>. HIDE DEF t, d, m
  <2>2. a \in Int /\ a + 8 <= low  BY <2>1 DEF t
  <2>. HIDE DEF a
  <2>. QED  BY <1>3, <2>2 DEF a, d
<1>4. ASSUME NEW j \in 1..n - 1
      PROVE  Stored(N, top[j] - 8, pad[j]) /\ Stored(N, top[j] - 16, pad[j])
  <2>1. j \in 1..n /\ n \in 1..n /\ j < n /\ n > 0  BY <1>0
  <2>. DEFINE t == top[j]
              u == top[n]
              m == marks[n]
  <2>2. u + 16 <= t /\ h >= m /\ sp + 8 * (h - m) = u /\ t \in Nat /\ u \in Nat /\ m \in Nat
    BY <1>0, <1>2, <2>1
  <2>. HIDE DEF t, u, m
  <2>3. t - 8 >= sp /\ t - 16 >= sp  BY <1>1, <2>2
  <2>4. Stored(M, top[j] - 8, pad[j]) /\ Stored(M, top[j] - 16, pad[j])  BY <1>2
  <2>. QED  BY <1>3, <2>1, <2>3, <2>4 DEF t
<1>5. ASSUME n > 0
      PROVE  /\ h >= marks[n] + 1 => Stored(N, top[n] - 8, pad[n])
             /\ h >= marks[n] + 2 => Stored(N, top[n] - 16, pad[n])
  <2>1. n \in 1..n  BY <1>0, <1>5
  <2>. DEFINE u == top[n]
              m == marks[n]
  <2>2. h >= m /\ sp + 8 * (h - m) = u /\ u \in Nat /\ m \in Nat  BY <1>0, <1>2, <1>5, <2>1
  <2>3. /\ h >= m + 1 => Stored(M, u - 8, pad[n])
        /\ h >= m + 2 => Stored(M, u - 16, pad[n])
    BY <1>2, <1>5
  <2>. HIDE DEF u, m
  <2>4. (h >= m + 1 => u - 8 >= sp) /\ (h >= m + 2 => u - 16 >= sp)  BY <1>1, <2>2
  <2>. QED  BY <1>3, <2>1, <2>3, <2>4 DEF u, m
<1>. QED  BY <1>1, <1>2, <1>4, <1>5 DEF Evaluates, n

\* Without an alignment.
LEMMA EvaluatesLevel ==
  ASSUME NEW low, NEW h, NEW sp, NEW dx, NEW M
  PROVE  Evaluates(low, h, <<>>, sp, dx, M) <=> sp \in Nat /\ sp + 8 * h <= low
<1>1. ASSUME sp \in Nat, sp + 8 * h <= low  PROVE Evaluates(low, h, <<>>, sp, dx, M)
  <2>. DEFINE marks == <<>>
              n == Len(marks)
              f == [i \in 1..n |-> 0]
  <2>1. n = 0 /\ f \in [1..n -> Nat]  OBVIOUS
  <2>. HIDE DEF f, n
  <2>2. /\ \A j \in 1..n : f[j] % 16 = 0 /\ f[j] + f[j] + 8 * marks[j] <= low
        /\ \A i, j \in 1..n : i < j => f[j] + 16 <= f[i]
        /\ \A j \in 1..n - 1 :
             /\ f[j + 1] + f[j + 1] + 8 * (marks[j + 1] - marks[j]) = f[j]
             /\ Stored(M, f[j] - 8, f[j]) /\ Stored(M, f[j] - 16, f[j])
        /\ ~(n > 0)
    <3>1. \A j : j \notin 1..n /\ j \notin 1..n - 1  BY <2>1
    <3>. QED  BY <2>1, <3>1
  <2>. HIDE DEF marks
  <2>3. Evaluates(low, h, marks, sp, dx, M)  BY <1>1, <2>1, <2>2 DEF Evaluates, n
  <2>. QED  BY <2>3 DEF marks
<1>. QED  BY <1>1 DEF Evaluates

\* Fewer words count.
LEMMA EvaluatesLess ==
  ASSUME NEW low \in Int, NEW h \in Nat, NEW l \in Nat, l <= h, NEW sp, NEW dx, NEW M,
         Evaluates(low, h, <<>>, sp, dx, M)
  PROVE  Evaluates(low, l, <<>>, sp, dx, M)
<1>1. sp \in Nat /\ sp + 8 * h <= low  BY EvaluatesLevel
<1>2. sp + 8 * l <= low  BY <1>1
<1>. QED  BY <1>1, <1>2, EvaluatesLevel

\* rdx is free between the operators of an expression.
Free(h, marks) == marks # <<>> => h >= marks[Len(marks)] + 2

\* Whatever is moved into it then, the stack stays what it was.
LEMMA EvaluatesFree ==
  ASSUME NEW low, NEW h \in Nat, NEW marks \in Seq(Nat), NEW sp, NEW dx, NEW M,
         Evaluates(low, h, marks, sp, dx, M), Free(h, marks), NEW v
  PROVE  Evaluates(low, h, marks, sp, v, M)
<1>. DEFINE n == Len(marks)
<1>1. n > 0 => ~(h < marks[n] + 2)
  <2>1. SUFFICES ASSUME n > 0  PROVE ~(h < marks[n] + 2)  OBVIOUS
  <2>2. marks # <<>> /\ n \in 1..n /\ marks[n] \in Nat  BY <2>1
  <2>. DEFINE m == marks[n]
  <2>3. h >= m + 2 /\ m \in Nat  BY <2>2 DEF Free
  <2>. HIDE DEF m
  <2>4. ~(h < m + 2)  BY <2>3
  <2>. QED  BY <2>4 DEF m
<1>2. PICK top \in [1..n -> Nat], pad \in [1..n -> Nat] :
        /\ \A j \in 1..n : top[j] % 16 = 0 /\ top[j] + pad[j] + 8 * marks[j] <= low
        /\ \A i, j \in 1..n : i < j => top[j] + 16 <= top[i]
        /\ \A j \in 1..n - 1 :
             /\ top[j + 1] + pad[j + 1] + 8 * (marks[j + 1] - marks[j]) = top[j]
             /\ Stored(M, top[j] - 8, pad[j]) /\ Stored(M, top[j] - 16, pad[j])
        /\ n > 0 =>
             /\ h >= marks[n] /\ sp + 8 * (h - marks[n]) = top[n]
             /\ h >= marks[n] + 1 => Stored(M, top[n] - 8, pad[n])
             /\ h >= marks[n] + 2 => Stored(M, top[n] - 16, pad[n])
  BY DEF Evaluates
<1>3. sp \in Nat /\ sp + 8 * h <= low  BY DEF Evaluates
<1>. QED  BY <1>1, <1>2, <1>3 DEF Evaluates

\* A word is pushed: inside an alignment, it is the one in rdx.
LEMMA EvaluatesPush ==
  ASSUME NEW low \in Int, NEW h \in Nat, NEW marks \in Seq(Nat), NEW sp, NEW dx, NEW M, NEW N, NEW v,
         Evaluates(low, h, marks, sp, dx, M), sp >= 8, Free(h, marks) \/ v = dx,
         \A a \in Int : \A w : a >= sp /\ a + 8 <= low /\ Stored(M, a, w) => Stored(N, a, w),
         Stored(N, sp - 8, v)
  PROVE  Evaluates(low, h + 1, marks, sp - 8, dx, N)
<1>. DEFINE n == Len(marks)
<1>0. n \in Nat /\ \A j \in 1..n : marks[j] \in Nat  OBVIOUS
<1>1. sp \in Nat /\ sp + 8 * h <= low  BY DEF Evaluates
<1>2. Evaluates(low, h, marks, sp, dx, N)  BY EvaluatesKept
<1>3. PICK top \in [1..n -> Nat], pad \in [1..n -> Nat] :
        /\ \A j \in 1..n : top[j] % 16 = 0 /\ top[j] + pad[j] + 8 * marks[j] <= low
        /\ \A i, j \in 1..n : i < j => top[j] + 16 <= top[i]
        /\ \A j \in 1..n - 1 :
             /\ top[j + 1] + pad[j + 1] + 8 * (marks[j + 1] - marks[j]) = top[j]
             /\ Stored(N, top[j] - 8, pad[j]) /\ Stored(N, top[j] - 16, pad[j])
        /\ n > 0 =>
             /\ h >= marks[n] /\ sp + 8 * (h - marks[n]) = top[n]
             /\ h >= marks[n] + 1 => Stored(N, top[n] - 8, pad[n])
             /\ h >= marks[n] + 2 => Stored(N, top[n] - 16, pad[n])
             /\ h < marks[n] + 2 => dx = pad[n]
  BY <1>2 DEF Evaluates
<1>4. n > 0 =>
        /\ h + 1 >= marks[n] /\ (sp - 8) + 8 * ((h + 1) - marks[n]) = top[n]
        /\ h + 1 >= marks[n] + 1 => Stored(N, top[n] - 8, pad[n])
        /\ h + 1 >= marks[n] + 2 => Stored(N, top[n] - 16, pad[n])
        /\ h + 1 < marks[n] + 2 => dx = pad[n]
  <2>1. SUFFICES ASSUME n > 0
                 PROVE  /\ h + 1 >= marks[n] /\ (sp - 8) + 8 * ((h + 1) - marks[n]) = top[n]
                        /\ h + 1 >= marks[n] + 1 => Stored(N, top[n] - 8, pad[n])
                        /\ h + 1 >= marks[n] + 2 => Stored(N, top[n] - 16, pad[n])
                        /\ h + 1 < marks[n] + 2 => dx = pad[n]
    OBVIOUS
  <2>2. n \in 1..n /\ marks # <<>>  BY <1>0, <2>1
  <2>. DEFINE m == marks[n]
              t == top[n]
              d == pad[n]
  <2>3. /\ h >= m /\ sp + 8 * (h - m) = t /\ m \in Nat /\ t \in Nat
        /\ h >= m + 1 => Stored(N, t - 8, d)
        /\ h >= m + 2 => Stored(N, t - 16, d)
        /\ h < m + 2 => dx = d
    BY <1>0, <1>3, <2>1, <2>2
  <2>4. Free(h, marks) <=> h >= m + 2  BY <2>2 DEF Free
  <2>. HIDE DEF m, t, d
  <2>5. h < m + 2 => Stored(N, sp - 8, d)
    <3>1. h < m + 2 => v = d  BY <2>3, <2>4
    <3>. QED  BY <3>1
  <2>6. h = m => sp - 8 = t - 8  BY <1>1, <2>3
  <2>7. h = m + 1 => sp - 8 = t - 16  BY <1>1, <2>3
  <2>8. h + 1 >= m + 1 => Stored(N, t - 8, d)
    <3>1. CASE h = m  BY <2>5, <2>6, <2>3, <3>1
    <3>2. CASE h >= m + 1  BY <2>3, <3>2
    <3>. QED  BY <3>1, <3>2, <2>3
  <2>9. h + 1 >= m + 2 => Stored(N, t - 16, d)
    <3>1. CASE h = m  BY <3>1, <2>3
    <3>2. CASE h = m + 1  BY <2>5, <2>7, <2>3, <3>2
    <3>3. CASE h >= m + 2  BY <2>3, <3>3
    <3>. QED  BY <3>1, <3>2, <3>3, <2>3
  <2>10. h + 1 >= m /\ (sp - 8) + 8 * ((h + 1) - m) = t /\ (h + 1 < m + 2 => h < m + 2)
    BY <1>1, <2>3
  <2>. QED  BY <2>3, <2>8, <2>9, <2>10 DEF m, t, d
<1>5. sp - 8 \in Nat /\ (sp - 8) + 8 * (h + 1) <= low  BY <1>1
<1>. QED  BY <1>3, <1>4, <1>5 DEF Evaluates

\* A word is popped: inside an alignment, into rdx.
LEMMA EvaluatesPop ==
  ASSUME NEW low \in Int, NEW h \in Nat, NEW marks \in Seq(Nat), NEW sp, NEW dx, NEW M, NEW v, NEW dy,
         Evaluates(low, h + 1, marks, sp, dx, M), Stored(M, sp, v),
         \/ Free(h, marks)
         \/ dy = v /\ marks # <<>> /\ h \in {marks[Len(marks)], marks[Len(marks)] + 1}
  PROVE  Evaluates(low, h, marks, sp + 8, dy, M)
<1>. DEFINE n == Len(marks)
<1>0. n \in Nat /\ \A j \in 1..n : marks[j] \in Nat  OBVIOUS
<1>1. sp \in Nat /\ sp + 8 * (h + 1) <= low  BY DEF Evaluates
<1>3. PICK top \in [1..n -> Nat], pad \in [1..n -> Nat] :
        /\ \A j \in 1..n : top[j] % 16 = 0 /\ top[j] + pad[j] + 8 * marks[j] <= low
        /\ \A i, j \in 1..n : i < j => top[j] + 16 <= top[i]
        /\ \A j \in 1..n - 1 :
             /\ top[j + 1] + pad[j + 1] + 8 * (marks[j + 1] - marks[j]) = top[j]
             /\ Stored(M, top[j] - 8, pad[j]) /\ Stored(M, top[j] - 16, pad[j])
        /\ n > 0 =>
             /\ h + 1 >= marks[n] /\ sp + 8 * ((h + 1) - marks[n]) = top[n]
             /\ h + 1 >= marks[n] + 1 => Stored(M, top[n] - 8, pad[n])
             /\ h + 1 >= marks[n] + 2 => Stored(M, top[n] - 16, pad[n])
  BY DEF Evaluates
<1>4. n > 0 =>
        /\ h >= marks[n] /\ (sp + 8) + 8 * (h - marks[n]) = top[n]
        /\ h >= marks[n] + 1 => Stored(M, top[n] - 8, pad[n])
        /\ h >= marks[n] + 2 => Stored(M, top[n] - 16, pad[n])
        /\ h < marks[n] + 2 => dy = pad[n]
  <2>1. SUFFICES ASSUME n > 0
                 PROVE  /\ h >= marks[n] /\ (sp + 8) + 8 * (h - marks[n]) = top[n]
                        /\ h >= marks[n] + 1 => Stored(M, top[n] - 8, pad[n])
                        /\ h >= marks[n] + 2 => Stored(M, top[n] - 16, pad[n])
                        /\ h < marks[n] + 2 => dy = pad[n]
    OBVIOUS
  <2>2. n \in 1..n /\ marks # <<>>  BY <1>0, <2>1
  <2>. DEFINE m == marks[n]
              t == top[n]
              d == pad[n]
  <2>3. /\ sp + 8 * ((h + 1) - m) = t /\ m \in Nat /\ t \in Nat
        /\ h + 1 >= m + 1 => Stored(M, t - 8, d)
        /\ h + 1 >= m + 2 => Stored(M, t - 16, d)
    BY <1>0, <1>3, <2>1, <2>2
  <2>4. \/ h >= m + 2
        \/ dy = v /\ h \in {m, m + 1}
    BY <2>2 DEF Free
  <2>. HIDE DEF m, t, d
  <2>5. h >= m  BY <2>3, <2>4
  <2>6. h < m + 2 => dy = d
    <3>1. CASE h = m /\ dy = v
      <4>1. sp = t - 8 /\ h + 1 >= m + 1  BY <1>1, <2>3, <3>1
      <4>. QED  BY <2>3, <3>1, <4>1 DEF Stored
    <3>2. CASE h = m + 1 /\ dy = v
      <4>1. sp = t - 16 /\ h + 1 >= m + 2  BY <1>1, <2>3, <3>2
      <4>. QED  BY <2>3, <3>2, <4>1 DEF Stored
    <3>. QED  BY <2>3, <2>4, <3>1, <3>2
  <2>7. (sp + 8) + 8 * (h - m) = t /\ (h >= m + 1 => h + 1 >= m + 1) /\ (h >= m + 2 => h + 1 >= m + 2)
    BY <1>1, <2>3
  <2>. QED  BY <2>3, <2>5, <2>6, <2>7 DEF m, t, d
<1>5. sp + 8 \in Nat /\ (sp + 8) + 8 * h <= low  BY <1>1
<1>. QED  BY <1>3, <1>4, <1>5 DEF Evaluates

\* rsp is aligned: what was taken off it is in rdx.
LEMMA EvaluatesAlign ==
  ASSUME NEW low \in Int, NEW h \in Nat, NEW marks \in Seq(Nat), NEW sp, NEW dx, NEW M,
         Evaluates(low, h, marks, sp, dx, M), Free(h, marks)
  PROVE  /\ sp % 16 \in Nat /\ sp - (sp % 16) \in 0..sp
         /\ Evaluates(low, h, Append(marks, h), sp - (sp % 16), sp % 16, M)
<1>. DEFINE n == Len(marks)
            e == Append(marks, h)
            d == sp % 16
            t == sp - d
<1>0. n \in Nat /\ \A j \in 1..n : marks[j] \in Nat  OBVIOUS
<1>1. sp \in Nat /\ sp + 8 * h <= low  BY DEF Evaluates
<1>2. d \in Nat /\ t \in 0..sp /\ t % 16 = 0  BY <1>1
<1>3. PICK top \in [1..n -> Nat], pad \in [1..n -> Nat] :
        /\ \A j \in 1..n : top[j] % 16 = 0 /\ top[j] + pad[j] + 8 * marks[j] <= low
        /\ \A i, j \in 1..n : i < j => top[j] + 16 <= top[i]
        /\ \A j \in 1..n - 1 :
             /\ top[j + 1] + pad[j + 1] + 8 * (marks[j + 1] - marks[j]) = top[j]
             /\ Stored(M, top[j] - 8, pad[j]) /\ Stored(M, top[j] - 16, pad[j])
        /\ n > 0 =>
             /\ h >= marks[n] /\ sp + 8 * (h - marks[n]) = top[n]
             /\ h >= marks[n] + 1 => Stored(M, top[n] - 8, pad[n])
             /\ h >= marks[n] + 2 => Stored(M, top[n] - 16, pad[n])
  BY DEF Evaluates
<1>4. Len(e) = n + 1 /\ e[n + 1] = h /\ \A j \in 1..n : e[j] = marks[j]  OBVIOUS
<1>5. n > 0 => /\ sp + 8 * (h - marks[n]) = top[n] /\ sp + 16 <= top[n]
               /\ Stored(M, top[n] - 8, pad[n]) /\ Stored(M, top[n] - 16, pad[n])
  <2>1. SUFFICES ASSUME n > 0
                 PROVE  /\ sp + 8 * (h - marks[n]) = top[n] /\ sp + 16 <= top[n]
                        /\ Stored(M, top[n] - 8, pad[n]) /\ Stored(M, top[n] - 16, pad[n])
    OBVIOUS
  <2>2. n \in 1..n /\ marks # <<>>  BY <1>0, <2>1
  <2>. DEFINE m == marks[n]
              u == top[n]
  <2>3. /\ h >= m + 2 /\ m \in Nat /\ u \in Nat /\ sp + 8 * (h - m) = u
        /\ h >= m + 1 => Stored(M, u - 8, pad[n])
        /\ h >= m + 2 => Stored(M, u - 16, pad[n])
    BY <1>0, <1>3, <2>1, <2>2 DEF Free
  <2>. HIDE DEF m, u
  <2>4. sp + 16 <= u /\ h >= m + 1  BY <1>1, <2>3
  <2>. QED  BY <2>3, <2>4 DEF m, u
<1>. DEFINE p == [j \in 1..n + 1 |-> IF j = n + 1 THEN t ELSE top[j]]
            q == [j \in 1..n + 1 |-> IF j = n + 1 THEN d ELSE pad[j]]
<1>. HIDE DEF n, e, d, t
<1>6. /\ p \in [1..n + 1 -> Nat] /\ q \in [1..n + 1 -> Nat]
      /\ p[n + 1] = t /\ q[n + 1] = d
      /\ \A j \in 1..n : p[j] = top[j] /\ q[j] = pad[j]
  <2>1. \A j \in 1..n + 1 : j = n + 1 \/ j \in 1..n  BY <1>0
  <2>2. n + 1 \in 1..n + 1 /\ t \in Nat /\ \A j \in 1..n : j \in 1..n + 1 /\ j # n + 1
    BY <1>0, <1>1, <1>2
  <2>. QED  BY <1>2, <1>3, <2>1, <2>2
<1>. HIDE DEF p, q
<1>7. ASSUME NEW j \in 1..n + 1  PROVE p[j] % 16 = 0 /\ p[j] + q[j] + 8 * e[j] <= low
  <2>1. CASE j \in 1..n  BY <2>1, <1>3, <1>4, <1>6
  <2>2. CASE j = n + 1
    <3>1. t + d = sp  BY <1>1, <1>2 DEF t
    <3>. QED  BY <2>2, <3>1, <1>1, <1>2, <1>4, <1>6
  <2>. QED  BY <2>1, <2>2, <1>0
<1>8. ASSUME NEW i \in 1..n + 1, NEW j \in 1..n + 1, i < j  PROVE p[j] + 16 <= p[i]
  <2>0. i \in 1..n  BY <1>0, <1>8
  <2>1. CASE j \in 1..n  BY <2>0, <2>1, <1>3, <1>6, <1>8
  <2>2. CASE j = n + 1
    <3>. DEFINE u == top[n]
                w == top[i]
    <3>1. n \in 1..n /\ n > 0  BY <1>0, <2>0
    <3>2. sp + 16 <= u /\ u \in Nat /\ w \in Nat  BY <1>3, <1>5, <2>0, <3>1
    <3>3. i = n \/ i < n  BY <1>0, <2>0
    <3>4. w = u \/ u + 16 <= w  BY <1>3, <2>0, <3>1, <3>3
    <3>. HIDE DEF u, w
    <3>5. t + 16 <= w  BY <1>1, <1>2, <3>2, <3>4
    <3>. QED  BY <2>0, <2>2, <3>5, <1>6 DEF w
  <2>. QED  BY <2>1, <2>2, <1>0
<1>9. ASSUME NEW j \in 1..n
      PROVE  /\ p[j + 1] + q[j + 1] + 8 * (e[j + 1] - e[j]) = p[j]
             /\ Stored(M, p[j] - 8, q[j]) /\ Stored(M, p[j] - 16, q[j])
  <2>1. CASE j \in 1..n - 1
    <3>1. j + 1 \in 1..n  BY <1>0, <2>1
    <3>. QED  BY <2>1, <3>1, <1>3, <1>4, <1>6
  <2>2. CASE j = n
    <3>1. n > 0 /\ t + d = sp  BY <1>0, <1>1, <1>2, <2>2 DEF t
    <3>. QED  BY <2>2, <3>1, <1>4, <1>5, <1>6
  <2>. QED  BY <2>1, <2>2, <1>0
<1>10. /\ h >= e[n + 1] /\ t + 8 * (h - e[n + 1]) = p[n + 1]
       /\ ~(h >= e[n + 1] + 1) /\ ~(h >= e[n + 1] + 2) /\ d = q[n + 1]
  BY <1>2, <1>4, <1>6
<1>11. t \in Nat /\ t + 8 * h <= low  BY <1>1, <1>2
<1>. DEFINE k == Len(e)
<1>12. k = n + 1 /\ (n + 1) - 1 = n  BY <1>0, <1>4
<1>13. Evaluates(low, h, e, t, d, M)
  <2>1. /\ p \in [1..k -> Nat] /\ q \in [1..k -> Nat]
        /\ \A j \in 1..k : p[j] % 16 = 0 /\ p[j] + q[j] + 8 * e[j] <= low
        /\ \A i, j \in 1..k : i < j => p[j] + 16 <= p[i]
        /\ \A j \in 1..k - 1 :
             /\ p[j + 1] + q[j + 1] + 8 * (e[j + 1] - e[j]) = p[j]
             /\ Stored(M, p[j] - 8, q[j]) /\ Stored(M, p[j] - 16, q[j])
        /\ h >= e[k] /\ t + 8 * (h - e[k]) = p[k]
        /\ ~(h >= e[k] + 1) /\ ~(h >= e[k] + 2) /\ d = q[k]
    BY <1>6, <1>7, <1>8, <1>9, <1>10, <1>12
  <2>. QED  BY <1>11, <2>1 DEF Evaluates
<1>. QED  BY <1>2, <1>13 DEF e, t, d

\* The alignment is undone: rdx is added to rsp again.
LEMMA EvaluatesUnalign ==
  ASSUME NEW low \in Int, NEW h \in Nat, NEW marks \in Seq(Nat), NEW sp, NEW dx, NEW M,
         Evaluates(low, h, Append(marks, h), sp, dx, M), Free(h, marks), NEW v
  PROVE  dx \in Nat /\ sp + dx \in 0..low /\ Evaluates(low, h, marks, sp + dx, v, M)
<1>. DEFINE n == Len(marks)
            e == Append(marks, h)
            k == Len(e)
<1>0. n \in Nat /\ \A j \in 1..n : marks[j] \in Nat  OBVIOUS
<1>1. sp \in Nat /\ sp + 8 * h <= low  BY DEF Evaluates
<1>2. k = n + 1 /\ e[n + 1] = h /\ \A j \in 1..n : e[j] = marks[j]  OBVIOUS
<1>. HIDE DEF e
<1>3. PICK top \in [1..k -> Nat], pad \in [1..k -> Nat] :
        /\ \A j \in 1..k : top[j] % 16 = 0 /\ top[j] + pad[j] + 8 * e[j] <= low
        /\ \A i, j \in 1..k : i < j => top[j] + 16 <= top[i]
        /\ \A j \in 1..k - 1 :
             /\ top[j + 1] + pad[j + 1] + 8 * (e[j + 1] - e[j]) = top[j]
             /\ Stored(M, top[j] - 8, pad[j]) /\ Stored(M, top[j] - 16, pad[j])
        /\ k > 0 =>
             /\ h >= e[k] /\ sp + 8 * (h - e[k]) = top[k]
             /\ h < e[k] + 2 => dx = pad[k]
  BY DEF Evaluates, e
<1>. HIDE DEF n, k
<1>4. k \in 1..k /\ k > 0 /\ k - 1 = n /\ h - h = 0 /\ h < h + 2  BY <1>0, <1>2
<1>5. dx = pad[k] /\ dx \in Nat /\ sp = top[k] /\ top[k] + dx + 8 * h <= low
  BY <1>1, <1>2, <1>3, <1>4
<1>. DEFINE r == sp + dx
<1>6. r \in Nat /\ r + 8 * h <= low /\ r \in 0..low  BY <1>1, <1>5
<1>. DEFINE p == [j \in 1..n |-> top[j]]
            q == [j \in 1..n |-> pad[j]]
<1>7. /\ p \in [1..n -> Nat] /\ q \in [1..n -> Nat]
      /\ \A j \in 1..n : p[j] = top[j] /\ q[j] = pad[j] /\ j \in 1..k /\ e[j] = marks[j]
      /\ \A j \in 1..n - 1 : j \in 1..n /\ j + 1 \in 1..n /\ j \in 1..k - 1
  <2>1. \A j \in 1..n : j \in 1..k /\ e[j] = marks[j]
    <3>1. \A j \in 1..n : j \in 1..k  BY <1>2, <1>0 DEF n
    <3>. QED  BY <3>1, <1>2
  <2>2. \A j \in 1..n - 1 : j \in 1..n /\ j + 1 \in 1..n /\ j \in 1..k - 1  BY <1>0, <1>2, <1>4
  <2>3. \A j \in 1..n : top[j] \in Nat /\ pad[j] \in Nat  BY <2>1, <1>3
  <2>4. p \in [1..n -> Nat] /\ q \in [1..n -> Nat]  BY <2>3
  <2>5. \A j \in 1..n : p[j] = top[j] /\ q[j] = pad[j]  OBVIOUS
  <2>. HIDE DEF p, q
  <2>. QED  BY <2>1, <2>2, <2>4, <2>5
<1>. HIDE DEF p, q
<1>8. n > 0 => /\ r + 8 * (h - marks[n]) = p[n] /\ h >= marks[n] + 2
               /\ h >= marks[n] /\ ~(h < marks[n] + 2)
               /\ Stored(M, p[n] - 8, q[n]) /\ Stored(M, p[n] - 16, q[n])
  <2>1. SUFFICES ASSUME n > 0
                 PROVE  /\ r + 8 * (h - marks[n]) = p[n] /\ h >= marks[n] + 2
                        /\ h >= marks[n] /\ ~(h < marks[n] + 2)
                        /\ Stored(M, p[n] - 8, q[n]) /\ Stored(M, p[n] - 16, q[n])
    OBVIOUS
  <2>2. n \in 1..n /\ n \in 1..k - 1 /\ marks # <<>>  BY <1>0, <1>4, <2>1 DEF n
  <2>3. /\ top[k] + pad[k] + 8 * (h - marks[n]) = p[n]
        /\ Stored(M, p[n] - 8, q[n]) /\ Stored(M, p[n] - 16, q[n])
    <3>1. n + 1 = k  BY <1>2
    <3>2. /\ top[n + 1] + pad[n + 1] + 8 * (e[n + 1] - e[n]) = top[n]
          /\ Stored(M, top[n] - 8, pad[n]) /\ Stored(M, top[n] - 16, pad[n])
      BY <1>3, <2>2
    <3>. QED  BY <3>1, <3>2, <1>2, <1>7, <2>2
  <2>4. h >= marks[n] + 2 /\ marks[n] \in Nat  BY <1>0, <2>2 DEF Free, n
  <2>5. h >= marks[n] /\ ~(h < marks[n] + 2)
    <3>. DEFINE m == marks[n]
    <3>1. m \in Nat /\ h >= m + 2  BY <2>4
    <3>. HIDE DEF m
    <3>2. h >= m /\ ~(h < m + 2)  BY <3>1
    <3>. QED  BY <3>2 DEF m
  <2>. QED  BY <2>3, <2>4, <2>5, <1>5
<1>9. Evaluates(low, h, marks, r, v, M)
  <2>1. \A j \in 1..n : p[j] % 16 = 0 /\ p[j] + q[j] + 8 * marks[j] <= low  BY <1>3, <1>7
  <2>2. \A i, j \in 1..n : i < j => p[j] + 16 <= p[i]  BY <1>3, <1>7
  <2>3. \A j \in 1..n - 1 :
          /\ p[j + 1] + q[j + 1] + 8 * (marks[j + 1] - marks[j]) = p[j]
          /\ Stored(M, p[j] - 8, q[j]) /\ Stored(M, p[j] - 16, q[j])
    <3>1. SUFFICES ASSUME NEW j \in 1..n - 1
                   PROVE  /\ p[j + 1] + q[j + 1] + 8 * (marks[j + 1] - marks[j]) = p[j]
                          /\ Stored(M, p[j] - 8, q[j]) /\ Stored(M, p[j] - 16, q[j])
      OBVIOUS
    <3>2. j \in 1..n /\ j + 1 \in 1..n /\ j \in 1..k - 1  BY <1>7
    <3>3. /\ top[j + 1] + pad[j + 1] + 8 * (e[j + 1] - e[j]) = top[j]
          /\ Stored(M, top[j] - 8, pad[j]) /\ Stored(M, top[j] - 16, pad[j])
      BY <1>3, <3>2
    <3>. QED  BY <3>2, <3>3, <1>7
  <2>. HIDE DEF r
  <2>. QED  BY <1>6, <1>7, <1>8, <2>1, <2>2, <2>3 DEF Evaluates, n
<1>. QED  BY <1>5, <1>6, <1>9

\* Behind it, rsp is a multiple of 16.
LEMMA EvaluatesAligned ==
  ASSUME NEW low \in Int, NEW h \in Nat, NEW marks \in Seq(Nat), NEW sp, NEW dx, NEW M,
         Evaluates(low, h + 2, Append(marks, h), sp, dx, M)
  PROVE  sp % 16 = 0
<1>. DEFINE e == Append(marks, h)
            k == Len(e)
<1>1. k \in 1..k /\ k > 0 /\ e[k] = h /\ (h + 2) - h = 2  OBVIOUS
<1>. HIDE DEF e, k
<1>2. PICK top \in [1..k -> Nat] :
        top[k] % 16 = 0 /\ sp + 8 * ((h + 2) - e[k]) = top[k]
  BY <1>1 DEF Evaluates, e, k
<1>3. sp \in Nat  BY DEF Evaluates
<1>. DEFINE t == top[k]
<1>4. t \in Nat /\ t % 16 = 0 /\ sp + 8 * 2 = t  BY <1>1, <1>2
<1>. HIDE DEF t
<1>. QED  BY <1>3, <1>4

-----------------------------------------------------------------------------
(* Functions. *)

\* The bounds of a frame.
LEMMA BoundsAre ==
  ASSUME NEW L, NEW F, IsFrame(L, F)
  PROVE  F.low \in Bounds(L, F) /\ \A low \in Bounds(L, F) : low \in Int /\ low <= F.low
<1>1. ASSUME NEW l \in DOMAIN F.heads
      PROVE  F.heads[l] + 8 * L[l] \in Int /\ F.heads[l] + 8 * L[l] <= F.low
  <2>. DEFINE a == F.heads[l]
              b == L[l]
  <2>1. a \in Int /\ b \in Nat /\ a + 8 * b <= F.low  BY <1>1 DEF IsFrame
  <2>. HIDE DEF a, b
  <2>2. a + 8 * b \in Int  BY <2>1
  <2>. QED  BY <2>1, <2>2 DEF a, b
<1>2. F.low \in Int /\ F.low <= F.low  BY DEF IsFrame
<1>. QED  BY <1>1, <1>2 DEF Bounds

\* rsp is not above the return address, nor among the variables.
LEMMA ShapeBelow ==
  ASSUME NEW L, NEW F, IsFrame(L, F), NEW s, NEW sp, NEW bp, NEW dx, NEW M,
         Shape(L, F, s, sp, bp, dx, M)
  PROVE  sp \in Int /\ sp <= F.rsp /\ (s.at \in Evaluating => sp \in Nat /\ sp <= F.low)
<1>1. s.at \in Stages /\ s.h \in Nat  BY StackIs DEF Shape
<1>2. F.rsp \in Int /\ F.low \in Int /\ F.low <= F.rsp - 8  BY DEF IsFrame
<1>3. CASE s.at \in Evaluating
  <2>1. sp \in Nat /\ sp + 8 * s.h <= F.low  BY <1>3, BoundsAre DEF Shape, Evaluates
  <2>2. sp <= F.low /\ sp <= F.rsp  BY <1>1, <1>2, <2>1
  <2>. QED  BY <2>1, <2>2
<1>4. CASE s.at \notin Evaluating
  <2>1. s.at \in {"entry", "saved", "framed", "leaving", "left"}
    BY <1>1, <1>4 DEF Stages, Evaluating, Shape
  <2>2. sp = F.rsp \/ sp = F.rsp - 8  BY <2>1 DEF Shape
  <2>. QED  BY <1>2, <1>4, <2>2
<1>. QED  BY <1>3, <1>4

\* Below each bound the words are kept.
LEMMA BoundKept ==
  ASSUME NEW L, NEW F, IsFrame(L, F), NEW low \in Bounds(L, F), NEW sp, NEW M, NEW N, Kept(M, N, F, sp)
  PROVE  \A a \in Int : \A v : a >= sp /\ a + 8 <= low /\ Stored(M, a, v) => Stored(N, a, v)
<1>. DEFINE f == F.low
<1>1. low \in Int /\ f \in Int /\ low <= f  BY BoundsAre DEF IsFrame
<1>2. \A a \in Int : \A v : a >= sp /\ a + 8 <= f /\ Stored(M, a, v) => Stored(N, a, v)
  BY DEF Kept
<1>. HIDE DEF f
<1>3. \A a \in Int : a + 8 <= low => a + 8 <= f  BY <1>1
<1>. QED  BY <1>2, <1>3

\* A function's state is kept with the words it relies on.
LEMMA ShapeKept ==
  ASSUME NEW L, NEW F, IsFrame(L, F), NEW s, NEW sp, NEW bp, NEW dx, NEW M, NEW N,
         Shape(L, F, s, sp, bp, dx, M), Kept(M, N, F, sp)
  PROVE  Shape(L, F, s, sp, bp, dx, N)
<1>0. s.h \in Nat /\ s.marks \in Seq(Nat) /\ s.at \in Stages  BY StackIs DEF Shape
<1>1. F.rsp \in Int /\ F.low \in Int /\ F.low <= F.rsp - 8  BY DEF IsFrame
<1>2. sp \in Int /\ sp <= F.rsp  BY ShapeBelow
<1>3. Stored(N, F.rsp, F.return)  BY <1>1, <1>2 DEF Shape, Kept
<1>4. ASSUME NEW v, Stored(M, F.rsp - 8, v), sp <= F.rsp - 8  PROVE Stored(N, F.rsp - 8, v)
  <2>. DEFINE a == F.rsp - 8
  <2>1. a \in Int /\ a >= sp /\ a = F.rsp - 8  BY <1>1, <1>2, <1>4
  <2>2. Stored(M, a, v)  BY <1>4
  <2>. HIDE DEF a
  <2>3. Stored(N, a, v)  BY <2>1, <2>2 DEF Kept
  <2>. QED  BY <2>3 DEF a
<1>5. s.at = "saved" => Stored(N, sp, F.rbp)
  <2>1. SUFFICES ASSUME s.at = "saved"  PROVE Stored(N, sp, F.rbp)  OBVIOUS
  <2>2. sp = F.rsp - 8 /\ Stored(M, sp, F.rbp)  BY <2>1 DEF Shape
  <2>. QED  BY <1>1, <1>4, <2>2
<1>6. s.at \notin {"entry", "left", "saved"} => bp = F.rsp - 8 /\ Stored(N, bp, F.rbp)
  <2>1. SUFFICES ASSUME s.at \notin {"entry", "left", "saved"}
                 PROVE  bp = F.rsp - 8 /\ Stored(N, bp, F.rbp)
    OBVIOUS
  <2>2. bp = F.rsp - 8 /\ Stored(M, bp, F.rbp)  BY <2>1 DEF Shape
  <2>3. sp <= F.rsp - 8
    <3>1. CASE s.at \in Evaluating
      <4>1. sp <= F.low  BY <3>1, ShapeBelow
      <4>. QED  BY <1>1, <1>2, <4>1
    <3>2. CASE s.at \notin Evaluating
      <4>1. s.at \in {"framed", "leaving"}  BY <1>0, <2>1, <3>2 DEF Stages, Evaluating, Shape
      <4>2. sp = F.rsp - 8  BY <4>1, <2>2 DEF Shape
      <4>. QED  BY <4>2, <1>1
    <3>. QED  BY <3>1, <3>2
  <2>. QED  BY <1>4, <2>2, <2>3
<1>7. s.at \in Evaluating => \A low \in Bounds(L, F) : Evaluates(low, s.h, s.marks, sp, dx, N)
  <2>1. SUFFICES ASSUME s.at \in Evaluating, NEW low \in Bounds(L, F)
                 PROVE  Evaluates(low, s.h, s.marks, sp, dx, N)
    OBVIOUS
  <2>. DEFINE hh == s.h
              m == s.marks
  <2>2. low \in Int /\ hh \in Nat /\ m \in Seq(Nat) /\ Evaluates(low, hh, m, sp, dx, M)
    BY <1>0, <2>1, BoundsAre DEF Shape
  <2>3. \A a \in Int : \A v : a >= sp /\ a + 8 <= low /\ Stored(M, a, v) => Stored(N, a, v)
    BY BoundKept, <2>1
  <2>. HIDE DEF hh, m
  <2>4. Evaluates(low, hh, m, sp, dx, N)  BY <2>2, <2>3, EvaluatesKept
  <2>. QED  BY <2>4 DEF hh, m
<1>. QED  BY <1>3, <1>5, <1>6, <1>7 DEF Shape

\* A store hits nothing that does not overlap it.
LEMMA PutHas ==
  ASSUME NEW x \in Int, NEW v
  PROVE  /\ Stored(Put(x, v), x, v)
         /\ \A a \in Int : \A w : Stored(mem, a, w) /\ (a >= x + 8 \/ a + 8 <= x) => Stored(Put(x, v), a, w)
<1>1. x \in (DOMAIN mem \ (x - 7..x + 7)) \cup {x}  OBVIOUS
<1>2. Stored(Put(x, v), x, v)  BY <1>1 DEF Stored, Put
<1>3. ASSUME NEW a \in Int, NEW w, Stored(mem, a, w), a >= x + 8 \/ a + 8 <= x
      PROVE  Stored(Put(x, v), a, w)
  <2>1. a \notin x - 7..x + 7 /\ a # x  BY <1>3
  <2>2. a \in (DOMAIN mem \ (x - 7..x + 7)) \cup {x}  BY <1>3, <2>1 DEF Stored
  <2>. QED  BY <1>3, <2>1, <2>2 DEF Stored, Put
<1>. QED  BY <1>2, <1>3

\* A push or a call keeps what lies above.
LEMMA PushKept ==
  ASSUME NEW x \in Int, NEW v, NEW sp \in Int, x + 8 <= sp, NEW F
  PROVE  Kept(mem, Put(x, v), F, sp)
<1>. SUFFICES ASSUME NEW a \in Int, NEW w, a >= sp, Stored(mem, a, w)
              PROVE  Stored(Put(x, v), a, w)
  BY DEF Kept
<1>1. a >= x + 8  OBVIOUS
<1>. QED  BY <1>1, PutHas

-----------------------------------------------------------------------------
(* The invariant. *)

\* States of all the places of the text, and the one at an instruction: behind a
\* label there may be less on the stack than in front of it.
Through(L, h) ==
  /\ IsSeq(out) /\ h[Len(out) + 1] = Outside
  /\ \A i \in 1..Len(out) : Takes(out[i], L, h[i], h[i + 1])

Here(h, i) == IF out[i][1] \in {"label", "fn"} THEN h[i + 1] ELSE h[i]

\* The active functions, the last of which runs.
Active(L, h) ==
  /\ IsSeq(frames) /\ frames # <<>>
  /\ \A k \in 1..Len(frames) :
       /\ IsFrame(L, frames[k])
       /\ k = 1 => frames[k].return = 0 /\ frames[k].rsp + 8 <= StackTop
       /\ k > 1 => frames[k].return \in 1..Len(out)
  /\ \A i, j \in 1..Len(frames) : i <= j => frames[j].rsp <= frames[i].rsp
  /\ \A k \in 1..Len(frames) - 1 :
       Suspended(L, frames[k], h[frames[k + 1].return], frames[k + 1].rsp + 8, frames[k + 1].rbp, mem)
  /\ pc \in 1..Len(out)
  /\ Running(L, Frame, Here(h, pc), reg, mem)

MachineInv ==
  /\ process \in {"waits", "runs", "exited"} /\ DOMAIN reg = Registers
  /\ process # "waits" => phase = "done"
  /\ process = "runs" =>
       \E L \in Heights : \E h \in [1..Len(out) + 1 -> Stacks] : Through(L, h) /\ Active(L, h)

\* What an instruction can do, by its operation.
LEMMA TakesBy ==
  ASSUME NEW x, NEW L, NEW a, NEW b, Takes(x, L, a, b)
  PROVE  /\ x[1] \in {"label", "je", "jmp"} => Jumps(x, L, a, b)
         /\ x[1] = "fn" => a = Outside /\ b = Stack(0, <<>>, "entry")
         /\ a.at # "out" =>
              /\ x[1] \in {"push", "push_imm"} => Pushes(x, a, b) \/ Enters(x, a, b)
              /\ x[1] = "pop" => Pops(x, a, b) \/ Returns(x, a, b)
              /\ x[1] = "call" => \E c \in Steady : Aligns(x, c, a, b)
              /\ x[1] = "ret" => Returns(x, a, b)
              /\ x[1] \in {"load", "load_byte", "store", "imul", "and", "or", "add_imm", "xor_imm",
                           "cmp", "cmp_imm", "set", "movzb", "lea"}
                   => Still(x) /\ a \in Steady /\ b = a
              /\ x[1] \in {"cqo", "idiv", "mov_imm", "add", "sub"}
                   => \/ Still(x) /\ a \in Steady /\ b = a
                      \/ \E c \in Steady : Aligns(x, c, a, b)
              /\ x[1] = "sub_imm"
                   => \/ Still(x) /\ a \in Steady /\ b = a
                      \/ Enters(x, a, b)
              /\ x[1] = "mov"
                   => \/ Still(x) /\ a \in Steady /\ b = a
                      \/ \E c \in Steady : Aligns(x, c, a, b)
                      \/ Enters(x, a, b) \/ Returns(x, a, b)
<1>1. CASE Still(x) /\ a \in Steady /\ b = a
  <2>1. x[1] \in {"store", "cqo", "idiv", "cmp", "cmp_imm", "set", "movzb", "mov", "mov_imm", "lea",
                  "load", "load_byte", "add", "sub", "imul", "and", "or", "add_imm", "sub_imm",
                  "xor_imm"}
    BY <1>1 DEF Still, Computes
  <2>. QED  BY <1>1, <2>1
<1>2. CASE Pushes(x, a, b)
  <2>1. x[1] \in {"push", "push_imm"}  BY <1>2 DEF Pushes
  <2>. QED  BY <1>2, <2>1
<1>3. CASE Pops(x, a, b)
  <2>1. x[1] = "pop"  BY <1>3 DEF Pops
  <2>. QED  BY <1>3, <2>1
<1>4. CASE Jumps(x, L, a, b)
  <2>1. x[1] \in {"label", "je", "jmp"}  BY <1>4 DEF Jumps
  <2>. QED  BY <1>4, <2>1
<1>5. CASE \E c \in Steady : Aligns(x, c, a, b)
  <2>1. x[1] \in {"mov", "mov_imm", "cqo", "idiv", "sub", "add", "call"}  BY <1>5 DEF Aligns
  <2>. QED  BY <1>5, <2>1
<1>6. CASE Enters(x, a, b)
  <2>1. \/ x[1] = "fn" /\ a = Outside /\ b = Stack(0, <<>>, "entry")
        \/ x[1] \in {"push", "mov", "sub_imm"}
    BY <1>6 DEF Enters
  <2>. QED  BY <1>6, <2>1
<1>7. CASE Returns(x, a, b)
  <2>1. x[1] \in {"mov", "pop", "ret"}  BY <1>7 DEF Returns
  <2>. QED  BY <1>7, <2>1
<1>8. CASE Declares(x, a, b)
  <2>1. a.at = "out" /\ x[1] \notin {"fn", "label", "je", "jmp"}
    BY <1>8 DEF Declares, Outside, Stack, Framings
  <2>. QED  BY <2>1
<1>. QED  BY <1>1, <1>2, <1>3, <1>4, <1>5, <1>6, <1>7, <1>8 DEF Takes

-----------------------------------------------------------------------------
(* One instruction. *)

\* The place of an instruction, and the function that runs it.
LEMMA AtPlace ==
  ASSUME NEW L, NEW h \in [1..Len(out) + 1 -> Stacks], Through(L, h), Active(L, h)
  PROVE  /\ pc \in 1..Len(out) /\ pc + 1 \in 1..Len(out) + 1 /\ Len(frames) \in Nat \ {0}
         /\ h[pc] \in Stacks /\ h[pc + 1] \in Stacks /\ Takes(ins, L, h[pc], h[pc + 1])
         /\ ins[1] \notin {"label", "fn"} => Running(L, Frame, h[pc], reg, mem) /\ h[pc].at # "out"
         /\ ins[1] \in {"label", "fn"} => Running(L, Frame, h[pc + 1], reg, mem)
         /\ IsFrame(L, Frame) /\ reg["rsp"] \in Int /\ reg["rsp"] <= Frame.rsp
<1>1. pc \in 1..Len(out) /\ Len(out) \in Nat  BY SeqFacts DEF Active, Through
<1>2. pc \in 1..Len(out) + 1 /\ pc + 1 \in 1..Len(out) + 1  BY <1>1
<1>3. Takes(ins, L, h[pc], h[pc + 1])  BY <1>1 DEF Through, ins
<1>4. Len(frames) \in Nat \ {0} /\ Len(frames) \in 1..Len(frames)
  <2>1. Len(frames) \in Nat  BY SeqFacts DEF Active
  <2>2. Len(frames) # 0  BY DEF Active, IsSeq
  <2>. QED  BY <2>1, <2>2
<1>5. IsFrame(L, Frame)  BY <1>4 DEF Active, Frame
<1>6. Running(L, Frame, Here(h, pc), reg, mem)  BY DEF Active
<1>7. ins[1] \notin {"label", "fn"} => Running(L, Frame, h[pc], reg, mem) /\ h[pc].at # "out"
  BY <1>6 DEF Here, ins, Running, Shape
<1>8. ins[1] \in {"label", "fn"} => Running(L, Frame, h[pc + 1], reg, mem)
  BY <1>6 DEF Here, ins
<1>9. reg["rsp"] \in Int /\ reg["rsp"] <= Frame.rsp
  <2>. DEFINE s == Here(h, pc)
  <2>1. Shape(L, Frame, s, reg["rsp"], reg["rbp"], reg["rdx"], mem)  BY <1>6 DEF Running
  <2>. HIDE DEF s
  <2>. QED  BY <1>5, <2>1, ShapeBelow
<1>. QED  BY <1>1, <1>2, <1>3, <1>4, <1>5, <1>7, <1>8, <1>9

\* Who comes to a place is at the instruction there: the text does not end inside
\* of a function, and another function does not begin there.
LEMMA Arrive ==
  ASSUME NEW L, NEW h \in [1..Len(out) + 1 -> Stacks], Through(L, h),
         NEW q \in 1..Len(out) + 1, NEW F, IsFrame(L, F), NEW R, NEW M, Running(L, F, h[q], R, M)
  PROVE  q \in 1..Len(out) /\ Running(L, F, Here(h, q), R, M)
<1>. DEFINE s == h[q]
            b == h[q + 1]
            x == out[q]
<1>1. s \in Stacks /\ s.at # "out"  BY DEF Running, Shape
<1>2. Len(out) \in Nat  BY SeqFacts DEF Through
<1>3. q \in 1..Len(out)
  <2>1. q # Len(out) + 1  BY <1>1 DEF Through, Outside, Stack
  <2>. QED  BY <1>2, <2>1
<1>4. Takes(x, L, s, b)  BY <1>3 DEF Through
<1>5. b \in Stacks
  <2>1. q + 1 \in 1..Len(out) + 1  BY <1>2, <1>3
  <2>. QED  BY <2>1
<1>6. Running(L, F, s, R, M)  OBVIOUS
<1>7. Here(h, q) = IF x[1] \in {"label", "fn"} THEN b ELSE s  BY DEF Here
<1>. HIDE DEF s, b, x
<1>8. CASE x[1] = "fn"
  <2>1. s = Outside  BY <1>4, <1>8, TakesBy
  <2>. QED  BY <2>1, <1>1 DEF Outside, Stack
<1>9. CASE x[1] = "label"
  <2>1. Jumps(x, L, s, b)  BY <1>4, <1>9, TakesBy
  <2>. DEFINE l == L[x[2]]
  <2>2. s \in Level /\ l <= s.h /\ b = Stack(l, <<>>, "body")  BY <1>9, <2>1 DEF Jumps
  <2>3. s.marks = <<>> /\ s.at = "body" /\ s.h \in Nat  BY <1>1, <2>2, SteadyIs, StackIs DEF Level
  <2>4. b.h = l /\ b.marks = <<>> /\ b.at = "body" /\ l \in Nat
    <3>1. b.h = l /\ b.marks = <<>> /\ b.at = "body"  BY <2>2 DEF Stack
    <3>. QED  BY <3>1, <1>5, StackIs
  <2>. HIDE DEF l
  <2>5. Shape(L, F, s, R["rsp"], R["rbp"], R["rdx"], M)  BY <1>6 DEF Running
  <2>10. ASSUME NEW low \in Bounds(L, F)  PROVE Evaluates(low, l, <<>>, R["rsp"], R["rdx"], M)
    <3>1. Evaluates(low, s.h, <<>>, R["rsp"], R["rdx"], M)  BY <2>3, <2>5 DEF Shape, Evaluating
    <3>2. low \in Int  BY BoundsAre
    <3>. QED  BY <2>2, <2>3, <2>4, <3>1, <3>2, EvaluatesLess
  <2>11. Shape(L, F, b, R["rsp"], R["rbp"], R["rdx"], M)
    BY <1>5, <2>3, <2>4, <2>5, <2>10 DEF Shape, Evaluating
  <2>12. Running(L, F, b, R, M)  BY <2>4, <2>11 DEF Running
  <2>. QED  BY <1>3, <1>7, <1>9, <2>12
<1>10. CASE x[1] \notin {"label", "fn"}  BY <1>3, <1>6, <1>7, <1>10
<1>. QED  BY <1>8, <1>9, <1>10

\* The running function goes on, and the others keep what they rely on.
LEMMA GoesOn ==
  ASSUME NEW L, NEW h \in [1..Len(out) + 1 -> Stacks], Through(L, h), Active(L, h),
         out' = out, IsSeq(frames'), Len(frames') = Len(frames),
         \A k \in 1..Len(frames) - 1 : frames'[k] = frames[k],
         NEW G, G = frames'[Len(frames)], IsFrame(L, G),
         G.rsp = Frame.rsp, G.rbp = Frame.rbp, G.return = Frame.return,
         \A k \in 1..Len(frames) - 1 : Kept(mem, mem', frames[k], frames[k + 1].rsp + 8),
         pc' \in 1..Len(out), Running(L, G, Here(h, pc'), reg', mem')
  PROVE  Active(L, h)'
<1>. DEFINE n == Len(frames)
<1>1. n \in Nat \ {0} /\ n \in 1..n /\ Frame = frames[n]
  <2>1. n \in Nat \ {0}  BY AtPlace
  <2>. QED  BY <2>1 DEF Frame
<1>2. \A k \in 1..n : k = n \/ (k \in 1..n - 1 /\ k \in 1..n /\ k + 1 \in 1..n /\ k < k + 1)  BY <1>1
<1>3. \A k \in 1..n : /\ IsFrame(L, frames[k])
                      /\ k = 1 => frames[k].return = 0 /\ frames[k].rsp + 8 <= StackTop
                      /\ k > 1 => frames[k].return \in 1..Len(out)
  BY DEF Active
<1>4. \A i, j \in 1..n : i <= j => frames[j].rsp <= frames[i].rsp  BY DEF Active
<1>5. \A k \in 1..n - 1 :
        Suspended(L, frames[k], h[frames[k + 1].return], frames[k + 1].rsp + 8, frames[k + 1].rbp, mem)
  BY DEF Active
<1>. HIDE DEF n
<1>6. \A k \in 1..n : /\ frames'[k].rsp = frames[k].rsp /\ frames'[k].rbp = frames[k].rbp
                      /\ frames'[k].return = frames[k].return
                      /\ IsFrame(L, frames'[k])
  BY <1>1, <1>2, <1>3 DEF n
<1>7. \A k \in 1..n - 1 :
        Suspended(L, frames'[k], h[frames'[k + 1].return], frames'[k + 1].rsp + 8, frames'[k + 1].rbp, mem')
  <2>. SUFFICES ASSUME NEW k \in 1..n - 1
                PROVE  Suspended(L, frames'[k], h[frames'[k + 1].return], frames'[k + 1].rsp + 8,
                                 frames'[k + 1].rbp, mem')
    OBVIOUS
  <2>1. k \in 1..n /\ k + 1 \in 1..n /\ frames'[k] = frames[k]  BY <1>1, <1>2 DEF n
  <2>. DEFINE F == frames[k]
              s == h[frames[k + 1].return]
              sp == frames[k + 1].rsp + 8
              bp == frames[k + 1].rbp
  <2>2. Suspended(L, F, s, sp, bp, mem) /\ Kept(mem, mem', F, sp) /\ IsFrame(L, F)
    BY <1>3, <1>5, <2>1 DEF n
  <2>. HIDE DEF F, s, sp, bp
  <2>3. \A dx : Shape(L, F, s, sp, bp, dx, mem')  BY <2>2, ShapeKept DEF Suspended
  <2>4. Suspended(L, F, s, sp, bp, mem')  BY <2>2, <2>3 DEF Suspended
  <2>. QED  BY <2>1, <2>4, <1>6 DEF F, s, sp, bp
<1>8. frames' # <<>>  BY <1>1 DEF n
<1>9. Running(L, frames'[Len(frames')], Here(h, pc'), reg', mem')  BY DEF n
<1>10. Here(h, pc') = (IF out'[pc'][1] \in {"label", "fn"} THEN h[pc' + 1] ELSE h[pc'])
  BY DEF Here
<1>11. \A i, j \in 1..n : i <= j => frames'[j].rsp <= frames'[i].rsp  BY <1>4, <1>6
<1>12. Len(frames') = n  BY DEF n
<1>. QED
  BY <1>3, <1>6, <1>7, <1>8, <1>9, <1>10, <1>11, <1>12 DEF Active, Frame, Here

\* The others do without what lies below them.
LEMMA BelowKept ==
  ASSUME NEW L, NEW h, Active(L, h), NEW x \in Int, NEW v, x + 8 <= Frame.rsp
  PROVE  \A k \in 1..Len(frames) - 1 : Kept(mem, Put(x, v), frames[k], frames[k + 1].rsp + 8)
<1>. DEFINE n == Len(frames)
<1>1. n \in Nat /\ Frame = frames[n]  BY SeqFacts DEF Active, Frame
<1>. SUFFICES ASSUME NEW k \in 1..n - 1
              PROVE  Kept(mem, Put(x, v), frames[k], frames[k + 1].rsp + 8)
  OBVIOUS
<1>2. k + 1 \in 1..n /\ n \in 1..n /\ k + 1 <= n  BY <1>1
<1>3. IsFrame(L, frames[k + 1]) /\ IsFrame(L, frames[n]) /\ frames[n].rsp <= frames[k + 1].rsp
  BY <1>2 DEF Active
<1>. DEFINE a == frames[k + 1].rsp
            b == frames[n].rsp
<1>4. a \in Int /\ b \in Int /\ b <= a /\ x + 8 <= b  BY <1>1, <1>3 DEF IsFrame
<1>. HIDE DEF a, b
<1>5. a + 8 \in Int /\ x + 8 <= a + 8  BY <1>4
<1>6. Kept(mem, Put(x, v), frames[k], a + 8)  BY <1>5, PushKept
<1>. QED  BY <1>6 DEF a

\* Nothing is stored.
LEMMA NothingStored ==
  ASSUME NEW M, NEW F, NEW sp
  PROVE  Kept(M, M, F, sp)
BY DEF Kept

\* rsp of each active function is below its variables and above the functions it
\* has called: where a function evaluates, it is not below the next one.
LEMMA StoreKept ==
  ASSUME NEW L, NEW h \in [1..Len(out) + 1 -> Stacks], Through(L, h), Active(L, h),
         ins[1] \notin {"label", "fn"}, h[pc].at \in Evaluating, NEW x, IsVariable(x), NEW v
  PROVE  /\ x \in Int
         /\ \A k \in 1..Len(frames) - 1 : Kept(mem, Put(x, v), frames[k], frames[k + 1].rsp + 8)
         /\ Kept(mem, Put(x, v), Frame, reg["rsp"])
<1>. DEFINE n == Len(frames)
            Sp(k) == IF k = n THEN reg["rsp"] ELSE frames[k + 1].rsp + 8
<1>1. /\ n \in Nat \ {0} /\ reg["rsp"] \in Int
      /\ Running(L, Frame, h[pc], reg, mem)
  BY AtPlace
<1>2. Frame = frames[n] /\ n \in 1..n  BY <1>1 DEF Frame
<1>3. \A k \in 1..n : /\ IsFrame(L, frames[k])
                      /\ frames[k].rsp \in Int /\ frames[k].low \in Int
                      /\ frames[k].low <= frames[k].rsp - 8
  BY DEF Active, IsFrame
<1>4. \A i, j \in 1..n : i <= j => frames[j].rsp <= frames[i].rsp  BY DEF Active
<1>5. frames[1].rsp + 8 <= StackTop
  <2>1. 1 \in 1..n  BY <1>1
  <2>. QED  BY <2>1 DEF Active
<1>6. Sp(n) \in Int /\ Sp(n) <= frames[n].low
  <2>1. Shape(L, Frame, h[pc], reg["rsp"], reg["rbp"], reg["rdx"], mem)  BY <1>1 DEF Running
  <2>2. reg["rsp"] <= Frame.low  BY <1>2, <1>3, <2>1, ShapeBelow
  <2>. QED  BY <1>1, <1>2, <2>2
<1>7. ASSUME NEW k \in 1..n - 1
      PROVE  Sp(k) \in Int /\ Sp(k) <= frames[k].low /\ Sp(k) = frames[k + 1].rsp + 8
  <2>1. k \in 1..n /\ k + 1 \in 1..n /\ k # n  BY <1>1
  <2>2. Suspended(L, frames[k], h[frames[k + 1].return], frames[k + 1].rsp + 8, frames[k + 1].rbp, mem)
    BY DEF Active
  <2>. DEFINE F == frames[k]
              s == h[frames[k + 1].return]
              sp == frames[k + 1].rsp + 8
              bp == frames[k + 1].rbp
  <2>3. s.at \in Evaluating /\ Shape(L, F, s, sp, bp, 0, mem)  BY <2>2 DEF Suspended, Evaluating
  <2>4. IsFrame(L, F)  BY <1>3, <2>1
  <2>5. Sp(k) = sp  BY <2>1
  <2>. HIDE DEF F, s, sp, bp
  <2>6. sp \in Nat /\ sp <= F.low  BY <2>3, <2>4, ShapeBelow
  <2>. QED  BY <2>5, <2>6 DEF F, sp
<1>. HIDE DEF n, Sp
<1>8. \A k \in 1..n : Sp(k) \in Int /\ Sp(k) <= frames[k].low
  <2>1. \A k \in 1..n : k = n \/ k \in 1..n - 1  BY <1>1
  <2>. QED  BY <2>1, <1>6, <1>7
<1>9. StackTop \in Int /\ Width \in Int  BY MachineAssumption
<1>10. \/ x \in StackTop..Width - 1
       \/ \E j \in 1..n : x \in frames[j].low..frames[j].rsp - 16
  <2>1. DOMAIN frames = 1..n  BY SeqFacts DEF Active, n
  <2>. QED  BY <2>1 DEF IsVariable
<1>11. x \in Int
  <2>1. CASE x \in StackTop..Width - 1  BY <2>1, <1>9
  <2>2. ASSUME NEW j \in 1..n, x \in frames[j].low..frames[j].rsp - 16  PROVE x \in Int
    BY <2>2, <1>3
  <2>. QED  BY <1>10, <2>1, <2>2
<1>12. ASSUME NEW k \in 1..n  PROVE Kept(mem, Put(x, v), frames[k], Sp(k))
  <2>. DEFINE r == frames[k].rsp
              low == frames[k].low
              sp == Sp(k)
  <2>1. SUFFICES ASSUME NEW a \in Int, NEW w, a >= sp, a + 8 <= low \/ a = r \/ a = r - 8,
                        Stored(mem, a, w)
                 PROVE  Stored(Put(x, v), a, w)
    BY DEF Kept
  <2>2. r \in Int /\ low \in Int /\ low <= r - 8 /\ sp \in Int /\ sp <= low  BY <1>3, <1>8
  <2>. HIDE DEF r, low, sp
  <2>3. a >= x + 8 \/ a + 8 <= x
    <3>1. CASE x \in StackTop..Width - 1
      <4>1. r <= frames[1].rsp /\ frames[1].rsp \in Int
        <5>1. 1 \in 1..n /\ 1 <= k  BY <1>1
        <5>. QED  BY <5>1, <1>3, <1>4 DEF r
      <4>2. r + 8 <= StackTop  BY <4>1, <1>5, <1>9, <2>2
      <4>3. x >= StackTop  BY <3>1, <1>9
      <4>4. a + 8 <= r + 8  BY <2>1, <2>2
      <4>. QED  BY <4>2, <4>3, <4>4, <1>9, <1>11, <2>2
    <3>2. ASSUME NEW j \in 1..n, x \in frames[j].low..frames[j].rsp - 16
          PROVE  a >= x + 8 \/ a + 8 <= x
      <4>. DEFINE rj == frames[j].rsp
                  lj == frames[j].low
      <4>1. rj \in Int /\ lj \in Int /\ lj <= rj - 8 /\ x >= lj /\ x <= rj - 16
        <5>1. rj \in Int /\ lj \in Int /\ lj <= rj - 8  BY <1>3
        <5>2. x \in lj..rj - 16  BY <3>2
        <5>. HIDE DEF rj, lj
        <5>. QED  BY <5>1, <5>2
      <4>2. CASE j = k
        <5>1. lj = low /\ rj = r  BY <4>2 DEF low, r
        <5>. HIDE DEF rj, lj
        <5>. QED  BY <4>1, <5>1, <2>1, <2>2, <1>11
      <4>3. CASE j > k
        <5>1. k \in 1..n - 1 /\ k + 1 \in 1..n /\ k + 1 <= j  BY <4>3, <1>1
        <5>2. rj <= frames[k + 1].rsp /\ frames[k + 1].rsp \in Int  BY <5>1, <1>3, <1>4
        <5>3. sp = frames[k + 1].rsp + 8  BY <5>1, <1>7 DEF sp
        <5>. HIDE DEF rj, lj
        <5>4. rj + 8 <= sp  BY <5>2, <5>3, <4>1
        <5>. QED  BY <4>1, <5>4, <2>1, <2>2, <1>11
      <4>4. CASE j < k
        <5>1. j \in 1..n - 1 /\ j + 1 \in 1..n /\ j + 1 <= k  BY <4>4, <1>1
        <5>2. r <= frames[j + 1].rsp /\ frames[j + 1].rsp \in Int  BY <5>1, <1>3, <1>4 DEF r
        <5>3. Sp(j) = frames[j + 1].rsp + 8 /\ Sp(j) <= lj  BY <5>1, <1>7
        <5>. HIDE DEF rj, lj
        <5>4. r + 8 <= lj  BY <5>2, <5>3, <4>1, <2>2
        <5>. QED  BY <4>1, <5>4, <2>1, <2>2, <1>11
      <4>. QED  BY <4>2, <4>3, <4>4
    <3>. QED  BY <1>10, <3>1, <3>2
  <2>. QED  BY <2>1, <2>3, <1>11, PutHas
<1>13. \A k \in 1..n - 1 : k \in 1..n /\ Sp(k) = frames[k + 1].rsp + 8  BY <1>1, <1>7
<1>14. Sp(n) = reg["rsp"]  BY DEF Sp
<1>. QED  BY <1>2, <1>11, <1>12, <1>13, <1>14 DEF n

\* Between the operators of an expression rdx does not matter, and the stack is
\* kept with the words on it.
LEMMA SteadyShape ==
  ASSUME NEW L, NEW F, IsFrame(L, F), NEW s \in Steady, NEW sp, NEW bp, NEW dx, NEW M, NEW N,
         Shape(L, F, s, sp, bp, dx, M), Kept(M, N, F, sp)
  PROVE  /\ Free(s.h, s.marks)
         /\ \A v : Shape(L, F, s, sp, bp, v, N)
<1>. DEFINE hh == s.h
            m == s.marks
<1>2. s \in Stacks /\ s.at = "body" /\ hh \in Nat /\ m \in Seq(Nat)  BY SteadyIs, StackIs
<1>3. Free(hh, m)  BY DEF Steady, Free
<1>4. Shape(L, F, s, sp, bp, dx, N)  BY ShapeKept
<1>5. \A low \in Bounds(L, F) : Evaluates(low, hh, m, sp, dx, N)
  BY <1>2, <1>4 DEF Shape, Evaluating
<1>. HIDE DEF hh, m
<1>6. \A low \in Bounds(L, F) : \A v : Evaluates(low, hh, m, sp, v, N)
  BY <1>2, <1>3, <1>5, EvaluatesFree
<1>7. \A v : Shape(L, F, s, sp, bp, v, N)  BY <1>2, <1>4, <1>6 DEF Shape, hh, m
<1>. QED  BY <1>3, <1>7 DEF hh, m

\* An instruction that leaves the stack as it was.
LEMMA StillGoes ==
  ASSUME NEW L, NEW h \in [1..Len(out) + 1 -> Stacks], Through(L, h), Active(L, h),
         ins[1] \notin {"label", "fn"}, h[pc] \in Steady, h[pc + 1] = h[pc],
         Advance, frames' = frames, out' = out,
         reg'["rsp"] = reg["rsp"], reg'["rbp"] = reg["rbp"],
         \A k \in 1..Len(frames) - 1 : Kept(mem, mem', frames[k], frames[k + 1].rsp + 8),
         Kept(mem, mem', Frame, reg["rsp"])
  PROVE  Active(L, h)'
<1>. DEFINE s == h[pc]
            q == pc + 1
<1>1. /\ q \in 1..Len(out) + 1 /\ Running(L, Frame, s, reg, mem) /\ IsFrame(L, Frame)
      /\ Len(frames) \in Nat \ {0}
  BY AtPlace
<1>2. Shape(L, Frame, s, reg["rsp"], reg["rbp"], reg["rdx"], mem)  BY <1>1 DEF Running
<1>. HIDE DEF s
<1>3. s \in Steady /\ s.at = "body"  BY SteadyIs DEF s
<1>4. Shape(L, Frame, s, reg["rsp"], reg["rbp"], reg'["rdx"], mem')  BY <1>1, <1>2, <1>3, SteadyShape
<1>5. Running(L, Frame, s, reg', mem')  BY <1>3, <1>4 DEF Running
<1>. HIDE DEF q
<1>6. q \in 1..Len(out) /\ Running(L, Frame, Here(h, q), reg', mem')
  <2>1. h[q] = s  BY DEF q, s
  <2>. QED  BY <1>1, <1>5, <2>1, Arrive
<1>7. pc' = q  BY DEF Advance, q
<1>8. IsSeq(frames') /\ Len(frames') = Len(frames) /\ Frame = frames'[Len(frames)]
  BY DEF Active, Frame
<1>9. pc' \in 1..Len(out) /\ Running(L, Frame, Here(h, pc'), reg', mem')  BY <1>6, <1>7
<1>10. \A k \in 1..Len(frames) - 1 : frames'[k] = frames[k]  OBVIOUS
<1>. QED  BY <1>1, <1>8, <1>9, <1>10, GoesOn

\* The running function comes to the next state.
LEMMA MovesOn ==
  ASSUME NEW L, NEW h \in [1..Len(out) + 1 -> Stacks], Through(L, h), Active(L, h),
         Advance, frames' = frames, out' = out,
         \A k \in 1..Len(frames) - 1 : Kept(mem, mem', frames[k], frames[k + 1].rsp + 8),
         Running(L, Frame, h[pc + 1], reg', mem')
  PROVE  Active(L, h)'
<1>. DEFINE q == pc + 1
<1>1. q \in 1..Len(out) + 1 /\ IsFrame(L, Frame) /\ Len(frames) \in Nat \ {0}  BY AtPlace
<1>2. Running(L, Frame, h[q], reg', mem') /\ pc' = q  BY DEF Advance
<1>. HIDE DEF q
<1>3. q \in 1..Len(out) /\ Running(L, Frame, Here(h, q), reg', mem')  BY <1>1, <1>2, Arrive
<1>4. IsSeq(frames') /\ Len(frames') = Len(frames) /\ Frame = frames'[Len(frames)]
  BY DEF Active, Frame
<1>5. pc' \in 1..Len(out) /\ Running(L, Frame, Here(h, pc'), reg', mem')  BY <1>2, <1>3
<1>6. \A k \in 1..Len(frames) - 1 : frames'[k] = frames[k]  OBVIOUS
<1>. QED  BY <1>1, <1>4, <1>5, <1>6, GoesOn

\* push: a word joins the running function's stack.
LEMMA PushGoes ==
  ASSUME NEW L, NEW h \in [1..Len(out) + 1 -> Stacks], Through(L, h), Active(L, h),
         DOMAIN reg = Registers, Push, out' = out
  PROVE  Active(L, h)' /\ DOMAIN reg' = Registers
<1>. DEFINE a == h[pc]
            b == h[pc + 1]
            x == ins
            F == Frame
            sp == reg["rsp"]
            bp == reg["rbp"]
            dx == reg["rdx"]
            v == IF ins[1] = "push" THEN reg[ins[2]] ELSE ins[2]
            N == Put(sp - 8, v)
<1>0. x[1] \in {"push", "push_imm"} /\ sp >= 8 /\ mem' = N /\ Advance /\ frames' = frames  BY DEF Push, Is
<1>r. /\ DOMAIN reg' = Registers /\ reg'["rsp"] = sp - 8 /\ reg'["rbp"] = bp /\ reg'["rdx"] = dx
  BY DEF Push, Registers
<1>1. /\ a \in Stacks /\ b \in Stacks /\ Takes(x, L, a, b) /\ a.at # "out"
      /\ Running(L, F, a, reg, mem) /\ IsFrame(L, F) /\ sp \in Int /\ sp <= F.rsp
  BY <1>0, AtPlace
<1>2. Shape(L, F, a, sp, bp, dx, mem)  BY <1>1 DEF Running
<1>3. Kept(mem, N, F, sp) /\ Stored(N, sp - 8, v)
  <2>1. sp - 8 \in Int /\ (sp - 8) + 8 <= sp  BY <1>1
  <2>. QED  BY <1>1, <2>1, PushKept, PutHas
<1>4. \A k \in 1..Len(frames) - 1 : Kept(mem, mem', frames[k], frames[k + 1].rsp + 8)
  <2>1. sp - 8 \in Int /\ (sp - 8) + 8 <= Frame.rsp
    <3>. DEFINE r == Frame.rsp
    <3>1. r \in Int /\ sp <= r  BY <1>1 DEF IsFrame
    <3>. HIDE DEF r
    <3>2. sp - 8 \in Int /\ (sp - 8) + 8 <= r  BY <1>1, <3>1
    <3>. QED  BY <3>2 DEF r
  <2>. QED  BY <1>0, <2>1, BelowKept
<1>v. x = <<"push", "rdx">> => v = dx  OBVIOUS
<1>w. x = <<"push", "rbp">> => v = bp  OBVIOUS
<1>. HIDE DEF a, b, x, F, sp, bp, dx, v, N
<1>5. Shape(L, F, a, sp, bp, dx, N)  BY <1>1, <1>2, <1>3, ShapeKept
<1>6. Pushes(x, a, b) \/ Enters(x, a, b)  BY <1>0, <1>1, TakesBy
<1>7. CASE Pushes(x, a, b)
  <2>1. b = Raise(a, 1)  BY <1>7 DEF Pushes
  <2>2. a \in Steady \/ (x = <<"push", "rdx">> /\ a \in Padding)  BY <1>7 DEF Pushes
  <2>3. a.at = "body"
    <3>1. CASE a \in Steady  BY <3>1, SteadyIs
    <3>2. CASE a \in Padding  BY <3>2 DEF Padding, Padded, Stack
    <3>. QED  BY <2>2, <3>1, <3>2
  <2>. DEFINE hh == a.h
              m == a.marks
  <2>4. hh \in Nat /\ m \in Seq(Nat)  BY <1>1, StackIs
  <2>5. \A low \in Bounds(L, F) : low \in Int /\ Evaluates(low, hh, m, sp, dx, mem)
    BY <1>1, <1>2, <2>3, BoundsAre DEF Shape, Evaluating
  <2>6. Free(hh, m) \/ v = dx
    <3>1. CASE a \in Steady  BY <3>1 DEF Steady, Free
    <3>. QED  BY <2>2, <3>1, <1>v
  <2>8. b.h = hh + 1 /\ b.marks = m /\ b.at = "body"  BY <1>1, <2>1, <2>3, RaiseIs
  <2>. HIDE DEF hh, m
  <2>9. ASSUME NEW low \in Bounds(L, F)  PROVE Evaluates(low, hh + 1, m, sp - 8, dx, N)
    <3>1. \A y \in Int : \A w : y >= sp /\ y + 8 <= low /\ Stored(mem, y, w) => Stored(N, y, w)
      BY <1>1, <1>3, BoundKept
    <3>. QED  BY <1>0, <1>3, <2>4, <2>5, <2>6, <3>1, EvaluatesPush
  <2>10. Shape(L, F, b, sp - 8, bp, dx, N)
    BY <1>1, <1>5, <2>3, <2>8, <2>9 DEF Shape, Evaluating
  <2>11. Running(L, F, b, reg', N)  BY <1>r, <2>8, <2>10 DEF Running
  <2>. QED  BY <1>0, <1>4, <1>r, <2>11, MovesOn DEF F, b
<1>8. CASE Enters(x, a, b)
  <2>1. x = <<"push", "rbp">> /\ a = Stack(0, <<>>, "entry") /\ b = Stack(0, <<>>, "saved")
    BY <1>0, <1>8 DEF Enters
  <2>2. a.at = "entry" /\ b.at = "saved"  BY <2>1 DEF Stack
  <2>3. sp = F.rsp /\ bp = F.rbp  BY <1>2, <2>2 DEF Shape
  <2>4. Shape(L, F, b, sp - 8, bp, dx, N)
    BY <1>1, <1>3, <1>5, <1>w, <2>1, <2>2, <2>3 DEF Shape, Evaluating
  <2>5. Running(L, F, b, reg', N)  BY <1>r, <2>2, <2>4 DEF Running
  <2>. QED  BY <1>0, <1>4, <1>r, <2>5, MovesOn DEF F, b
<1>. QED  BY <1>6, <1>7, <1>8

\* pop: a word leaves it, or the rbp that the frame began with.
LEMMA PopGoes ==
  ASSUME NEW L, NEW h \in [1..Len(out) + 1 -> Stacks], Through(L, h), Active(L, h),
         DOMAIN reg = Registers, Pop, out' = out
  PROVE  Active(L, h)' /\ DOMAIN reg' = Registers
<1>. DEFINE a == h[pc]
            b == h[pc + 1]
            x == ins
            F == Frame
            sp == reg["rsp"]
            bp == reg["rbp"]
            dx == reg["rdx"]
            v == mem[sp]
<1>0. x[1] = "pop" /\ Stored(mem, sp, v) /\ mem' = mem /\ Advance /\ frames' = frames
  BY DEF Pop, Is, Stored
<1>r. /\ DOMAIN reg' = Registers
      /\ x[2] # "rsp" => reg'["rsp"] = sp + 8
      /\ x[2] \notin {"rsp", "rbp"} => reg'["rbp"] = bp
      /\ x[2] = "rdx" => reg'["rdx"] = v
      /\ x[2] = "rbp" => reg'["rbp"] = v
  BY DEF Pop, Registers
<1>1. /\ a \in Stacks /\ b \in Stacks /\ Takes(x, L, a, b) /\ a.at # "out"
      /\ Running(L, F, a, reg, mem) /\ IsFrame(L, F) /\ sp \in Int /\ sp <= F.rsp
  BY <1>0, AtPlace
<1>2. Shape(L, F, a, sp, bp, dx, mem)  BY <1>1 DEF Running
<1>4. \A k \in 1..Len(frames) - 1 : Kept(mem, mem', frames[k], frames[k + 1].rsp + 8)
  BY <1>0, NothingStored
<1>. HIDE DEF a, b, x, F, sp, bp, dx, v
<1>6. Pops(x, a, b) \/ Returns(x, a, b)  BY <1>0, <1>1, TakesBy
<1>7. CASE Pops(x, a, b)
  <2>1. a = Raise(b, 1) /\ x[2] \notin {"rsp", "rbp"}  BY <1>7 DEF Pops
  <2>2. b \in Steady \/ (x[2] = "rdx" /\ b \in Padding)  BY <1>7 DEF Pops
  <2>3. b.at = "body"
    <3>1. CASE b \in Steady  BY <3>1, SteadyIs
    <3>2. CASE b \in Padding  BY <3>2 DEF Padding, Padded, Stack
    <3>. QED  BY <2>2, <3>1, <3>2
  <2>. DEFINE hh == b.h
              m == b.marks
              dy == reg'["rdx"]
  <2>4. hh \in Nat /\ m \in Seq(Nat)  BY <1>1, StackIs
  <2>8. a.h = hh + 1 /\ a.marks = m /\ a.at = "body"  BY <1>1, <2>1, <2>3, RaiseIs
  <2>5. \A low \in Bounds(L, F) : low \in Int /\ Evaluates(low, hh + 1, m, sp, dx, mem)
    <3>1. \A low \in Bounds(L, F) : Evaluates(low, a.h, a.marks, sp, dx, mem)
      BY <1>2, <2>8 DEF Shape, Evaluating
    <3>. QED  BY <1>1, <2>8, <3>1, BoundsAre
  <2>6. \/ Free(hh, m)
        \/ dy = v /\ m # <<>> /\ hh \in {m[Len(m)], m[Len(m)] + 1}
    <3>1. CASE b \in Steady  BY <3>1 DEF Steady, Free
    <3>2. CASE x[2] = "rdx" /\ b \in Padding
      <4>1. PICK c \in Steady, k \in {0, 1} : b = Padded(c, k)  BY <3>2 DEF Padding
      <4>2. c.h \in Nat /\ c.marks \in Seq(Nat)  BY SteadyIs, StackIs
      <4>3. hh = c.h + k /\ m = Append(c.marks, c.h)  BY <4>1 DEF Padded, Stack
      <4>. DEFINE e == Append(c.marks, c.h)
      <4>4. e # <<>> /\ e[Len(e)] = c.h  BY <4>2
      <4>. HIDE DEF e, hh, m, dy
      <4>5. hh \in {c.h, c.h + 1}  BY <4>2, <4>3
      <4>6. dy = v  BY <3>2, <1>r DEF dy
      <4>. QED  BY <4>3, <4>4, <4>5, <4>6 DEF e
    <3>. QED  BY <2>2, <3>1, <3>2
  <2>. HIDE DEF hh, m, dy
  <2>9. \A low \in Bounds(L, F) : Evaluates(low, hh, m, sp + 8, dy, mem)
    BY <1>0, <2>4, <2>5, <2>6, EvaluatesPop
  <2>10. Shape(L, F, b, sp + 8, bp, dy, mem)
    BY <1>1, <1>2, <2>3, <2>8, <2>9 DEF Shape, Evaluating, hh, m
  <2>11. Running(L, F, b, reg', mem)  BY <1>r, <2>1, <2>3, <2>10 DEF Running, dy
  <2>. QED  BY <1>0, <1>4, <1>r, <2>11, MovesOn DEF F, b
<1>8. CASE Returns(x, a, b)
  <2>1. x = <<"pop", "rbp">> /\ a = Stack(0, <<>>, "leaving") /\ b = Stack(0, <<>>, "left")
    BY <1>0, <1>8 DEF Returns
  <2>2. a.at = "leaving" /\ b.at = "left"  BY <2>1 DEF Stack
  <2>3. sp = F.rsp - 8 /\ Stored(mem, sp, F.rbp) /\ Stored(mem, F.rsp, F.return)
    BY <1>2, <2>2 DEF Shape
  <2>4. v = F.rbp /\ sp + 8 = F.rsp  BY <1>0, <1>1, <2>3 DEF Stored, IsFrame
  <2>5. reg'["rsp"] = F.rsp /\ reg'["rbp"] = F.rbp  BY <1>r, <2>1, <2>4
  <2>6. Running(L, F, b, reg', mem)
    BY <1>1, <2>2, <2>3, <2>5 DEF Running, Shape, Evaluating
  <2>. QED  BY <1>0, <1>4, <1>r, <2>6, MovesOn DEF F, b
<1>. QED  BY <1>6, <1>7, <1>8

\* The stages of an alignment differ in the registers only.
LEMMA StageShape ==
  ASSUME NEW L, NEW F, IsFrame(L, F), NEW c \in Steady, NEW p \in Evaluating, NEW q \in Evaluating,
         NEW sp, NEW bp, NEW dx, NEW M, Shape(L, F, Stage(c, p), sp, bp, dx, M)
  PROVE  /\ \A v : Shape(L, F, Stage(c, q), sp, bp, v, M)
         /\ Stage(c, q).at = q /\ Stage(c, "body") = c /\ sp \in Nat
<1>1. c \in Stacks /\ c.at = "body" /\ c.h \in Nat /\ c.marks \in Seq(Nat) /\ c = Stack(c.h, c.marks, c.at)
  BY SteadyIs, StackIs
<1>. DEFINE st(at) == Stage(c, at)
<1>2. \A at \in Evaluating : /\ st(at) \in Stacks /\ st(at).h = c.h
                             /\ st(at).marks = c.marks /\ st(at).at = at
  BY <1>1, StackIs DEF Stage, Evaluating, Stages
<1>3. st("body") = c  BY <1>1 DEF Stage
<1>4. Shape(L, F, st(p), sp, bp, dx, M)  OBVIOUS
<1>. HIDE DEF st
<1>5. st(p).at \notin {"entry", "left", "saved", "framed", "leaving", "out"}
      /\ st(q).at \notin {"entry", "left", "saved", "framed", "leaving", "out"}
  BY <1>2 DEF Evaluating
<1>6. Shape(L, F, c, sp, bp, dx, M)
  <2>1. \A low \in Bounds(L, F) : Evaluates(low, c.h, c.marks, sp, dx, M)
    BY <1>2, <1>4 DEF Shape
  <2>. QED  BY <1>1, <1>4, <1>5, <2>1 DEF Shape
<1>7. \A v : Shape(L, F, c, sp, bp, v, M)  BY <1>6, SteadyShape, NothingStored
<1>8. ASSUME NEW v  PROVE Shape(L, F, st(q), sp, bp, v, M)
  <2>1. Shape(L, F, c, sp, bp, v, M)  BY <1>7
  <2>2. \A low \in Bounds(L, F) : Evaluates(low, c.h, c.marks, sp, v, M)
    BY <1>1, <2>1 DEF Shape, Evaluating
  <2>3. \A low \in Bounds(L, F) : Evaluates(low, st(q).h, st(q).marks, sp, v, M)  BY <1>2, <2>2
  <2>. QED  BY <1>1, <1>2, <1>5, <2>1, <2>3 DEF Shape
<1>9. sp \in Nat  BY <1>1, <1>6, ShapeBelow DEF Evaluating
<1>. QED  BY <1>2, <1>3, <1>8, <1>9 DEF st

\* Nothing in memory changes, nor rsp and rbp.
LEMMA QuietGoes ==
  ASSUME NEW L, NEW h \in [1..Len(out) + 1 -> Stacks], Through(L, h), Active(L, h),
         ins[1] \notin {"label", "fn"}, h[pc] \in Steady, h[pc + 1] = h[pc],
         Advance, frames' = frames, out' = out, mem' = mem,
         reg'["rsp"] = reg["rsp"], reg'["rbp"] = reg["rbp"]
  PROVE  Active(L, h)'
<1>1. /\ \A k \in 1..Len(frames) - 1 : Kept(mem, mem', frames[k], frames[k + 1].rsp + 8)
      /\ Kept(mem, mem', Frame, reg["rsp"])
  BY NothingStored
<1>. QED  BY <1>1, StillGoes

\* mov, mov_imm and lea: of rsp and rbp only the prologue's and epilogue's moves.
LEMMA MoveGoes ==
  ASSUME NEW L, NEW h \in [1..Len(out) + 1 -> Stacks], Through(L, h), Active(L, h),
         DOMAIN reg = Registers, Move, out' = out
  PROVE  Active(L, h)' /\ DOMAIN reg' = Registers
<1>. DEFINE a == h[pc]
            b == h[pc + 1]
            x == ins
            F == Frame
            sp == reg["rsp"]
            bp == reg["rbp"]
            dx == reg["rdx"]
<1>0. /\ x[1] \in {"mov", "mov_imm", "lea"} /\ mem' = mem /\ Advance /\ frames' = frames
      /\ ins[1] \notin {"label", "fn"}
  BY DEF Move, Is
<1>r. /\ DOMAIN reg' = Registers
      /\ \A r \in Registers : r # x[2] => reg'[r] = reg[r]
      /\ \A r \in Registers : x[1] = "mov" /\ x[2] = r => reg'[r] = reg[x[3]]
      /\ \A r \in Registers : x[1] = "mov_imm" /\ x[2] = r => reg'[r] = x[3]
  BY DEF Move
<1>d. {"rax", "rdi", "rdx", "rsp", "rbp"} \subseteq Registers  BY DEF Registers
<1>1. /\ a \in Stacks /\ b \in Stacks /\ Takes(x, L, a, b) /\ a.at # "out"
      /\ Running(L, F, a, reg, mem) /\ IsFrame(L, F) /\ sp \in Int /\ sp <= F.rsp
  BY <1>0, AtPlace
<1>2. Shape(L, F, a, sp, bp, dx, mem)  BY <1>1 DEF Running
<1>4. \A k \in 1..Len(frames) - 1 : Kept(mem, mem', frames[k], frames[k + 1].rsp + 8)
  BY <1>0, NothingStored
<1>. HIDE DEF a, b, x, F, sp, bp, dx
<1>6. \/ Still(x) /\ a \in Steady /\ b = a
      \/ \E c \in Steady : Aligns(x, c, a, b)
      \/ Enters(x, a, b)
      \/ Returns(x, a, b)
  BY <1>0, <1>1, TakesBy
<1>7. CASE Still(x) /\ a \in Steady /\ b = a
  <2>1. x[2] \notin {"rsp", "rbp"}  BY <1>0, <1>7 DEF Still
  <2>2. reg'["rsp"] = reg["rsp"] /\ reg'["rbp"] = reg["rbp"]  BY <2>1, <1>r, <1>d
  <2>. QED  BY <1>0, <1>7, <1>r, <2>2, QuietGoes DEF a, b
<1>8. ASSUME NEW c \in Steady, Aligns(x, c, a, b)  PROVE Active(L, h)'
  <2>1. \/ x = <<"mov", "rax", "rsp">> /\ a = Stage(c, "body") /\ b = Stage(c, "mov")
        \/ x = <<"mov_imm", "rdi", 16>> /\ a = Stage(c, "mov") /\ b = Stage(c, "imm")
    <3>1. c = Stage(c, "body")
      <4>1. c = Stack(c.h, c.marks, c.at) /\ c.at = "body"  BY SteadyIs, StackIs
      <4>. QED  BY <4>1 DEF Stage
    <3>. QED  BY <1>0, <1>8, <3>1 DEF Aligns
  <2>2. CASE x = <<"mov", "rax", "rsp">> /\ a = Stage(c, "body") /\ b = Stage(c, "mov")
    <3>1. reg'["rsp"] = sp /\ reg'["rbp"] = bp /\ reg'["rdx"] = dx /\ reg'["rax"] = sp
      BY <2>2, <1>r, <1>d DEF sp, bp, dx
    <3>2. Shape(L, F, b, sp, bp, dx, mem) /\ b.at = "mov"
      BY <1>1, <1>2, <2>2, StageShape DEF Evaluating
    <3>3. Running(L, F, b, reg', mem')  BY <1>0, <3>1, <3>2 DEF Running
    <3>. QED  BY <1>0, <1>4, <3>3, MovesOn DEF F, b
  <2>3. CASE x = <<"mov_imm", "rdi", 16>> /\ a = Stage(c, "mov") /\ b = Stage(c, "imm")
    <3>1. /\ reg'["rsp"] = sp /\ reg'["rbp"] = bp /\ reg'["rdx"] = dx /\ reg'["rdi"] = 16
          /\ reg'["rax"] = reg["rax"]
      BY <2>3, <1>r, <1>d DEF sp, bp, dx
    <3>2. Shape(L, F, b, sp, bp, dx, mem) /\ b.at = "imm"
      BY <1>1, <1>2, <2>3, StageShape DEF Evaluating
    <3>3. a.at = "mov"  BY <2>3 DEF Stage, Stack
    <3>4. reg["rax"] = sp  BY <1>1, <3>3 DEF Running, sp
    <3>5. Running(L, F, b, reg', mem')  BY <1>0, <3>1, <3>2, <3>4 DEF Running
    <3>. QED  BY <1>0, <1>4, <3>5, MovesOn DEF F, b
  <2>. QED  BY <2>1, <2>2, <2>3
<1>9. CASE Enters(x, a, b)
  <2>1. x = <<"mov", "rbp", "rsp">> /\ a = Stack(0, <<>>, "saved") /\ b = Stack(0, <<>>, "framed")
    BY <1>0, <1>9 DEF Enters
  <2>2. a.at = "saved" /\ b.at = "framed"  BY <2>1 DEF Stack
  <2>3. sp = F.rsp - 8 /\ Stored(mem, sp, F.rbp) /\ Stored(mem, F.rsp, F.return)
    BY <1>2, <2>2 DEF Shape
  <2>4. reg'["rsp"] = sp /\ reg'["rbp"] = sp  BY <2>1, <1>r, <1>d DEF sp
  <2>5. Running(L, F, b, reg', mem')
    BY <1>0, <1>1, <2>2, <2>3, <2>4 DEF Running, Shape, Evaluating
  <2>. QED  BY <1>0, <1>4, <1>r, <2>5, MovesOn DEF F, b
<1>10. CASE Returns(x, a, b)
  <2>1. x = <<"mov", "rsp", "rbp">> /\ a \in Level /\ b = Stack(0, <<>>, "leaving")
    BY <1>0, <1>10 DEF Returns
  <2>2. a.at = "body" /\ b.at = "leaving"  BY <2>1, SteadyIs DEF Level, Stack
  <2>3. bp = F.rsp - 8 /\ Stored(mem, bp, F.rbp) /\ Stored(mem, F.rsp, F.return)
    BY <1>2, <2>2 DEF Shape
  <2>4. reg'["rsp"] = bp /\ reg'["rbp"] = bp  BY <2>1, <1>r, <1>d DEF bp
  <2>5. Running(L, F, b, reg', mem')
    BY <1>0, <1>1, <2>2, <2>3, <2>4 DEF Running, Shape, Evaluating
  <2>. QED  BY <1>0, <1>4, <1>r, <2>5, MovesOn DEF F, b
<1>. QED  BY <1>6, <1>7, <1>8, <1>9, <1>10, <1>r

\* Instructions with no other effect on the stack than none.
LEMMA StillsGo ==
  ASSUME NEW L, NEW h \in [1..Len(out) + 1 -> Stacks], Through(L, h), Active(L, h),
         DOMAIN reg = Registers, Load \/ Compare \/ SetByte \/ ZeroExtend, out' = out
  PROVE  Active(L, h)' /\ DOMAIN reg' = Registers
<1>. DEFINE a == h[pc]
            b == h[pc + 1]
            x == ins
<1>0. /\ x[1] \in {"load", "load_byte", "cmp", "cmp_imm", "set", "movzb"}
      /\ mem' = mem /\ Advance /\ frames' = frames /\ ins[1] \notin {"label", "fn"}
  BY DEF Load, Compare, SetByte, ZeroExtend, Is
<1>1. Takes(x, L, a, b) /\ a.at # "out"  BY <1>0, AtPlace
<1>2. Still(x) /\ a \in Steady /\ b = a
  <2>. HIDE DEF a, b, x
  <2>. QED  BY <1>0, <1>1, TakesBy
<1>3. x[1] \in {"load", "load_byte"} => x[2] \notin {"rsp", "rbp"}  BY <1>2 DEF Still
<1>4. CASE Load
  <2>1. DOMAIN reg' = Registers /\ reg'["rsp"] = reg["rsp"] /\ reg'["rbp"] = reg["rbp"]
    BY <1>3, <1>4 DEF Load, Registers, Is
  <2>. QED  BY <1>0, <1>2, <2>1, QuietGoes
<1>5. CASE Compare
  <2>1. DOMAIN reg' = Registers /\ reg'["rsp"] = reg["rsp"] /\ reg'["rbp"] = reg["rbp"]
    BY <1>5 DEF Compare
  <2>. QED  BY <1>0, <1>2, <2>1, QuietGoes
<1>6. CASE SetByte \/ ZeroExtend
  <2>1. DOMAIN reg' = Registers /\ reg'["rsp"] = reg["rsp"] /\ reg'["rbp"] = reg["rbp"]
    BY <1>6 DEF SetByte, ZeroExtend, Registers
  <2>. QED  BY <1>0, <1>2, <2>1, QuietGoes
<1>. QED  BY <1>4, <1>5, <1>6

\* A store to a variable, which no frame keeps.
LEMMA StoreGoes ==
  ASSUME NEW L, NEW h \in [1..Len(out) + 1 -> Stacks], Through(L, h), Active(L, h),
         Store, out' = out
  PROVE  Active(L, h)' /\ reg' = reg
<1>. DEFINE a == h[pc]
            b == h[pc + 1]
            x == ins
<1>0. /\ x[1] = "store" /\ IsVariable(reg[ins[2]]) /\ mem' = Put(reg[ins[2]], reg[ins[3]])
      /\ reg' = reg /\ Advance /\ frames' = frames /\ ins[1] \notin {"label", "fn"}
  BY DEF Store, Is
<1>1. Takes(x, L, a, b) /\ a.at # "out"  BY <1>0, AtPlace
<1>2. a \in Steady /\ b = a
  <2>. HIDE DEF a, b, x
  <2>. QED  BY <1>0, <1>1, TakesBy
<1>3. a.at \in Evaluating  BY <1>2, SteadyIs DEF Evaluating
<1>4. /\ \A k \in 1..Len(frames) - 1 : Kept(mem, mem', frames[k], frames[k + 1].rsp + 8)
      /\ Kept(mem, mem', Frame, reg["rsp"])
  BY <1>0, <1>3, StoreKept
<1>. QED  BY <1>0, <1>2, <1>4, StillGoes

\* The remainder that the alignment divides for.
LEMMA RemainderIs ==
  \A n \in Nat : Remainder(n, 16) = n % 16
<1>1. ASSUME NEW n \in Nat  PROVE Remainder(n, 16) = n % 16
  <2>1. Magnitude(n) = n /\ Magnitude(16) = 16  BY DEF Magnitude
  <2>2. Quotient(n, 16) = n \div 16
    <3>1. (n < 0) = FALSE /\ (16 < 0) = FALSE  OBVIOUS
    <3>. QED  BY <2>1, <3>1 DEF Quotient
  <2>3. n - 16 * (n \div 16) = n % 16  OBVIOUS
  <2>. QED  BY <2>2, <2>3 DEF Remainder
<1>. QED  BY <1>1

\* cqo and idiv: the alignment's remainder, or words of an expression.
LEMMA DivisionGoes ==
  ASSUME NEW L, NEW h \in [1..Len(out) + 1 -> Stacks], Through(L, h), Active(L, h),
         DOMAIN reg = Registers, SignExtend \/ Divide, out' = out
  PROVE  Active(L, h)' /\ DOMAIN reg' = Registers
<1>. DEFINE a == h[pc]
            b == h[pc + 1]
            x == ins
            F == Frame
            sp == reg["rsp"]
            bp == reg["rbp"]
            dx == reg["rdx"]
<1>0. /\ x[1] \in {"cqo", "idiv"} /\ mem' = mem /\ Advance /\ frames' = frames
      /\ ins[1] \notin {"label", "fn"}
  BY DEF SignExtend, Divide, Is
<1>r. /\ DOMAIN reg' = Registers /\ reg'["rsp"] = sp /\ reg'["rbp"] = bp /\ reg'["rdi"] = reg["rdi"]
      /\ x[1] = "cqo" => /\ reg'["rdx"] = (IF reg["rax"] < 0 THEN -1 ELSE 0)
                         /\ reg'["rax"] = reg["rax"]
      /\ x[1] = "idiv" => reg'["rdx"] = Remainder(reg["rax"], reg[x[2]])
  BY DEF SignExtend, Divide, Registers, Is
<1>1. /\ a \in Stacks /\ b \in Stacks /\ Takes(x, L, a, b) /\ a.at # "out"
      /\ Running(L, F, a, reg, mem) /\ IsFrame(L, F) /\ sp \in Int /\ sp <= F.rsp
  BY <1>0, AtPlace
<1>2. Shape(L, F, a, sp, bp, dx, mem)  BY <1>1 DEF Running
<1>4. \A k \in 1..Len(frames) - 1 : Kept(mem, mem', frames[k], frames[k + 1].rsp + 8)
  BY <1>0, NothingStored
<1>. HIDE DEF a, b, x, F, bp, dx
<1>6. \/ Still(x) /\ a \in Steady /\ b = a
      \/ \E c \in Steady : Aligns(x, c, a, b)
  BY <1>0, <1>1, TakesBy
<1>7. CASE Still(x) /\ a \in Steady /\ b = a
  BY <1>0, <1>7, <1>r, QuietGoes DEF a, b, bp
<1>8. ASSUME NEW c \in Steady, Aligns(x, c, a, b)  PROVE Active(L, h)'
  <2>1. \/ x = <<"cqo">> /\ a = Stage(c, "imm") /\ b = Stage(c, "cqo")
        \/ x = <<"idiv", "rdi">> /\ a = Stage(c, "cqo") /\ b = Stage(c, "idiv")
    BY <1>0, <1>8 DEF Aligns
  <2>2. CASE x = <<"cqo">> /\ a = Stage(c, "imm") /\ b = Stage(c, "cqo")
    <3>1. sp \in Nat /\ b.at = "cqo" /\ Shape(L, F, b, sp, bp, 0, mem)
      BY <1>1, <1>2, <2>2, StageShape DEF Evaluating
    <3>2. a.at = "imm"  BY <2>2 DEF Stage, Stack
    <3>3. reg["rax"] = sp /\ reg["rdi"] = 16  BY <1>1, <3>2 DEF Running
    <3>4. reg'["rdx"] = 0 /\ reg'["rax"] = sp
      <4>1. x[1] = "cqo"  BY <2>2
      <4>. HIDE DEF sp
      <4>2. ~(sp < 0)  BY <3>1
      <4>. QED  BY <4>1, <4>2, <3>3, <1>r
    <3>5. Running(L, F, b, reg', mem')  BY <1>0, <1>r, <3>1, <3>3, <3>4 DEF Running
    <3>. QED  BY <1>0, <1>4, <3>5, MovesOn DEF F, b
  <2>3. CASE x = <<"idiv", "rdi">> /\ a = Stage(c, "cqo") /\ b = Stage(c, "idiv")
    <3>1. sp \in Nat /\ b.at = "idiv" /\ \A v : Shape(L, F, b, sp, bp, v, mem)
      BY <1>1, <1>2, <2>3, StageShape DEF Evaluating
    <3>2. a.at = "cqo"  BY <2>3 DEF Stage, Stack
    <3>3. reg["rax"] = sp /\ reg["rdi"] = 16  BY <1>1, <3>2 DEF Running
    <3>4. reg'["rdx"] = sp % 16
      <4>1. x[1] = "idiv" /\ x[2] = "rdi"  BY <2>3
      <4>. HIDE DEF sp
      <4>2. reg'["rdx"] = Remainder(sp, 16)  BY <4>1, <3>3, <1>r
      <4>. QED  BY <4>2, <3>1, RemainderIs
    <3>5. Running(L, F, b, reg', mem')  BY <1>0, <1>r, <3>1, <3>4 DEF Running
    <3>. QED  BY <1>0, <1>4, <3>5, MovesOn DEF F, b
  <2>. QED  BY <2>1, <2>2, <2>3
<1>. QED  BY <1>6, <1>7, <1>8, <1>r

\* rsp is far from the ends of the words.
LEMMA SignedIs ==
  ASSUME NEW L, NEW h, Active(L, h), NEW v \in Nat, v <= Frame.low
  PROVE  Signed(v) = v
<1>. DEFINE n == Len(frames)
<1>1. n \in Nat \ {0} /\ Frame = frames[n]
  <2>1. n \in Nat  BY SeqFacts DEF Active
  <2>2. n # 0  BY DEF Active, IsSeq
  <2>. QED  BY <2>1, <2>2 DEF Frame
<1>2. 1 \in 1..n /\ n \in 1..n /\ 1 <= n  BY <1>1
<1>. DEFINE r == frames[n].rsp
            l == frames[n].low
            t == frames[1].rsp
<1>3. r \in Int /\ l \in Int /\ t \in Int /\ l <= r - 8 /\ t + 8 <= StackTop /\ r <= t /\ v <= l
  BY <1>1, <1>2 DEF Active, IsFrame
<1>. HIDE DEF r, l, t
<1>4. v \in Words  BY <1>3, MachineAssumption DEF Words
<1>. QED  BY <1>4 DEF Signed

\* Arithmetic: on rsp only that of the alignment.
LEMMA ArithmeticGoes ==
  ASSUME NEW L, NEW h \in [1..Len(out) + 1 -> Stacks], Through(L, h), Active(L, h),
         DOMAIN reg = Registers, Arithmetic, out' = out
  PROVE  Active(L, h)' /\ DOMAIN reg' = Registers
<1>. DEFINE a == h[pc]
            b == h[pc + 1]
            x == ins
            F == Frame
            sp == reg["rsp"]
            bp == reg["rbp"]
            dx == reg["rdx"]
<1>0. /\ x[1] \in {"add", "sub", "imul", "and", "or", "add_imm", "sub_imm", "xor_imm"}
      /\ ~(x[1] = "sub_imm" /\ x[2] = "rsp")
      /\ mem' = mem /\ Advance /\ frames' = frames /\ ins[1] \notin {"label", "fn"}
  BY DEF Arithmetic, Is
<1>r. /\ DOMAIN reg' = Registers
      /\ \A r \in Registers : r # x[2] => reg'[r] = reg[r]
      /\ x = <<"add", "rsp", "rdx">> => reg'["rsp"] = Signed(sp + dx)
      /\ x = <<"sub", "rsp", "rdx">> => reg'["rsp"] = Signed(sp - dx)
  <2>1. DOMAIN reg' = Registers /\ \A r \in Registers : r # x[2] => reg'[r] = reg[r]
    BY DEF Arithmetic
  <2>2. ASSUME x = <<"add", "rsp", "rdx">>  PROVE reg'["rsp"] = Signed(sp + dx)
    BY <2>2 DEF Arithmetic, Registers
  <2>3. ASSUME x = <<"sub", "rsp", "rdx">>  PROVE reg'["rsp"] = Signed(sp - dx)
    BY <2>3 DEF Arithmetic, Registers
  <2>. QED  BY <2>1, <2>2, <2>3
<1>d. {"rax", "rdi", "rdx", "rsp", "rbp"} \subseteq Registers  BY DEF Registers
<1>1. /\ a \in Stacks /\ b \in Stacks /\ Takes(x, L, a, b) /\ a.at # "out"
      /\ Running(L, F, a, reg, mem) /\ IsFrame(L, F) /\ sp \in Int /\ sp <= F.rsp
  BY <1>0, AtPlace
<1>2. Shape(L, F, a, sp, bp, dx, mem)  BY <1>1 DEF Running
<1>4. \A k \in 1..Len(frames) - 1 : Kept(mem, mem', frames[k], frames[k + 1].rsp + 8)
  BY <1>0, NothingStored
<1>s. \A v \in Nat : v <= F.low => Signed(v) = v  BY SignedIs
<1>. HIDE DEF a, b, x, F, sp, bp, dx
<1>6. \/ Still(x) /\ a \in Steady /\ b = a
      \/ \E c \in Steady : Aligns(x, c, a, b)
  <2>1. ~Enters(x, a, b)  BY <1>0 DEF Enters
  <2>. QED  BY <1>0, <1>1, <2>1, TakesBy
<1>7. CASE Still(x) /\ a \in Steady /\ b = a
  <2>1. x[2] \notin {"rsp", "rbp"}  BY <1>0, <1>7 DEF Still
  <2>2. reg'["rsp"] = reg["rsp"] /\ reg'["rbp"] = reg["rbp"]  BY <2>1, <1>r, <1>d
  <2>. QED  BY <1>0, <1>7, <1>r, <2>2, QuietGoes DEF a, b
<1>8. ASSUME NEW c \in Steady, Aligns(x, c, a, b)  PROVE Active(L, h)'
  <2>1. \/ x = <<"sub", "rsp", "rdx">> /\ a = Stage(c, "idiv") /\ b = Padded(c, 0)
        \/ x = <<"add", "rsp", "rdx">> /\ a = Padded(c, 0) /\ b = c
    BY <1>0, <1>8 DEF Aligns
  <2>. DEFINE low == F.low
              hh == c.h
              m == c.marks
  <2>2. hh \in Nat /\ m \in Seq(Nat) /\ low \in Int /\ c.at = "body" /\ low \in Bounds(L, F)
    BY <1>1, SteadyIs, StackIs, BoundsAre DEF IsFrame
  <2>b. \A u \in Bounds(L, F) : u \in Int  BY <1>1, BoundsAre
  <2>3. Free(hh, m)  BY DEF Steady, Free
  <2>4. Padded(c, 0).h = hh /\ Padded(c, 0).marks = Append(m, hh) /\ Padded(c, 0).at = "body"
    <3>1. c.h + 0 = c.h  BY <2>2
    <3>. QED  BY <3>1 DEF Padded, Stack
  <2>r. (x = <<"sub", "rsp", "rdx">> \/ x = <<"add", "rsp", "rdx">>)
          => reg'["rbp"] = bp /\ reg'["rdx"] = dx
    BY <1>r, <1>d DEF bp, dx
  <2>5. CASE x = <<"sub", "rsp", "rdx">> /\ a = Stage(c, "idiv") /\ b = Padded(c, 0)
    <3>1. Shape(L, F, c, sp, bp, dx, mem) /\ sp \in Nat
      BY <1>1, <1>2, <2>5, StageShape DEF Evaluating
    <3>2. a.at = "idiv"  BY <2>5 DEF Stage, Stack
    <3>3. dx = sp % 16  BY <1>1, <3>2 DEF Running, sp, dx
    <3>4. \A u \in Bounds(L, F) : Evaluates(u, hh, m, sp, dx, mem)
      BY <2>2, <3>1 DEF Shape, Evaluating
    <3>. DEFINE t == sp - (sp % 16)
    <3>. HIDE DEF low, hh, m
    <3>5. t \in 0..sp /\ \A u \in Bounds(L, F) : Evaluates(u, hh, Append(m, hh), t, sp % 16, mem)
      BY <2>2, <2>3, <2>b, <3>4, EvaluatesAlign
    <3>6. sp <= low
      <4>1. sp + 8 * hh <= low  BY <2>2, <3>4 DEF Evaluates
      <4>. QED  BY <4>1, <2>2, <3>1
    <3>7. t \in Nat /\ t <= low  BY <2>2, <3>1, <3>5, <3>6
    <3>8. reg'["rsp"] = t
      <4>1. Signed(t) = t  BY <3>7, <1>s DEF low
      <4>. QED  BY <4>1, <2>5, <3>3, <1>r
    <3>. HIDE DEF t
    <3>9. Shape(L, F, b, t, bp, dx, mem)
      BY <1>1, <2>2, <2>4, <2>5, <3>1, <3>3, <3>5 DEF Shape, Evaluating
    <3>10. Running(L, F, b, reg', mem')  BY <1>0, <2>r, <2>4, <2>5, <3>8, <3>9 DEF Running
    <3>. QED  BY <1>0, <1>4, <3>10, MovesOn DEF F, b
  <2>6. CASE x = <<"add", "rsp", "rdx">> /\ a = Padded(c, 0) /\ b = c
    <3>1. \A u \in Bounds(L, F) : Evaluates(u, hh, Append(m, hh), sp, dx, mem)
      BY <1>2, <2>4, <2>6 DEF Shape, Evaluating
    <3>. HIDE DEF low, hh, m
    <3>2. \A u \in Bounds(L, F) : sp + dx \in 0..u /\ Evaluates(u, hh, m, sp + dx, dx, mem)
      BY <2>2, <2>3, <2>b, <3>1, EvaluatesUnalign
    <3>. DEFINE t == sp + dx
    <3>3. t \in Nat /\ t <= low  BY <3>2, <2>2
    <3>4. reg'["rsp"] = t
      <4>1. Signed(t) = t  BY <3>3, <1>s DEF low
      <4>. QED  BY <4>1, <2>6, <1>r
    <3>5. \A u \in Bounds(L, F) : Evaluates(u, hh, m, t, dx, mem)  BY <3>2
    <3>. HIDE DEF t
    <3>6. Shape(L, F, b, t, bp, dx, mem)
      BY <1>1, <1>2, <2>2, <2>4, <2>6, <3>5 DEF Shape, Evaluating, hh, m
    <3>7. Running(L, F, b, reg', mem')  BY <1>0, <2>r, <2>2, <2>6, <3>4, <3>6 DEF Running
    <3>. QED  BY <1>0, <1>4, <3>7, MovesOn DEF F, b
  <2>. QED  BY <2>1, <2>5, <2>6
<1>. QED  BY <1>6, <1>7, <1>8, <1>r

\* The frame of the running function is replaced.
LEMMA FrameChanges ==
  ASSUME NEW L, NEW h, Active(L, h), NEW G, frames' = [frames EXCEPT ![Len(frames)] = G]
  PROVE  /\ IsSeq(frames') /\ Len(frames') = Len(frames) /\ frames'[Len(frames)] = G
         /\ \A k \in 1..Len(frames) - 1 : frames'[k] = frames[k]
<1>. DEFINE n == Len(frames)
<1>1. n \in Nat /\ DOMAIN frames = 1..n  BY SeqFacts DEF Active
<1>2. n # 0  BY DEF Active, IsSeq
<1>3. PICK S : frames \in Seq(S)  BY DEF Active, IsSeq
<1>4. \A i \in 1..n : frames[i] \in S  BY <1>1, <1>3
<1>5. frames' = [i \in 1..n |-> IF i = n THEN G ELSE frames[i]]  BY <1>1
<1>. HIDE DEF n
<1>6. frames' \in [1..n -> S \cup {G}]  BY <1>4, <1>5
<1>7. IsSeq(frames') /\ Len(frames') = n
  <2>. DEFINE g == frames'
              T == S \cup {G}
  <2>1. g \in [1..n -> T]  BY <1>6
  <2>. HIDE DEF g, T
  <2>2. IsSeq(g) /\ Len(g) = n  BY <1>1, <2>1, Listed
  <2>. QED  BY <2>2 DEF g
<1>8. n \in 1..n /\ \A k \in 1..n - 1 : k \in 1..n /\ k # n  BY <1>1, <1>2
<1>9. frames'[n] = G  BY <1>5, <1>8
<1>10. \A k \in 1..n - 1 : frames'[k] = frames[k]  BY <1>5, <1>8
<1>. QED  BY <1>7, <1>9, <1>10 DEF n

\* The prologue reserves the variables: the frame knows where they end.
LEMMA ReserveGoes ==
  ASSUME NEW L, NEW h \in [1..Len(out) + 1 -> Stacks], Through(L, h), Active(L, h),
         DOMAIN reg = Registers, Reserve, out' = out
  PROVE  Active(L, h)' /\ DOMAIN reg' = Registers
<1>. DEFINE a == h[pc]
            b == h[pc + 1]
            x == ins
            F == Frame
            sp == reg["rsp"]
            bp == reg["rbp"]
            t == sp - x[3]
            G == [F EXCEPT !.low = t]
            q == pc + 1
<1>0. /\ x[1] = "sub_imm" /\ x[2] = "rsp" /\ sp >= x[3] /\ mem' = mem /\ pc' = q
  BY DEF Reserve, Is, Advance
<1>r. DOMAIN reg' = Registers /\ reg'["rsp"] = t /\ reg'["rbp"] = bp
  BY DEF Reserve, Registers
<1>f. frames' = [frames EXCEPT ![Len(frames)] = G]
  BY DEF Reserve, Frame
<1>1. /\ a \in Stacks /\ b \in Stacks /\ Takes(x, L, a, b) /\ a.at # "out"
      /\ Running(L, F, a, reg, mem) /\ IsFrame(L, F) /\ sp \in Int /\ sp <= F.rsp
      /\ q \in 1..Len(out) + 1
  BY <1>0, AtPlace
<1>2. Shape(L, F, a, sp, bp, reg["rdx"], mem)  BY <1>1 DEF Running
<1>3. \A k \in 1..Len(frames) - 1 : Kept(mem, mem', frames[k], frames[k + 1].rsp + 8)
  BY <1>0, NothingStored
<1>4. /\ IsSeq(frames') /\ Len(frames') = Len(frames) /\ frames'[Len(frames)] = G
      /\ \A k \in 1..Len(frames) - 1 : frames'[k] = frames[k]
  <2>. HIDE DEF G
  <2>. QED  BY <1>f, FrameChanges
<1>5. /\ a = Stack(0, <<>>, "framed") /\ b = Stack(0, <<>>, "body") /\ x[3] \in Nat
  <2>. HIDE DEF a, b, x
  <2>1. ~Still(x)  BY <1>0 DEF Still
  <2>2. Enters(x, a, b)  BY <1>0, <1>1, <2>1, TakesBy
  <2>. QED  BY <1>0, <2>2 DEF Enters
<1>6. a.at = "framed" /\ b.h = 0 /\ b.marks = <<>> /\ b.at = "body"  BY <1>5 DEF Stack
<1>7. /\ sp = bp /\ bp = F.rsp - 8 /\ Stored(mem, bp, F.rbp) /\ Stored(mem, F.rsp, F.return)
      /\ DOMAIN F.heads = {}
  BY <1>2, <1>6 DEF Shape
<1>8. t \in Nat /\ t <= sp  BY <1>0, <1>1, <1>5
<1>9. /\ G.rsp = F.rsp /\ G.rbp = F.rbp /\ G.return = F.return /\ G.low = t
      /\ DOMAIN G = DOMAIN F /\ G.heads = F.heads
  <2>1. DOMAIN F = {"rsp", "rbp", "return", "low", "heads"}  BY <1>1 DEF IsFrame
  <2>. HIDE DEF F, t
  <2>. QED  BY <2>1
<1>. HIDE DEF a, b, x, F, sp, bp, t, G, q
<1>10. IsFrame(L, G)
  <2>1. F.rsp \in Int /\ DOMAIN F = {"rsp", "rbp", "return", "low", "heads"}  BY <1>1 DEF IsFrame
  <2>2. t \in Int /\ t <= F.rsp - 8  BY <1>1, <1>7, <1>8, <2>1
  <2>. QED  BY <1>7, <1>9, <2>1, <2>2 DEF IsFrame
<1>b. Bounds(L, G) = {t}  BY <1>7, <1>9 DEF Bounds
<1>11. Evaluates(t, 0, <<>>, t, reg'["rdx"], mem)
  <2>1. t + 8 * 0 <= t  BY <1>8
  <2>. QED  BY <1>8, <2>1, EvaluatesLevel
<1>12. Shape(L, G, b, t, bp, reg'["rdx"], mem)
  BY <1>1, <1>6, <1>7, <1>9, <1>b, <1>11 DEF Shape, Evaluating
<1>13. Running(L, G, b, reg', mem')  BY <1>0, <1>r, <1>6, <1>12 DEF Running
<1>14. q \in 1..Len(out) /\ Running(L, G, Here(h, q), reg', mem')
  <2>1. b = h[q]  BY DEF b, q
  <2>. QED  BY <1>1, <1>10, <1>13, <2>1, Arrive
<1>. QED  BY <1>0, <1>3, <1>4, <1>9, <1>10, <1>14, <1>r, GoesOn DEF F

\* A jump comes to its label with at least what the label expects.
LEMMA JumpGoes ==
  ASSUME NEW L, NEW h \in [1..Len(out) + 1 -> Stacks], Through(L, h), Active(L, h),
         JumpTo, out' = out
  PROVE  Active(L, h)' /\ reg' = reg
<1>. DEFINE a == h[pc]
            b == h[pc + 1]
            x == ins
            F == Frame
            sp == reg["rsp"]
            bp == reg["rbp"]
            dx == reg["rdx"]
<1>0. x[1] \in {"jmp", "je"} /\ mem' = mem /\ reg' = reg /\ frames' = frames  BY DEF JumpTo, Is
<1>j. \/ \E i \in Instructions("label") : out[i][2] = x[2] /\ pc' = i
      \/ x[1] = "je" /\ Advance
  BY DEF JumpTo, Is
<1>1. /\ a \in Stacks /\ b \in Stacks /\ Takes(x, L, a, b) /\ a.at # "out"
      /\ Running(L, F, a, reg, mem) /\ IsFrame(L, F) /\ Len(frames) \in Nat \ {0}
  BY <1>0, AtPlace
<1>2. Shape(L, F, a, sp, bp, dx, mem)  BY <1>1 DEF Running
<1>3. \A k \in 1..Len(frames) - 1 : Kept(mem, mem', frames[k], frames[k + 1].rsp + 8)
  BY <1>0, NothingStored
<1>. HIDE DEF a, b, x, F, sp, bp, dx
<1>4. Jumps(x, L, a, b)  BY <1>0, <1>1, TakesBy
<1>5. a \in Level /\ L[x[2]] <= a.h /\ (x[1] = "je" => b = a)  BY <1>4 DEF Jumps
<1>6. a.marks = <<>> /\ a.at = "body" /\ a.h \in Nat  BY <1>1, <1>5, SteadyIs, StackIs DEF Level
<1>7. CASE x[1] = "je" /\ Advance
  BY <1>0, <1>1, <1>3, <1>5, <1>7, MovesOn DEF F, b
<1>8. ASSUME NEW i \in Instructions("label"), out[i][2] = x[2], pc' = i  PROVE Active(L, h)'
  <2>1. i \in 1..Len(out) /\ out[i][1] = "label"
    <3>1. DOMAIN out = 1..Len(out)  BY SeqFacts DEF Through
    <3>. QED  BY <3>1 DEF Instructions
  <2>. DEFINE c == h[i]
              d == h[i + 1]
              y == out[i]
              l == L[x[2]]
  <2>2. d \in Stacks /\ Takes(y, L, c, d) /\ Here(h, i) = d /\ y[1] = "label" /\ y[2] = x[2]
    <3>1. i + 1 \in 1..Len(out) + 1  BY <2>1, SeqFacts DEF Through
    <3>. QED  BY <1>8, <2>1, <3>1 DEF Through, Here
  <2>. HIDE DEF c, d, y
  <2>3. Jumps(y, L, c, d)  BY <2>2, TakesBy
  <2>4. d = Stack(l, <<>>, "body")  BY <2>2, <2>3 DEF Jumps
  <2>5. d.h = l /\ d.marks = <<>> /\ d.at = "body" /\ l \in Nat
    <3>1. d.h = l /\ d.marks = <<>> /\ d.at = "body"  BY <2>4 DEF Stack
    <3>. QED  BY <2>2, <3>1, StackIs
  <2>6. l <= a.h  BY <1>5
  <2>. HIDE DEF l
  <2>10. ASSUME NEW low \in Bounds(L, F)  PROVE Evaluates(low, l, <<>>, sp, dx, mem)
    <3>1. Evaluates(low, a.h, <<>>, sp, dx, mem)  BY <1>2, <1>6 DEF Shape, Evaluating
    <3>2. low \in Int  BY <1>1, BoundsAre
    <3>. QED  BY <1>6, <2>5, <2>6, <3>1, <3>2, EvaluatesLess
  <2>11. Shape(L, F, d, sp, bp, dx, mem)
    BY <1>2, <1>6, <2>2, <2>5, <2>10 DEF Shape, Evaluating
  <2>12. Running(L, F, d, reg', mem')
    BY <1>0, <2>5, <2>11 DEF Running, sp, bp, dx
  <2>13. pc' \in 1..Len(out) /\ Running(L, F, Here(h, pc'), reg', mem')  BY <1>8, <2>1, <2>2, <2>12
  <2>14. IsSeq(frames') /\ Len(frames') = Len(frames) /\ F = frames'[Len(frames)]
    BY <1>0 DEF Active, Frame, F
  <2>15. \A k \in 1..Len(frames) - 1 : frames'[k] = frames[k]  BY <1>0
  <2>. QED  BY <1>1, <1>3, <2>13, <2>14, <2>15, GoesOn DEF F
<1>. QED  BY <1>0, <1>j, <1>7, <1>8

\* G is F with rsp noted at the loop head l.
Headed(F, l, sp, G) ==
  /\ G.rsp = F.rsp /\ G.rbp = F.rbp /\ G.return = F.return /\ G.low = F.low
  /\ DOMAIN G = DOMAIN F /\ DOMAIN G.heads = DOMAIN F.heads \cup {l} /\ G.heads[l] = sp
  /\ \A k \in DOMAIN F.heads : k = l \/ G.heads[k] = F.heads[k]

\* A label: a loop's head joins the heads of the frame, as a bound where rsp is.
LEMMA HeadJoins ==
  ASSUME NEW L, NEW F, IsFrame(L, F), NEW l, L[l] \in Nat, NEW b \in Stacks, b = Stack(L[l], <<>>, "body"),
         NEW sp, NEW bp, NEW dx, NEW M, Shape(L, F, b, sp, bp, dx, M),
         NEW G, Headed(F, l, sp, G)
  PROVE  IsFrame(L, G) /\ Shape(L, G, b, sp, bp, dx, M)
<1>. DEFINE D == DOMAIN F.heads
            e == G.heads
            top == sp + 8 * L[l]
<1>1. /\ G.rsp = F.rsp /\ G.rbp = F.rbp /\ G.return = F.return /\ G.low = F.low
      /\ DOMAIN G = DOMAIN F /\ G.heads = e
  BY DEF Headed
<1>2. DOMAIN e = D \cup {l} /\ e[l] = sp /\ \A k \in D : k = l \/ e[k] = F.heads[k]
  BY DEF Headed
<1>3. b.h = L[l] /\ b.marks = <<>> /\ b.at = "body"  BY DEF Stack
<1>4. \A low \in Bounds(L, F) : low \in Int /\ Evaluates(low, L[l], <<>>, sp, dx, M)
  BY <1>3, BoundsAre DEF Shape, Evaluating
<1>5. F.low \in Bounds(L, F)  BY BoundsAre
<1>6. sp \in Nat /\ top <= F.low /\ Evaluates(top, L[l], <<>>, sp, dx, M)
  <2>1. sp \in Nat /\ top <= F.low  BY <1>4, <1>5, EvaluatesLevel
  <2>2. top <= top
    <3>. DEFINE n == L[l]
    <3>1. n \in Nat  OBVIOUS
    <3>. HIDE DEF n
    <3>2. sp + 8 * n \in Int /\ sp + 8 * n <= sp + 8 * n  BY <2>1, <3>1
    <3>. QED  BY <3>2 DEF n
  <2>. QED  BY <2>1, <2>2, EvaluatesLevel
<1>. HIDE DEF e, top
<1>7. ASSUME NEW k \in DOMAIN e
      PROVE  /\ e[k] \in Int /\ L[k] \in Nat /\ e[k] + 8 * L[k] <= F.low
             /\ e[k] + 8 * L[k] \in Bounds(L, F) \cup {top}
  <2>1. CASE k = l  BY <2>1, <1>2, <1>6 DEF top
  <2>2. CASE k # l
    <3>1. k \in D /\ e[k] = F.heads[k]  BY <1>2, <2>2
    <3>2. F.heads[k] \in Int /\ L[k] \in Nat /\ F.heads[k] + 8 * L[k] <= F.low  BY <3>1 DEF IsFrame
    <3>3. F.heads[k] + 8 * L[k] \in Bounds(L, F)  BY <3>1 DEF Bounds
    <3>. QED  BY <3>1, <3>2, <3>3
  <2>. QED  BY <2>1, <2>2
<1>8. IsFrame(L, G)
  <2>1. /\ DOMAIN F = {"rsp", "rbp", "return", "low", "heads"}
        /\ F.rsp \in Int /\ F.low \in Int /\ F.low <= F.rsp - 8
    BY DEF IsFrame
  <2>. QED  BY <1>1, <1>7, <2>1 DEF IsFrame
<1>9. \A low \in Bounds(L, G) : low \in Bounds(L, F) \cup {top}
  <2>1. Bounds(L, G) = {F.low} \cup {e[k] + 8 * L[k] : k \in DOMAIN e}  BY <1>1 DEF Bounds
  <2>. QED  BY <1>5, <1>7, <2>1
<1>10. \A low \in Bounds(L, G) : Evaluates(low, b.h, b.marks, sp, dx, M)
  BY <1>3, <1>4, <1>6, <1>9
<1>11. Shape(L, G, b, sp, bp, dx, M)  BY <1>1, <1>3, <1>10 DEF Shape
<1>. QED  BY <1>8, <1>11

LEMMA PassGoes ==
  ASSUME NEW L, NEW h \in [1..Len(out) + 1 -> Stacks], Through(L, h), Active(L, h),
         PassLabel, out' = out
  PROVE  Active(L, h)' /\ reg' = reg
<1>. DEFINE b == h[pc + 1]
            x == ins
            F == Frame
            q == pc + 1
            l == x[2]
            e == [k \in DOMAIN F.heads \cup {l} |-> IF k = l THEN reg["rsp"] ELSE F.heads[k]]
            H == [F EXCEPT !.heads = e]
<1>0. x[1] \in {"label", "fn"} /\ mem' = mem /\ reg' = reg /\ pc' = q  BY DEF PassLabel, Is, Advance
<1>1. /\ Running(L, F, b, reg, mem) /\ IsFrame(L, F) /\ b \in Stacks /\ Takes(x, L, h[pc], b)
      /\ q \in 1..Len(out) + 1 /\ Len(frames) \in Nat \ {0}
  BY <1>0, AtPlace
<1>2. \A k \in 1..Len(frames) - 1 : Kept(mem, mem', frames[k], frames[k + 1].rsp + 8)
  BY <1>0, NothingStored
<1>3. Shape(L, F, b, reg["rsp"], reg["rbp"], reg["rdx"], mem)  BY <1>1 DEF Running
<1>4. \/ frames' = frames
      \/ x[1] = "label" /\ frames' = [frames EXCEPT ![Len(frames)] = H]
  <2>1. CASE x[1] = "label" /\ x[2][1] = "begin"
    <3>1. frames' = [frames EXCEPT ![Len(frames)].heads =
                       [k \in DOMAIN @ \cup {ins[2]} |-> IF k = ins[2] THEN reg["rsp"] ELSE @[k]]]
      BY <2>1 DEF PassLabel
    <3>2. frames' = [frames EXCEPT ![Len(frames)] = H]  BY <3>1 DEF Frame
    <3>. HIDE DEF H
    <3>. QED  BY <2>1, <3>2
  <2>2. CASE ~(x[1] = "label" /\ x[2][1] = "begin")  BY <2>2 DEF PassLabel
  <2>. QED  BY <2>1, <2>2
<1>5. \E G : /\ IsSeq(frames') /\ Len(frames') = Len(frames) /\ frames'[Len(frames)] = G
             /\ \A k \in 1..Len(frames) - 1 : frames'[k] = frames[k]
             /\ G.rsp = F.rsp /\ G.rbp = F.rbp /\ G.return = F.return
             /\ IsFrame(L, G) /\ Shape(L, G, b, reg["rsp"], reg["rbp"], reg["rdx"], mem)
  <2>1. CASE frames' = frames
    <3>1. IsSeq(frames') /\ Len(frames') = Len(frames) /\ frames'[Len(frames)] = F
      BY <2>1 DEF Active, Frame
    <3>. QED  BY <1>1, <1>3, <2>1, <3>1
  <2>2. CASE x[1] = "label" /\ frames' = [frames EXCEPT ![Len(frames)] = H]
    <3>1. b = Stack(L[l], <<>>, "body") /\ L[l] \in Nat
      <4>. HIDE DEF x, b, H
      <4>1. b = Stack(L[l], <<>>, "body")  BY <1>1, <2>2, TakesBy DEF Jumps
      <4>2. b.h = L[l]  BY <4>1 DEF Stack
      <4>. QED  BY <1>1, <4>1, <4>2, StackIs
    <3>2. /\ H.rsp = F.rsp /\ H.rbp = F.rbp /\ H.return = F.return
          /\ IsFrame(L, H) /\ Shape(L, H, b, reg["rsp"], reg["rbp"], reg["rdx"], mem)
      <4>1. /\ DOMAIN e = DOMAIN F.heads \cup {l} /\ e[l] = reg["rsp"]
            /\ \A k \in DOMAIN F.heads : k = l \/ e[k] = F.heads[k]
        OBVIOUS
      <4>2. /\ H.rsp = F.rsp /\ H.rbp = F.rbp /\ H.return = F.return /\ H.low = F.low
            /\ DOMAIN H = DOMAIN F /\ H.heads = e
        <5>1. DOMAIN F = {"rsp", "rbp", "return", "low", "heads"}  BY <1>1 DEF IsFrame
        <5>. HIDE DEF e, F
        <5>. QED  BY <5>1
      <4>3. Headed(F, l, reg["rsp"], H)
        <5>. HIDE DEF H, e, F, l
        <5>. QED  BY <4>1, <4>2 DEF Headed
      <4>. HIDE DEF H, e, F, l, b
      <4>4. IsFrame(L, H) /\ Shape(L, H, b, reg["rsp"], reg["rbp"], reg["rdx"], mem)
        BY <1>1, <1>3, <3>1, <4>3, HeadJoins
      <4>. QED  BY <4>2, <4>4
    <3>. HIDE DEF H, F
    <3>3. /\ IsSeq(frames') /\ Len(frames') = Len(frames) /\ frames'[Len(frames)] = H
          /\ \A k \in 1..Len(frames) - 1 : frames'[k] = frames[k]
      BY <2>2, FrameChanges
    <3>. QED  BY <3>2, <3>3
  <2>. QED  BY <1>4, <2>1, <2>2
<1>6. PICK G : /\ IsSeq(frames') /\ Len(frames') = Len(frames) /\ frames'[Len(frames)] = G
               /\ \A k \in 1..Len(frames) - 1 : frames'[k] = frames[k]
               /\ G.rsp = F.rsp /\ G.rbp = F.rbp /\ G.return = F.return
               /\ IsFrame(L, G) /\ Shape(L, G, b, reg["rsp"], reg["rbp"], reg["rdx"], mem)
  BY <1>5
<1>7. Running(L, G, b, reg', mem')
  <2>. HIDE DEF b, F
  <2>. QED  BY <1>0, <1>1, <1>6 DEF Running
<1>8. q \in 1..Len(out) /\ Running(L, G, Here(h, q), reg', mem')
  <2>1. b = h[q]  OBVIOUS
  <2>. HIDE DEF b, q, F
  <2>. QED  BY <1>1, <1>6, <1>7, <2>1, Arrive
<1>. HIDE DEF q
<1>9. pc' \in 1..Len(out) /\ Running(L, G, Here(h, pc'), reg', mem')  BY <1>0, <1>8
<1>. QED  BY <1>0, <1>1, <1>2, <1>6, <1>9, GoesOn

\* A call: the caller waits for the callee, with its alignment done.
LEMMA CallGoes ==
  ASSUME NEW L, NEW h \in [1..Len(out) + 1 -> Stacks], Through(L, h), Active(L, h),
         DOMAIN reg = Registers, CallFunction, out' = out
  PROVE  Active(L, h)' /\ DOMAIN reg' = Registers
<1>. DEFINE n == Len(frames)
            a == h[pc]
            b == h[pc + 1]
            x == ins
            F == Frame
            sp == reg["rsp"]
            bp == reg["rbp"]
            q == pc + 1
            G == NewFrame(sp - 8, bp, q)
            N == Put(sp - 8, q)
<1>0. x[1] = "call" /\ sp >= 8 /\ mem' = N /\ frames' = Append(frames, G)  BY DEF CallFunction, Is
<1>r. DOMAIN reg' = Registers /\ reg'["rsp"] = sp - 8 /\ reg'["rbp"] = bp
  BY DEF CallFunction, Registers
<1>j. PICK i \in Instructions("fn") : pc' = i  BY DEF CallFunction
<1>1. /\ a \in Stacks /\ b \in Stacks /\ Takes(x, L, a, b) /\ a.at # "out"
      /\ Running(L, F, a, reg, mem) /\ IsFrame(L, F) /\ sp \in Int /\ sp <= F.rsp
      /\ q \in 1..Len(out) + 1 /\ n \in Nat \ {0}
  BY <1>0, AtPlace
<1>2. Shape(L, F, a, sp, bp, reg["rdx"], mem)  BY <1>1 DEF Running
<1>3. F = frames[n]  BY DEF Frame
<1>4. /\ \A k \in 1..n : /\ IsFrame(L, frames[k])
                         /\ k = 1 => frames[k].return = 0 /\ frames[k].rsp + 8 <= StackTop
                         /\ k > 1 => frames[k].return \in 1..Len(out)
      /\ \A k, j \in 1..n : k <= j => frames[j].rsp <= frames[k].rsp
      /\ \A k \in 1..n - 1 :
           Suspended(L, frames[k], h[frames[k + 1].return], frames[k + 1].rsp + 8, frames[k + 1].rbp, mem)
  BY DEF Active
<1>5. \A k \in 1..n - 1 : Kept(mem, N, frames[k], frames[k + 1].rsp + 8)
  <2>. DEFINE r == F.rsp
  <2>1. r \in Int /\ sp <= r  BY <1>1 DEF IsFrame
  <2>. HIDE DEF r
  <2>2. sp - 8 \in Int /\ (sp - 8) + 8 <= r  BY <1>1, <2>1
  <2>. QED  BY <2>2, BelowKept DEF r
<1>6. Kept(mem, N, F, sp) /\ Stored(N, sp - 8, q)
  <2>1. sp - 8 \in Int /\ (sp - 8) + 8 <= sp  BY <1>1
  <2>. QED  BY <1>1, <2>1, PushKept, PutHas
<1>7. IsSeq(frames)  BY DEF Active
<1>8. /\ G.rsp = sp - 8 /\ G.rbp = bp /\ G.return = q /\ G.low = (sp - 8) - 8
      /\ DOMAIN G = {"rsp", "rbp", "return", "low", "heads"} /\ DOMAIN G.heads = {}
  BY DEF NewFrame
<1>9. (sp - 8) + 8 = sp  BY <1>1
<1>. HIDE DEF n, a, b, x, F, sp, bp, q, G, N
<1>10. IsFrame(L, G)
  <2>1. sp - 8 \in Int /\ (sp - 8) - 8 \in Int /\ (sp - 8) - 8 <= (sp - 8) - 8  BY <1>1
  <2>. QED  BY <1>8, <2>1 DEF IsFrame
<1>11. PICK c \in Steady : a = Padded(c, 2) /\ b = a
  <2>1. PICK c \in Steady : Aligns(x, c, a, b)  BY <1>0, <1>1, TakesBy
  <2>2. x[1] = "call" => a = Padded(c, 2) /\ b = a  BY <1>0, <2>1 DEF Aligns
  <2>. QED  BY <1>0, <2>2
<1>12. b \in Steady /\ b.at = "body" /\ b.marks # <<>> /\ b.h = b.marks[Len(b.marks)] + 2
  <2>1. b \in Steady  BY <1>11, PaddedIs
  <2>2. c.h \in Nat /\ c.marks \in Seq(Nat)  BY SteadyIs, StackIs
  <2>3. b.h = c.h + 2 /\ b.marks = Append(c.marks, c.h) /\ b.at = "body"
    BY <1>11 DEF Padded, Stack
  <2>. DEFINE e == Append(c.marks, c.h)
  <2>4. e # <<>> /\ e[Len(e)] = c.h  BY <2>2
  <2>. HIDE DEF e
  <2>. QED  BY <2>1, <2>3, <2>4 DEF e
<1>13. \A v : Shape(L, F, b, sp, bp, v, N)
  BY <1>1, <1>2, <1>6, <1>11, <1>12, SteadyShape
<1>14. Suspended(L, F, b, sp, bp, N)  BY <1>12, <1>13 DEF Suspended
<1>15. q \in 1..Len(out)
  <2>1. Running(L, F, b, reg, mem)  BY <1>1, <1>11
  <2>2. b = h[q]  BY DEF b, q
  <2>. QED  BY <1>1, <2>1, <2>2, Arrive
<1>16. i \in 1..Len(out) /\ Running(L, G, Here(h, i), reg', N)
  <2>1. i \in 1..Len(out) /\ out[i][1] = "fn"
    <3>1. DOMAIN out = 1..Len(out)  BY SeqFacts DEF Through
    <3>. QED  BY <3>1 DEF Instructions
  <2>. DEFINE s == h[i]
              t == h[i + 1]
              y == out[i]
  <2>2. t \in Stacks /\ Takes(y, L, s, t) /\ Here(h, i) = t /\ y[1] = "fn"
    <3>1. i + 1 \in 1..Len(out) + 1  BY <2>1, SeqFacts DEF Through
    <3>. QED  BY <2>1, <3>1 DEF Through, Here
  <2>. HIDE DEF s, t, y
  <2>3. t = Stack(0, <<>>, "entry")  BY <2>2, TakesBy
  <2>4. t.at = "entry"  BY <2>3 DEF Stack
  <2>5. Shape(L, G, t, sp - 8, bp, reg'["rdx"], N)
    BY <1>6, <1>8, <2>2, <2>4 DEF Shape, Evaluating
  <2>6. Running(L, G, t, reg', N)  BY <1>r, <2>4, <2>5 DEF Running
  <2>. QED  BY <2>1, <2>2, <2>6
<1>17. /\ IsSeq(frames') /\ Len(frames') = n + 1 /\ frames'[n + 1] = G
       /\ \A k \in 1..n : frames'[k] = frames[k]
  <2>1. PICK S : frames \in Seq(S)  BY <1>7 DEF IsSeq
  <2>. DEFINE T == S \cup {G}
              fs == Append(frames, G)
  <2>2. frames \in Seq(T) /\ G \in T  BY <2>1
  <2>. HIDE DEF T
  <2>3. fs \in Seq(T) /\ Len(fs) = n + 1 /\ fs[n + 1] = G /\ \A k \in 1..n : fs[k] = frames[k]
    BY <2>2 DEF n
  <2>. HIDE DEF fs
  <2>4. IsSeq(fs)  BY <2>3 DEF IsSeq
  <2>. QED  BY <1>0, <2>3, <2>4 DEF fs
<1>18. \A k \in 1..n + 1 : k = n + 1 \/ k \in 1..n  BY <1>1
<1>19. \A k \in 1..n + 1 :
         /\ IsFrame(L, frames'[k])
         /\ k = 1 => frames'[k].return = 0 /\ frames'[k].rsp + 8 <= StackTop
         /\ k > 1 => frames'[k].return \in 1..Len(out)
  <2>1. \A k \in 1..n : /\ IsFrame(L, frames'[k])
                        /\ k = 1 => frames'[k].return = 0 /\ frames'[k].rsp + 8 <= StackTop
                        /\ k > 1 => frames'[k].return \in 1..Len(out)
    BY <1>4, <1>17
  <2>2. n + 1 # 1  BY <1>1
  <2>3. IsFrame(L, frames'[n + 1]) /\ frames'[n + 1].return \in 1..Len(out)
    BY <1>8, <1>10, <1>15, <1>17
  <2>. QED  BY <1>18, <2>1, <2>2, <2>3
<1>20. \A k, j \in 1..n + 1 : k <= j => frames'[j].rsp <= frames'[k].rsp
  <2>. SUFFICES ASSUME NEW k \in 1..n + 1, NEW j \in 1..n + 1, k <= j
                PROVE  frames'[j].rsp <= frames'[k].rsp
    OBVIOUS
  <2>1. CASE j \in 1..n
    <3>1. k \in 1..n  BY <2>1, <1>1
    <3>. QED  BY <2>1, <3>1, <1>4, <1>17
  <2>2. CASE j = n + 1 /\ k = n + 1
    <3>1. frames'[j].rsp = sp - 8 /\ frames'[k].rsp = sp - 8 /\ sp - 8 \in Int
      BY <2>2, <1>1, <1>8, <1>17
    <3>. QED  BY <3>1
  <2>3. CASE j = n + 1 /\ k \in 1..n
    <3>1. n \in 1..n /\ k <= n  BY <2>3, <1>1
    <3>. DEFINE r == frames[n].rsp
                u == frames[k].rsp
    <3>2. r <= u /\ r \in Int /\ u \in Int /\ sp <= r
      BY <2>3, <3>1, <1>1, <1>3, <1>4 DEF IsFrame
    <3>3. frames'[j].rsp = sp - 8 /\ frames'[k].rsp = u  BY <2>3, <1>8, <1>17
    <3>. HIDE DEF r, u
    <3>4. sp - 8 <= u  BY <3>2, <1>1
    <3>. QED  BY <3>3, <3>4
  <2>. QED  BY <1>18, <2>1, <2>2, <2>3
<1>21. \A k \in 1..n :
         Suspended(L, frames'[k], h[frames'[k + 1].return], frames'[k + 1].rsp + 8,
                   frames'[k + 1].rbp, mem')
  <2>. SUFFICES ASSUME NEW k \in 1..n
                PROVE  Suspended(L, frames'[k], h[frames'[k + 1].return], frames'[k + 1].rsp + 8,
                                 frames'[k + 1].rbp, mem')
    OBVIOUS
  <2>1. CASE k = n
    <3>1. /\ frames'[k] = F /\ frames'[k + 1].return = q
          /\ frames'[k + 1].rsp + 8 = sp /\ frames'[k + 1].rbp = bp
      BY <2>1, <1>3, <1>8, <1>9, <1>17
    <3>2. h[q] = b  BY DEF b, q
    <3>. QED  BY <1>0, <1>14, <3>1, <3>2
  <2>2. CASE k # n
    <3>1. k \in 1..n - 1 /\ k + 1 \in 1..n  BY <2>2, <1>1
    <3>2. frames'[k] = frames[k] /\ frames'[k + 1] = frames[k + 1]  BY <3>1, <1>17
    <3>. DEFINE E == frames[k]
                s == h[frames[k + 1].return]
                se == frames[k + 1].rsp + 8
                be == frames[k + 1].rbp
    <3>3. Suspended(L, E, s, se, be, mem) /\ Kept(mem, N, E, se) /\ IsFrame(L, E)
      BY <3>1, <1>4, <1>5
    <3>. HIDE DEF E, s, se, be
    <3>4. \A dx : Shape(L, E, s, se, be, dx, N)  BY <3>3, ShapeKept DEF Suspended
    <3>5. Suspended(L, E, s, se, be, N)  BY <3>3, <3>4 DEF Suspended
    <3>. QED  BY <1>0, <3>2, <3>5 DEF E, s, se, be
  <2>. QED  BY <2>1, <2>2
<1>22. frames' # <<>> /\ (n + 1) - 1 = n
  <2>1. n + 1 # 0 /\ (n + 1) - 1 = n  BY <1>1
  <2>. QED  BY <2>1, <1>17
<1>23. Running(L, frames'[Len(frames')], Here(h, pc'), reg', mem')
  BY <1>0, <1>j, <1>16, <1>17
<1>24. Here(h, pc') = (IF out'[pc'][1] \in {"label", "fn"} THEN h[pc' + 1] ELSE h[pc'])
  BY DEF Here
<1>. QED
  BY <1>j, <1>r, <1>16, <1>17, <1>19, <1>20, <1>21, <1>22, <1>23, <1>24 DEF Active, Frame, Here

\* A return: what the function found, and its caller goes on.
LEMMA ReturnFinds ==
  ASSUME NEW L, NEW h \in [1..Len(out) + 1 -> Stacks], Through(L, h), Active(L, h),
         DOMAIN reg = Registers, Return
  PROVE  /\ reg["rsp"] = Frame.rsp /\ reg["rbp"] = Frame.rbp
         /\ Stored(mem, Frame.rsp, Frame.return)
         /\ pc' = Frame.return /\ reg'["rsp"] = Frame.rsp + 8 /\ reg'["rbp"] = Frame.rbp
         /\ process' = IF Frame.return = 0 THEN "exited" ELSE "runs"
<1>. DEFINE a == h[pc]
            b == h[pc + 1]
            x == ins
            F == Frame
<1>0. x[1] = "ret"  BY DEF Return, Is
<1>1. Takes(x, L, a, b) /\ a.at # "out" /\ Running(L, F, a, reg, mem)
  BY <1>0, AtPlace
<1>2. a.at = "left"
  <2>. HIDE DEF a, b, x
  <2>1. Returns(x, a, b)  BY <1>0, <1>1, TakesBy
  <2>. QED  BY <1>0, <2>1 DEF Returns, Stack
<1>3. reg["rsp"] = F.rsp /\ reg["rbp"] = F.rbp /\ Stored(mem, F.rsp, F.return)
  BY <1>1, <1>2 DEF Running, Shape
<1>4. mem[reg["rsp"]] = F.return  BY <1>3 DEF Stored
<1>5. pc' = F.return /\ process' = IF F.return = 0 THEN "exited" ELSE "runs"
  BY <1>4 DEF Return
<1>6. reg'["rsp"] = F.rsp + 8 /\ reg'["rbp"] = F.rbp
  <2>1. reg'["rsp"] = reg["rsp"] + 8 /\ reg'["rbp"] = reg["rbp"]
    BY DEF Return, Registers
  <2>. QED  BY <1>3, <2>1
<1>. QED  BY <1>3, <1>5, <1>6

\* ret: the caller goes on behind its call with what it waited for.
LEMMA ReturnGoes ==
  ASSUME NEW L, NEW h \in [1..Len(out) + 1 -> Stacks], Through(L, h), Active(L, h),
         DOMAIN reg = Registers, Return, out' = out
  PROVE  /\ DOMAIN reg' = Registers
         /\ \/ process' = "exited"
            \/ process' = "runs" /\ Active(L, h)'
<1>. DEFINE n == Len(frames)
            m == n - 1
            F == frames[n]
            E == frames[m]
            q == F.return
            s == h[q]
            sp == F.rsp + 8
            bp == F.rbp
<1>1. DOMAIN reg' = Registers /\ frames' = SubSeq(frames, 1, m) /\ mem' = mem  BY DEF Return
<1>2. /\ pc' = q /\ reg'["rsp"] = sp /\ reg'["rbp"] = bp
      /\ process' = IF q = 0 THEN "exited" ELSE "runs"
  BY ReturnFinds DEF Frame
<1>3. n \in Nat \ {0}  BY AtPlace
<1>4. /\ \A k \in 1..n : /\ IsFrame(L, frames[k])
                         /\ k = 1 => frames[k].return = 0 /\ frames[k].rsp + 8 <= StackTop
                         /\ k > 1 => frames[k].return \in 1..Len(out)
      /\ \A k, j \in 1..n : k <= j => frames[j].rsp <= frames[k].rsp
      /\ \A k \in 1..n - 1 :
           Suspended(L, frames[k], h[frames[k + 1].return], frames[k + 1].rsp + 8, frames[k + 1].rbp, mem)
      /\ IsSeq(frames)
  BY DEF Active
<1>. HIDE DEF n
<1>5. CASE n = 1
  <2>1. q = 0  BY <1>4, <1>5
  <2>. QED  BY <1>1, <1>2, <2>1
<1>6. CASE n # 1
  <2>1. m \in Nat \ {0} /\ m \in 1..n - 1 /\ m \in 1..n /\ m + 1 = n /\ n \in 1..n /\ n > 1  BY <1>3, <1>6
  <2>2. q \in 1..Len(out) /\ q \in 1..Len(out) + 1 /\ q # 0
    <3>1. q \in 1..Len(out)  BY <1>4, <2>1
    <3>2. Len(out) \in Nat  BY SeqFacts DEF Through
    <3>. QED  BY <3>1, <3>2
  <2>3. process' = "runs"  BY <1>2, <2>2
  <2>4. Suspended(L, E, s, sp, bp, mem) /\ IsFrame(L, E)  BY <1>4, <2>1
  <2>. HIDE DEF m, F, E, q, s, sp, bp
  <2>5. Running(L, E, s, reg', mem)
    <3>1. s.at = "body" /\ Shape(L, E, s, sp, bp, reg'["rdx"], mem)  BY <2>4 DEF Suspended
    <3>. QED  BY <1>2, <3>1 DEF Running
  <2>6. Running(L, E, Here(h, q), reg', mem)
    <3>1. s = h[q]  BY DEF s
    <3>. QED  BY <2>2, <2>4, <2>5, <3>1, Arrive
  <2>7. IsSeq(frames') /\ Len(frames') = m /\ \A k \in 1..m : frames'[k] = frames[k]
    <3>1. PICK S : frames \in Seq(S)  BY <1>4 DEF IsSeq
    <3>. DEFINE fs == SubSeq(frames, 1, m)
    <3>2. Len(frames) = n /\ m <= n  BY <2>1 DEF n
    <3>3. fs \in Seq(S) /\ Len(fs) = m /\ \A k \in 1..m : fs[k] = frames[k]
      BY <2>1, <3>1, <3>2
    <3>. HIDE DEF fs
    <3>4. IsSeq(fs)  BY <3>3 DEF IsSeq
    <3>. QED  BY <1>1, <3>3, <3>4 DEF fs
  <2>8. \A k \in 1..m : k \in 1..n  BY <2>1
  <2>9. \A k \in 1..m - 1 : k \in 1..n - 1 /\ k \in 1..m /\ k + 1 \in 1..m  BY <2>1
  <2>10. \A k \in 1..m : /\ IsFrame(L, frames'[k])
                         /\ k = 1 => frames'[k].return = 0 /\ frames'[k].rsp + 8 <= StackTop
                         /\ k > 1 => frames'[k].return \in 1..Len(out)
    BY <1>4, <2>7, <2>8
  <2>11. \A k, j \in 1..m : k <= j => frames'[j].rsp <= frames'[k].rsp
    BY <1>4, <2>7, <2>8
  <2>12. \A k \in 1..m - 1 :
           Suspended(L, frames'[k], h[frames'[k + 1].return], frames'[k + 1].rsp + 8,
                     frames'[k + 1].rbp, mem')
    BY <1>1, <1>4, <2>7, <2>9
  <2>13. frames' # <<>>  BY <2>1, <2>7
  <2>14. pc' \in 1..Len(out)  BY <1>2, <2>2
  <2>15. Running(L, frames'[Len(frames')], Here(h, pc'), reg', mem')
    <3>1. m \in 1..m  BY <2>1
    <3>2. frames'[Len(frames')] = E  BY <3>1, <2>7 DEF E
    <3>. QED  BY <1>1, <1>2, <2>6, <3>2
  <2>16. Here(h, pc') = (IF out'[pc'][1] \in {"label", "fn"} THEN h[pc' + 1] ELSE h[pc'])
    BY DEF Here
  <2>17. Active(L, h)'
    BY <2>7, <2>10, <2>11, <2>12, <2>13, <2>14, <2>15, <2>16 DEF Active, Frame, Here
  <2>. QED  BY <1>1, <2>3, <2>17
<1>. QED  BY <1>5, <1>6

-----------------------------------------------------------------------------
(* The program. *)

\* What compiles is a run of main(); a process does not print.
LEMMA CompileIs ==
  Compile => Parse \/ EndProgram \/ PrintNext
BY DEF Compile, ParseProgram

(* What main() does before a process runs is what PrintSpec has it do: all   *)
(* that is proved of the printed text holds of the text that is executed.    *)
LEMMA PrintsAsMain == Spec => PrintSpec
<1>1. Init => PrintInit  BY DEF Init
<1>2. [Next]_vars => [Parse \/ EndProgram \/ PrintNext]_printVars
  <2>1. Compile => Parse \/ EndProgram \/ PrintNext  BY CompileIs
  <2>2. Start => UNCHANGED printVars  BY DEF Start
  <2>3. Execute => UNCHANGED printVars  BY DEF Execute
  <2>4. Exited => UNCHANGED printVars  BY DEF Exited, vars
  <2>5. UNCHANGED vars => UNCHANGED printVars  BY DEF vars
  <2>. QED  BY <2>1, <2>2, <2>3, <2>4, <2>5 DEF Next
<1>. QED  BY <1>1, <1>2, PTL DEF Spec, PrintSpec

\* The loader calls main: the states of the text are those at the end of its work.
LEMMA StartGoes ==
  ASSUME PrintInv, StackInv, DOMAIN reg = Registers, Start
  PROVE  MachineInv'
<1>1. phase = "done" /\ Clean /\ out' = out /\ phase' = phase /\ process' = "runs"
  BY DEF Start, Clean, printVars
<1>2. IsSeq(out) /\ todo = <<>>  BY <1>1 DEF PrintInv, Consistent, Fitting
<1>3. PICK L \in Heights, b \in Stacks : Bounded(L, b)  BY <1>1 DEF StackInv
<1>4. b = Outside
  <2>1. Works(<<>>, L, Grove, b, Outside)  BY <1>2, <1>3 DEF Bounded
  <2>. QED  BY <2>1, NothingToDo
<1>. DEFINE n == Len(out)
            t == Text(out, L)
<1>5. n \in Nat /\ DOMAIN out = 1..n /\ Len(t) = n /\ \A i \in 1..n : t[i] = Effect(out[i], L)
  BY <1>2, SeqFacts, TextSeq
<1>6. PICK h \in [1..n + 1 -> Stacks] :
        /\ h[n + 1] = Outside
        /\ \A i \in 1..n : <<h[i], h[i + 1]>> \in t[i]
  <2>1. Path(t, Outside, Outside)  BY <1>3, <1>4 DEF Bounded, Run
  <2>. HIDE DEF t, n
  <2>. QED  BY <1>5, <2>1 DEF Path
<1>7. \A i \in 1..n : Takes(out[i], L, h[i], h[i + 1])
  <2>. SUFFICES ASSUME NEW i \in 1..n  PROVE Takes(out[i], L, h[i], h[i + 1])
    OBVIOUS
  <2>1. i \in 1..n + 1 /\ i + 1 \in 1..n + 1  BY <1>5
  <2>2. h[i] \in Stacks /\ h[i + 1] \in Stacks  BY <1>6, <2>1
  <2>3. <<h[i], h[i + 1]>> \in Effect(out[i], L)  BY <1>5, <1>6
  <2>. QED  BY <2>2, <2>3, EffectIs
<1>8. Through(L, h)  BY <1>2, <1>6, <1>7 DEF Through
<1>9. Through(L, h)'  BY <1>1, <1>8 DEF Through
<1>10. PICK i \in Instructions("fn") : pc' = i  BY DEF Start
<1>11. PICK rsp \in Rsp0 :
         /\ reg' = [reg EXCEPT !["rsp"] = rsp]
         /\ mem' = [a \in {rsp} \cup {StackTop + 8 * j : j \in 0..Programs[prog].words - 1} |-> 0]
         /\ frames' = <<NewFrame(rsp, reg["rbp"], 0)>>
  BY DEF Start
<1>. DEFINE G == NewFrame(rsp, reg["rbp"], 0)
<1>12. DOMAIN reg' = Registers /\ reg'["rsp"] = rsp /\ reg'["rbp"] = reg["rbp"]
  BY <1>11 DEF Registers
<1>13. rsp \in Int /\ rsp + 8 <= StackTop  BY MachineAssumption
<1>14. /\ G.rsp = rsp /\ G.rbp = reg["rbp"] /\ G.return = 0 /\ G.low = rsp - 8
       /\ DOMAIN G = {"rsp", "rbp", "return", "low", "heads"} /\ DOMAIN G.heads = {}
  BY DEF NewFrame
<1>15. Stored(mem', rsp, 0)
  <2>. DEFINE D == {rsp} \cup {StackTop + 8 * j : j \in 0..Programs[prog].words - 1}
  <2>1. rsp \in D  OBVIOUS
  <2>2. mem' = [a \in D |-> 0]  BY <1>11
  <2>. HIDE DEF D
  <2>. QED  BY <2>1, <2>2 DEF Stored
<1>16. frames' = <<G>>  BY <1>11
<1>. HIDE DEF G
<1>17. IsSeq(frames') /\ Len(frames') = 1 /\ frames'[1] = G /\ frames' # <<>>
  BY <1>16, Tuple
<1>18. IsFrame(L, G)
  <2>1. rsp - 8 \in Int /\ rsp - 8 <= rsp - 8  BY <1>13
  <2>. QED  BY <1>13, <1>14, <2>1 DEF IsFrame
<1>19. i \in 1..n /\ out[i][1] = "fn"  BY <1>5 DEF Instructions
<1>20. Running(L, G, Here(h, i), reg', mem')
  <2>. DEFINE s == h[i]
              e == h[i + 1]
              y == out[i]
  <2>1. e \in Stacks /\ Takes(y, L, s, e) /\ Here(h, i) = e /\ y[1] = "fn"
    <3>1. i + 1 \in 1..n + 1  BY <1>5, <1>19
    <3>. QED  BY <1>6, <1>7, <1>19, <3>1 DEF Here
  <2>. HIDE DEF s, e, y
  <2>2. e = Stack(0, <<>>, "entry")  BY <2>1, TakesBy
  <2>3. e.at = "entry"  BY <2>2 DEF Stack
  <2>4. Shape(L, G, e, rsp, reg["rbp"], reg'["rdx"], mem')
    BY <1>14, <1>15, <2>1, <2>3 DEF Shape, Evaluating
  <2>. QED  BY <1>12, <2>1, <2>3, <2>4 DEF Running
<1>21. Here(h, pc') = (IF out'[pc'][1] \in {"label", "fn"} THEN h[pc' + 1] ELSE h[pc'])
  BY <1>1 DEF Here
<1>22. Active(L, h)'
  <2>1. \A k \in 1..1 : k = 1  OBVIOUS
  <2>2. \A k \in 1..Len(frames') :
          /\ IsFrame(L, frames'[k])
          /\ k = 1 => frames'[k].return = 0 /\ frames'[k].rsp + 8 <= StackTop
          /\ k > 1 => frames'[k].return \in 1..Len(out')
    BY <1>13, <1>14, <1>17, <1>18, <2>1
  <2>3. \A k, j \in 1..Len(frames') : k <= j => frames'[j].rsp <= frames'[k].rsp
    BY <1>13, <1>14, <1>17, <2>1
  <2>4. \A k : k \notin 1..Len(frames') - 1  BY <1>17
  <2>5. pc' \in 1..Len(out')  BY <1>1, <1>10, <1>19
  <2>6. Running(L, frames'[Len(frames')], Here(h, pc'), reg', mem')  BY <1>10, <1>17, <1>20
  <2>. QED  BY <1>17, <1>21, <2>2, <2>3, <2>4, <2>5, <2>6 DEF Active, Frame, Here
<1>. QED  BY <1>1, <1>6, <1>9, <1>12, <1>22 DEF MachineInv

\* An instruction of the running function.
LEMMA ExecuteGoes ==
  ASSUME MachineInv, Execute
  PROVE  MachineInv'
<1>1. /\ process = "runs" /\ out' = out /\ phase' = phase /\ DOMAIN reg = Registers /\ phase = "done"
  <2>1. process = "runs"
    BY DEF Execute, Push, Pop, Move, Load, Store, Arithmetic, Reserve, SignExtend, Divide,
           Compare, SetByte, ZeroExtend, JumpTo, PassLabel, CallFunction, Return, Is
  <2>. QED  BY <2>1 DEF Execute, MachineInv, printVars
<1>2. PICK L \in Heights, h \in [1..Len(out) + 1 -> Stacks] : Through(L, h) /\ Active(L, h)
  BY <1>1 DEF MachineInv
<1>3. Through(L, h)'  BY <1>1, <1>2 DEF Through
<1>4. SUFFICES /\ DOMAIN reg' = Registers
               /\ \/ process' = "exited"
                  \/ process' = "runs" /\ Active(L, h)'
  BY <1>1, <1>2, <1>3 DEF MachineInv
<1>5. CASE Push
  <2>1. process' = "runs"  BY <1>1, <1>5 DEF Push
  <2>. QED  BY <1>1, <1>2, <1>5, <2>1, PushGoes
<1>6. CASE Pop
  <2>1. process' = "runs"  BY <1>1, <1>6 DEF Pop
  <2>. QED  BY <1>1, <1>2, <1>6, <2>1, PopGoes
<1>7. CASE Move
  <2>1. process' = "runs"  BY <1>1, <1>7 DEF Move
  <2>. QED  BY <1>1, <1>2, <1>7, <2>1, MoveGoes
<1>8. CASE Load \/ Compare \/ SetByte \/ ZeroExtend
  <2>1. process' = "runs"  BY <1>1, <1>8 DEF Load, Compare, SetByte, ZeroExtend
  <2>. QED  BY <1>1, <1>2, <1>8, <2>1, StillsGo
<1>9. CASE Store
  <2>1. process' = "runs"  BY <1>1, <1>9 DEF Store
  <2>. QED  BY <1>1, <1>2, <1>9, <2>1, StoreGoes
<1>10. CASE Arithmetic
  <2>1. process' = "runs"  BY <1>1, <1>10 DEF Arithmetic
  <2>. QED  BY <1>1, <1>2, <1>10, <2>1, ArithmeticGoes
<1>11. CASE Reserve
  <2>1. process' = "runs"  BY <1>1, <1>11 DEF Reserve
  <2>. QED  BY <1>1, <1>2, <1>11, <2>1, ReserveGoes
<1>12. CASE SignExtend \/ Divide
  <2>1. process' = "runs"  BY <1>1, <1>12 DEF SignExtend, Divide
  <2>. QED  BY <1>1, <1>2, <1>12, <2>1, DivisionGoes
<1>13. CASE JumpTo
  <2>1. process' = "runs"  BY <1>1, <1>13 DEF JumpTo
  <2>. QED  BY <1>1, <1>2, <1>13, <2>1, JumpGoes
<1>14. CASE PassLabel
  <2>1. process' = "runs"  BY <1>1, <1>14 DEF PassLabel
  <2>. QED  BY <1>1, <1>2, <1>14, <2>1, PassGoes
<1>15. CASE CallFunction
  <2>1. process' = "runs"  BY <1>1, <1>15 DEF CallFunction
  <2>. QED  BY <1>1, <1>2, <1>15, <2>1, CallGoes
<1>16. CASE Return  BY <1>1, <1>2, <1>16, ReturnGoes
<1>. QED
  BY <1>5, <1>6, <1>7, <1>8, <1>9, <1>10, <1>11, <1>12, <1>13, <1>14, <1>15, <1>16 DEF Execute

\* Initially nothing runs.
LEMMA MachineInvInit ==
  Init => MachineInv
BY DEF Init, MachineInv

\* Every step keeps the invariant, by the action that it is.
LEMMA MachineInvStep ==
  ASSUME PrintInv, StackInv, MachineInv, [Next]_vars
  PROVE  MachineInv'
<1>1. CASE Compile
  <2>1. Parse \/ EndProgram \/ PrintNext  BY <1>1, CompileIs
  <2>2. phase # "done"
    BY <2>1 DEF Parse, EndProgram, PrintNext, Printing, Call, CallNull, PrintAsm, Error,
                PrintLiteral, EndLiterals, PrintDefinition, Finish
  <2>3. process = "waits"  BY <2>2 DEF MachineInv
  <2>4. process' = process /\ reg' = reg  BY <1>1 DEF Compile, machineVars
  <2>. QED  BY <2>3, <2>4 DEF MachineInv
<1>2. CASE Start
  <2>1. DOMAIN reg = Registers  BY DEF MachineInv
  <2>. QED  BY <1>2, <2>1, StartGoes
<1>3. CASE Execute  BY <1>3, ExecuteGoes
<1>4. CASE UNCHANGED vars
  <2>1. /\ process' = process /\ reg' = reg /\ phase' = phase /\ out' = out
        /\ frames' = frames /\ mem' = mem /\ pc' = pc
    BY <1>4 DEF vars, printVars, machineVars
  <2>2. CASE process # "runs"  BY <2>1, <2>2 DEF MachineInv
  <2>3. CASE process = "runs"
    <3>1. PICK L \in Heights, h \in [1..Len(out) + 1 -> Stacks] : Through(L, h) /\ Active(L, h)
      BY <2>3 DEF MachineInv
    <3>2. Through(L, h)'  BY <2>1, <3>1 DEF Through
    <3>3. Active(L, h)'  BY <2>1, <3>1 DEF Active, Frame, Here
    <3>. QED  BY <2>1, <3>1, <3>2, <3>3 DEF MachineInv
  <2>. QED  BY <2>2, <2>3
<1>5. CASE Exited  BY <1>4, <1>5 DEF Exited
<1>. QED  BY <1>1, <1>2, <1>3, <1>4, <1>5 DEF Next

(* The invariant of the running program: every active call is at a state of  *)
(* its text that the proof of gen()'s stack effect knows, with its words,    *)
(* its saved rbp and its return address untouched.                           *)
THEOREM MachineInvariance ==
  Spec => []MachineInv
<1>1. Spec => [](PrintInv /\ StackInv)  BY PrintsAsMain, StackInvariance, PTL
<1>2. PrintInv /\ StackInv /\ MachineInv /\ [Next]_vars => MachineInv'  BY MachineInvStep
<1>. QED  BY <1>1, <1>2, MachineInvInit, PTL DEF Spec

-----------------------------------------------------------------------------
(* The theorems. *)

\* A call is printed behind an alignment only.
LEMMA Aligned ==
  MachineInv => CallAligned
<1>. SUFFICES ASSUME MachineInv, Is({"call"})  PROVE reg["rsp"] % 16 = 0
  BY DEF CallAligned
<1>1. process = "runs" /\ ins[1] = "call"  BY DEF Is
<1>2. PICK L \in Heights, h \in [1..Len(out) + 1 -> Stacks] : Through(L, h) /\ Active(L, h)
  BY <1>1 DEF MachineInv
<1>. DEFINE a == h[pc]
            b == h[pc + 1]
            x == ins
            F == Frame
            sp == reg["rsp"]
            dx == reg["rdx"]
<1>3. /\ a \in Stacks /\ b \in Stacks /\ Takes(x, L, a, b) /\ a.at # "out" /\ x[1] = "call"
      /\ Running(L, F, a, reg, mem) /\ IsFrame(L, F)
  BY <1>1, <1>2, AtPlace
<1>4. Shape(L, F, a, sp, reg["rbp"], dx, mem)  BY <1>3 DEF Running
<1>. HIDE DEF a, b, x, F, sp, dx
<1>5. PICK c \in Steady : Aligns(x, c, a, b)  BY <1>3, TakesBy
<1>6. a = Padded(c, 2)  BY <1>3, <1>5 DEF Aligns
<1>. DEFINE low == F.low
            hh == c.h
            m == c.marks
<1>7. hh \in Nat /\ m \in Seq(Nat) /\ low \in Int /\ low \in Bounds(L, F)
  BY <1>3, SteadyIs, StackIs, BoundsAre DEF IsFrame
<1>8. a.h = hh + 2 /\ a.marks = Append(m, hh) /\ a.at = "body"  BY <1>6 DEF Padded, Stack
<1>9. Evaluates(low, hh + 2, Append(m, hh), sp, dx, mem)
  <2>1. Evaluates(low, a.h, a.marks, sp, dx, mem)  BY <1>4, <1>7, <1>8 DEF Shape, Evaluating
  <2>. QED  BY <1>8, <2>1
<1>. HIDE DEF low, hh, m
<1>10. sp % 16 = 0  BY <1>7, <1>9, EvaluatesAligned
<1>. QED  BY <1>10 DEF sp

\* A pop of an expression finds a word the expression pushed.
LEMMA BelowVariables ==
  MachineInv => StackBelowVariables
<1>. SUFFICES ASSUME MachineInv, Is({"pop"}), ins[2] # "rbp"  PROVE reg["rsp"] + 8 <= Frame.low
  BY DEF StackBelowVariables
<1>1. process = "runs" /\ ins[1] = "pop"  BY DEF Is
<1>2. PICK L \in Heights, h \in [1..Len(out) + 1 -> Stacks] : Through(L, h) /\ Active(L, h)
  BY <1>1 DEF MachineInv
<1>. DEFINE a == h[pc]
            b == h[pc + 1]
            x == ins
            F == Frame
            sp == reg["rsp"]
            dx == reg["rdx"]
<1>3. /\ a \in Stacks /\ b \in Stacks /\ Takes(x, L, a, b) /\ a.at # "out" /\ x[1] = "pop"
      /\ Running(L, F, a, reg, mem) /\ IsFrame(L, F) /\ x[2] # "rbp"
  BY <1>1, <1>2, AtPlace
<1>4. Shape(L, F, a, sp, reg["rbp"], dx, mem)  BY <1>3 DEF Running
<1>. HIDE DEF a, b, x, F, sp, dx
<1>5. Pops(x, a, b)
  <2>1. Pops(x, a, b) \/ Returns(x, a, b)  BY <1>3, TakesBy
  <2>2. ~Returns(x, a, b)  BY <1>3 DEF Returns
  <2>. QED  BY <2>1, <2>2
<1>6. a = Raise(b, 1) /\ b.at = "body"
  <2>1. b \in Steady \/ b \in Padding  BY <1>5 DEF Pops
  <2>2. b.at = "body"
    <3>1. CASE b \in Steady  BY <3>1, SteadyIs
    <3>2. CASE b \in Padding  BY <3>2 DEF Padding, Padded, Stack
    <3>. QED  BY <2>1, <3>1, <3>2
  <2>. QED  BY <1>5, <2>2 DEF Pops
<1>7. a.h = b.h + 1 /\ a.at = "body" /\ b.h \in Nat  BY <1>3, <1>6, RaiseIs, StackIs
<1>. DEFINE low == F.low
            hh == b.h
<1>8. low \in Int /\ low \in Bounds(L, F) /\ hh \in Nat  BY <1>3, <1>7, BoundsAre DEF IsFrame
<1>9. sp \in Nat /\ sp + 8 * (hh + 1) <= low
  <2>1. Evaluates(low, a.h, a.marks, sp, dx, mem)  BY <1>4, <1>7, <1>8 DEF Shape, Evaluating
  <2>2. sp \in Nat /\ sp + 8 * a.h <= low  BY <2>1 DEF Evaluates
  <2>. QED  BY <1>7, <2>2
<1>. HIDE DEF low, hh
<1>10. sp + 8 <= low  BY <1>8, <1>9
<1>. QED  BY <1>10 DEF sp, low, F

\* A loop is at its head again: it has pushed no less than it has popped.
LEMMA HeadKept ==
  MachineInv => LoopKeepsStack
<1>. SUFFICES ASSUME MachineInv, Is({"label"}), ins[2] \in DOMAIN Frame.heads
              PROVE  reg["rsp"] <= Frame.heads[ins[2]]
  BY DEF LoopKeepsStack
<1>1. process = "runs" /\ ins[1] = "label"  BY DEF Is
<1>2. PICK L \in Heights, h \in [1..Len(out) + 1 -> Stacks] : Through(L, h) /\ Active(L, h)
  BY <1>1 DEF MachineInv
<1>. DEFINE a == h[pc]
            b == h[pc + 1]
            x == ins
            F == Frame
            sp == reg["rsp"]
            dx == reg["rdx"]
            l == x[2]
<1>3. Takes(x, L, a, b) /\ x[1] = "label" /\ Running(L, F, b, reg, mem) /\ IsFrame(L, F) /\ l \in DOMAIN F.heads
  BY <1>1, <1>2, AtPlace
<1>4. Shape(L, F, b, sp, reg["rbp"], dx, mem)  BY <1>3 DEF Running
<1>. HIDE DEF a, b, x, F, sp, dx
<1>5. b = Stack(L[l], <<>>, "body")  BY <1>3, TakesBy DEF Jumps
<1>6. b.h = L[l] /\ b.marks = <<>> /\ b.at = "body"  BY <1>5 DEF Stack
<1>. DEFINE top == F.heads[l]
            n == L[l]
<1>7. top \in Int /\ n \in Nat /\ top + 8 * n \in Bounds(L, F)  BY <1>3 DEF IsFrame, Bounds
<1>8. Evaluates(top + 8 * n, n, <<>>, sp, dx, mem)  BY <1>4, <1>6, <1>7 DEF Shape, Evaluating
<1>. HIDE DEF top, n
<1>9. sp \in Nat /\ sp + 8 * n <= top + 8 * n  BY <1>8, EvaluatesLevel
<1>10. sp <= top  BY <1>7, <1>9
<1>. QED  BY <1>10 DEF sp, top, F, x

(* Whatever a program computes, however deep its calls are nested in its     *)
(* expressions and each other, and wherever the stack began: a call finds    *)
(* rsp a multiple of 16 (the comment of ND_FUNCALL).                         *)
THEOREM CallsAligned == Spec => []CallAligned
BY MachineInvariance, Aligned, PTL

(* No pop of a running function but that of rbp takes a word of its          *)
(* variables or of what lies above them, on any path through loops, branches *)
(* and calls: what the words of an expression are is settled by the pushes   *)
(* before it.                                                                *)
THEOREM VariablesAbove == Spec => []StackBelowVariables
BY MachineInvariance, BelowVariables, PTL

(* However often a loop runs, and whatever its statements, loops and         *)
(* branches leave on the stack: it never takes off a word that was there at  *)
(* its first visit (ND_WHILE, ND_FOR; gen() of every statement pushes at     *)
(* least what is popped behind it).                                          *)
THEOREM LoopsKeep == Spec => []LoopKeepsStack
BY MachineInvariance, HeadKept, PTL

(* A function returns with the rsp and rbp it was called with, to where it   *)
(* was called from, from any place of it and through any number of calls of  *)
(* others: the epilogue finds in its frame what the prologue put there       *)
(* (ND_RETURN, ND_FUNCDEF), unless the program stores outside its variables. *)
THEOREM FramesRestored == Spec => FrameRestored
<1>1. MachineInv => [Return => /\ reg'["rsp"] = Frame.rsp + 8
                              /\ reg'["rbp"] = Frame.rbp
                              /\ pc' = Frame.return]_vars
  <2>. SUFFICES ASSUME MachineInv, Return
                PROVE  /\ reg'["rsp"] = Frame.rsp + 8
                       /\ reg'["rbp"] = Frame.rbp
                       /\ pc' = Frame.return
    OBVIOUS
  <2>1. process = "runs" /\ DOMAIN reg = Registers  BY DEF Return, Is, MachineInv
  <2>2. PICK L \in Heights, h \in [1..Len(out) + 1 -> Stacks] : Through(L, h) /\ Active(L, h)
    BY <2>1 DEF MachineInv
  <2>. QED  BY <2>1, <2>2, ReturnFinds
<1>. QED  BY <1>1, MachineInvariance, PTL DEF FrameRestored
=============================================================================
