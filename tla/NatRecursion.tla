------------------------------ MODULE NatRecursion ------------------------------
(***************************************************************************)
(* Induction and recursion over 0..n without operator parameters, for the  *)
(* proofs about functions the specifications define by recursion.  A       *)
(* recursive function is CHOOSE f : f = [i \in 0..n |-> ...], so a proof    *)
(* about it first needs some f that satisfies the equation.                *)
(***************************************************************************)
EXTENDS Integers, NaturalsInduction, WellFoundedInduction, TLAPS

\* A set of naturals has a least element.
LEMMA Least ==
  ASSUME NEW T, T \subseteq Nat, T # {}
  PROVE  \E x \in T : \A y \in T : x <= y
<1>1. \E x \in T : \A y \in T : ~ (<<y, x>> \in OpToRel(<, Nat))
  BY NatLessThanWellFounded, WFMin, Zenon
<1>2. PICK x \in T : \A y \in T : ~ (<<y, x>> \in OpToRel(<, Nat))
  BY <1>1
<1>3. ASSUME NEW y \in T PROVE x <= y
  <2>1. x \in Nat /\ y \in Nat OBVIOUS
  <2>2. y < x => <<y, x>> \in OpToRel(<, Nat)  BY <2>1 DEF OpToRel
  <2>3. ~(y < x)  BY <2>2, <1>2, Zenon
  <2>. QED BY <2>1, <2>3
<1>. QED BY <1>2, <1>3

\* A set that holds 0 and each number up to n whose predecessor it holds.
LEMMA Induct ==
  ASSUME NEW n \in Nat, NEW T, 0 \in T,
         \A i \in 1..n : i - 1 \in T => i \in T
  PROVE  0..n \subseteq T
<1>1. SUFFICES ASSUME (0..n) \ T # {} PROVE FALSE
  OBVIOUS
<1>. DEFINE R == (0..n) \ T
<1>0. R \subseteq Nat /\ R # {}  BY <1>1
<1>2. PICK x \in R : \A y \in R : x <= y
  <2>. HIDE DEF R
  <2>. QED  BY <1>0, Least
<1>3. x # 0 /\ x - 1 \in 0..n /\ x \in 1..n BY <1>2
<1>4. x - 1 \in T BY <1>2, <1>3
<1>. QED BY <1>2, <1>3, <1>4

\* step[i] takes value i - 1 of a recursion to value i.
Steps(n, S) == [1..n -> [S -> S]]

IsRun(f, n, S, s0, step) ==
  /\ f \in [0..n -> S]
  /\ f[0] = s0
  /\ \A i \in 1..n : f[i] = step[i][f[i - 1]]

\* Every recursion of that form has a solution.
LEMMA Recursion ==
  ASSUME NEW n \in Nat, NEW S, NEW s0 \in S, NEW step \in Steps(n, S)
  PROVE  \E f : IsRun(f, n, S, s0, step)
<1>. USE DEF Steps, IsRun
<1>. DEFINE F(m, f) == IsRun(f, m, S, s0, step)
            T == {m \in 0..n : \E f : F(m, f)}
<1>1. 0 \in T
  <2>. DEFINE f == [i \in 0..0 |-> s0]
  <2>1. F(0, f) OBVIOUS
  <2>. HIDE DEF F, f
  <2>. QED BY <2>1
<1>2. ASSUME NEW m \in 1..n, m - 1 \in T PROVE m \in T
  <2>1. PICK f : F(m - 1, f) BY <1>2
  <2>2. PICK v \in S : v = step[m][f[m - 1]]
    <3>1. f[m - 1] \in S /\ step[m] \in [S -> S]  BY <2>1
    <3>. QED  BY <3>1
  <2>. DEFINE g == [i \in 0..m |-> IF i = m THEN v ELSE f[i]]
  <2>3. \A i \in 0..m : i # m => i \in 0..m - 1  OBVIOUS
  <2>4. g \in [0..m -> S]  BY <2>1, <2>3
  <2>5. g[0] = s0  BY <2>1
  <2>6. ASSUME NEW i \in 1..m  PROVE g[i] = step[i][g[i - 1]]
    <3>1. i \in 0..m /\ i - 1 \in 0..m /\ i - 1 # m  OBVIOUS
    <3>2. g[i - 1] = f[i - 1]  BY <3>1
    <3>3. CASE i = m  BY <2>2, <3>1, <3>2, <3>3
    <3>4. CASE i # m
      <4>1. g[i] = f[i] /\ i \in 1..m - 1  BY <3>1, <3>4
      <4>. QED  BY <2>1, <3>2, <4>1
    <3>. QED  BY <3>3, <3>4
  <2>7. F(m, g)  BY <2>4, <2>5, <2>6
  <2>. HIDE DEF F, g
  <2>. QED BY <2>7
<1>3. n \in T 
  <2>. HIDE DEF T
  <2>1. 0..n \subseteq T BY <1>1, <1>2, Induct
  <2>. QED BY <2>1
<1>. QED BY <1>3
=============================================================================
