--------------------------- MODULE IntervalInduction ---------------------------
(***************************************************************************)
(* Induction and recursion up to a number, for proofs about sequences and  *)
(* recursive functions. A property is a set and a step a function: the     *)
(* theorems of the library take operators instead, which no backend can    *)
(* instantiate.                                                            *)
(***************************************************************************)
EXTENDS Integers, TLAPS, FiniteSetTheorems

\* What holds of 0 and passes from each number to the next holds of all up to n: the
\* counterexamples, shifted down by one, would be an injection of a finite set into
\* itself that misses the last of them.
LEMMA InductionTo ==
  ASSUME NEW n \in Nat, NEW P, 0 \in P, \A i \in 0..n - 1 : i \in P => i + 1 \in P
  PROVE  0..n \subseteq P
<1>1. SUFFICES ASSUME NEW s \in 0..n, s \notin P PROVE FALSE
  OBVIOUS
<1> DEFINE B == {i \in 1..s : i \notin P}
           f == [i \in B |-> i - 1]
<1>2. \A i \in B : i - 1 \in B
  <2>1. SUFFICES ASSUME NEW i \in B PROVE i - 1 \in B
    OBVIOUS
  <2>2. i - 1 \in 0..n - 1 /\ (i - 1) + 1 = i
    OBVIOUS
  <2>3. i - 1 \notin P
    BY <2>2
  <2> QED
    BY <2>2, <2>3
<1>3. f \in Injection(B, B)
  BY <1>2 DEF Injection, IsInjective
<1>4. IsFiniteSet(B)
  <2>1. IsFiniteSet(1..s)
    BY FS_Interval
  <2>2. B \subseteq 1..s
    OBVIOUS
  <2> HIDE DEF B
  <2> QED
    BY <2>1, <2>2, FS_Subset
<1>5. f \in Surjection(B, B)
  <2> HIDE DEF B, f
  <2> QED
    BY <1>3, <1>4, FS_Injection
<1>6. s \in B
  BY <1>1
<1>7. PICK i \in B : f[i] = s
  BY <1>5, <1>6 DEF Surjection
<1> QED
  BY <1>7

\* A step function and a first value make a function of the numbers up to n.
Recurs(u, n, first, step) == u[0] = first /\ \A i \in 1..n : u[i] = step[i][u[i - 1]]

\* There is such a function.
LEMMA RecursionTo ==
  ASSUME NEW n \in Nat, NEW V, NEW first \in V, NEW step \in [1..n -> [V -> V]]
  PROVE  \E u \in [0..n -> V] : Recurs(u, n, first, step)
<1> DEFINE Good(m, u) == Recurs(u, m, first, step)
           P == {m \in 0..n : \E u \in [0..m -> V] : Good(m, u)}
<1>1. 0 \in P
  <2> DEFINE u == [i \in 0..0 |-> first]
  <2>1. u \in [0..0 -> V] /\ Good(0, u)
    BY DEF Recurs
  <2> HIDE DEF u, Good
  <2>2. 0 \in 0..n /\ \E v \in [0..0 -> V] : Good(0, v)
    BY <2>1
  <2> QED
    BY <2>2
<1>2. ASSUME NEW m \in 0..n - 1, m \in P PROVE m + 1 \in P
  <2>1. PICK u \in [0..m -> V] : Good(m, u)
    BY <1>2
  <2> DEFINE w == [i \in 0..m + 1 |-> IF i = m + 1 THEN step[m + 1][u[m]] ELSE u[i]]
  <2>2. m + 1 \in 1..n /\ m \in 0..m /\ \A i \in 0..m + 1 : i = m + 1 \/ i \in 0..m
    OBVIOUS
  <2>3. step[m + 1][u[m]] \in V
    BY <2>2
  <2>4. w \in [0..m + 1 -> V]
    BY <2>2, <2>3
  <2>5. ASSUME NEW i \in 1..m + 1 PROVE w[i] = step[i][w[i - 1]]
    <3>1. CASE i = m + 1
      BY <3>1, <2>2
    <3>2. CASE i \in 1..m
      <4>1. i \in 0..m + 1 /\ i - 1 \in 0..m + 1 /\ i # m + 1 /\ i - 1 # m + 1
        BY <3>2
      <4>2. w[i] = u[i] /\ w[i - 1] = u[i - 1]
        BY <4>1
      <4> QED
        BY <2>1, <3>2, <4>2 DEF Recurs
    <3> QED
      BY <3>1, <3>2
  <2>6. w[0] = first
    BY <2>1, <2>2 DEF Recurs
  <2>7. Good(m + 1, w)
    BY <2>5, <2>6 DEF Recurs
  <2> HIDE DEF w, Good
  <2>8. m + 1 \in 0..n /\ \E v \in [0..m + 1 -> V] : Good(m + 1, v)
    BY <2>2, <2>4, <2>7
  <2> QED
    BY <2>8
<1>3. n \in P
  <2> HIDE DEF P
  <2>1. 0..n \subseteq P
    BY <1>1, <1>2, InductionTo
  <2> QED
    BY <2>1
<1> QED
  BY <1>3
=============================================================================
