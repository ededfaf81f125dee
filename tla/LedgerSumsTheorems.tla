------------------------- MODULE LedgerSumsTheorems -------------------------
(***************************************************************************)
(* What the accounting proofs need to know of Total.  The induction        *)
(* theorems of the library take an operator; the proofs below use instead  *)
(* that a non-empty set of naturals has a least element, applied to the    *)
(* set of the places where a claim would fail.                             *)
(***************************************************************************)
EXTENDS LedgerSums, WellFoundedInduction, TLAPS

\* A non-empty set of natural numbers has a least element.
LEMMA LeastElement ==
  ASSUME NEW T, T \subseteq Nat, T # {}
  PROVE  \E m \in T : \A k \in T : m <= k
<1>1. \E m \in T : \A k \in T : ~(<<k, m>> \in OpToRel(<, Nat))
  BY NatLessThanWellFounded, WFMin
<1>2. OpToRel(<, Nat) = {ss \in Nat \X Nat : ss[1] < ss[2]}
  BY DEF OpToRel
<1>3. PICK m \in T : \A k \in T : ~(<<k, m>> \in OpToRel(<, Nat))
  BY <1>1
<1>4. ASSUME NEW k \in T PROVE m <= k
  <2>1. ~(k < m)
    BY <1>2, <1>3
  <2>2. QED BY <2>1
<1>5. QED BY <1>4

\* A claim about 0..n that holds at 0 and passes from k - 1 to k holds on 0..n:
\* the set Good of the places where it holds is all of 0..n.
LEMMA BoundedInduction ==
  ASSUME NEW n \in Nat, NEW Good,
         0 \in Good,
         \A k \in 1..n : (k - 1) \in Good => k \in Good
  PROVE  \A k \in 0..n : k \in Good
<1> DEFINE Bad == {k \in 0..n : k \notin Good}
<1>1. SUFFICES ASSUME Bad # {} PROVE FALSE
  OBVIOUS
<1>2. PICK m \in Bad : \A k \in Bad : m <= k
  <2>1. Bad \subseteq Nat
    OBVIOUS
  <2>2. QED BY <1>1, <2>1, LeastElement
<1>3. m \in 1..n
  BY <1>2
<1>4. (m - 1) \in 0..n /\ (m - 1) \notin Bad
  BY <1>2, <1>3
<1>5. QED BY <1>2, <1>3, <1>4

\* A recursion on 0..n: g[k] takes the value at k - 1 to the one at k.
Steps(n, V)          == [1..n -> [V -> V]]
Recursion(n, V, v, g) ==
  {s \in [0..n -> V] : s[0] = v /\ \A k \in 1..n : s[k] = g[k][s[k - 1]]}

\* It has a solution.
LEMMA RecursionExists ==
  ASSUME NEW n \in Nat, NEW V, NEW v \in V, NEW g \in Steps(n, V)
  PROVE  Recursion(n, V, v, g) # {}
<1> USE DEF Steps
<1> DEFINE Solves(s, m) == s[0] = v /\ \A k \in 1..m : s[k] = g[k][s[k - 1]]
           Good == {m \in 0..n : \E s \in [0..m -> V] : Solves(s, m)}
<1>1. 0 \in Good
  <2>1. [k \in 0..0 |-> v] \in [0..0 -> V] /\ Solves([k \in 0..0 |-> v], 0)
    OBVIOUS
  <2>2. \E s \in [0..0 -> V] : Solves(s, 0)
    <3> HIDE DEF Solves
    <3>1. QED BY <2>1
  <2>3. QED BY <2>2
<1>2. ASSUME NEW m \in 1..n, (m - 1) \in Good PROVE m \in Good
  <2>1. PICK s \in [0..(m - 1) -> V] : Solves(s, m - 1)
    BY <1>2
  <2> DEFINE t == [k \in 0..m |-> IF k = m THEN g[m][s[m - 1]] ELSE s[k]]
  <2>2. t \in [0..m -> V]
    <3>1. ASSUME NEW k \in 0..m, k # m PROVE k \in 0..(m - 1)
      BY <3>1
    <3>2. s[m - 1] \in V /\ g[m] \in [V -> V]
      BY <1>2
    <3>3. g[m][s[m - 1]] \in V
      BY <3>2
    <3>4. QED BY <3>1, <3>3
  <2>3. t[0] = v
    BY <2>1
  <2>4. ASSUME NEW k \in 1..m PROVE t[k] = g[k][t[k - 1]]
    <3>1. CASE k = m
      BY <3>1
    <3>2. CASE k # m
      <4>1. k \in 1..(m - 1) /\ (k - 1) \in 0..(m - 1) /\ k - 1 # m
        BY <3>2
      <4>2. QED BY <2>1, <4>1, <3>2
    <3>3. QED BY <3>1, <3>2
  <2>5. Solves(t, m)
    BY <2>3, <2>4
  <2>6. \E u \in [0..m -> V] : Solves(u, m)
    <3> HIDE DEF Solves, t
    <3>1. QED BY <2>2, <2>5
  <2>7. QED
    <3> HIDE DEF Solves
    <3>1. QED BY <2>6
<1> HIDE DEF Good
<1>3. \A k \in 0..n : k \in Good
  BY <1>1, <1>2, BoundedInduction
<1>4. n \in Good
  BY <1>3
<1>5. QED BY <1>4 DEF Good, Recursion

\* The recursive definition has a solution: some function takes the partial
\* sums of f on 0..n.
LEMMA PartialSumsExist ==
  ASSUME NEW n \in Nat, NEW f \in [1..n -> Nat]
  PROVE  \E s \in [0..n -> Nat] : s[0] = 0 /\ \A k \in 1..n : s[k] = s[k - 1] + f[k]
<1> DEFINE IsSum(s, m) == s[0] = 0 /\ \A k \in 1..m : s[k] = s[k - 1] + f[k]
           Good == {m \in 0..n : \E s \in [0..m -> Nat] : IsSum(s, m)}
<1>1. 0 \in Good
  <2>1. [k \in 0..0 |-> 0] \in [0..0 -> Nat] /\ IsSum([k \in 0..0 |-> 0], 0)
    OBVIOUS
  <2>2. \E s \in [0..0 -> Nat] : IsSum(s, 0)
    <3> HIDE DEF IsSum
    <3>1. QED BY <2>1
  <2>3. QED BY <2>2
<1>2. ASSUME NEW m \in 1..n, (m - 1) \in Good PROVE m \in Good
  <2>1. PICK s \in [0..(m - 1) -> Nat] : IsSum(s, m - 1)
    BY <1>2
  <2> DEFINE t == [k \in 0..m |-> IF k = m THEN s[m - 1] + f[m] ELSE s[k]]
  <2>2. t \in [0..m -> Nat]
    <3>1. ASSUME NEW k \in 0..m, k # m PROVE k \in 0..(m - 1)
      BY <3>1
    <3>2. s[m - 1] \in Nat /\ f[m] \in Nat
      BY <1>2
    <3>3. QED BY <3>1, <3>2
  <2>3. t[0] = 0
    BY <2>1
  <2>4. ASSUME NEW k \in 1..m PROVE t[k] = t[k - 1] + f[k]
    <3>1. CASE k = m
      BY <3>1
    <3>2. CASE k # m
      <4>1. k \in 1..(m - 1) /\ (k - 1) \in 0..(m - 1) /\ k - 1 # m
        BY <3>2
      <4>2. QED BY <2>1, <4>1, <3>2
    <3>3. QED BY <3>1, <3>2
  <2>5. IsSum(t, m)
    BY <2>3, <2>4
  <2>6. \E u \in [0..m -> Nat] : IsSum(u, m)
    <3> HIDE DEF IsSum, t
    <3>1. QED BY <2>2, <2>5
  <2>7. m \in 0..n
    OBVIOUS
  <2>8. QED
    <3> HIDE DEF IsSum
    <3>1. QED BY <2>6, <2>7
<1> HIDE DEF Good
<1>3. \A k \in 0..n : k \in Good
  BY <1>1, <1>2, BoundedInduction
<1>4. n \in Good
  BY <1>3
<1>5. QED BY <1>4 DEF Good

\* Hence PartialSums satisfies its recursive equations.
LEMMA PartialSumsEquations ==
  ASSUME NEW n \in Nat, NEW f \in [1..n -> Nat]
  PROVE  /\ PartialSums(f, n) \in [0..n -> Nat]
         /\ PartialSums(f, n)[0] = 0
         /\ \A k \in 1..n : PartialSums(f, n)[k] = PartialSums(f, n)[k - 1] + f[k]
<1> DEFINE Step(s) == [k \in 0..n |-> IF k = 0 THEN 0 ELSE s[k - 1] + f[k]]
<1>1. PICK t \in [0..n -> Nat] : t[0] = 0 /\ \A k \in 1..n : t[k] = t[k - 1] + f[k]
  BY PartialSumsExist
<1>2. t = Step(t)
  BY <1>1
<1>3. PartialSums(f, n) = CHOOSE s : s = Step(s)
  BY DEF PartialSums
<1> DEFINE p == PartialSums(f, n)
<1>4. p = Step(p)
  BY <1>2, <1>3
<1> HIDE DEF p
<1>5. p[0] = 0 /\ \A k \in 1..n : p[k] = p[k - 1] + f[k]
  BY <1>4
<1> DEFINE Good == {k \in 0..n : p[k] \in Nat}
<1>6. 0 \in Good
  BY <1>5
<1>7. ASSUME NEW k \in 1..n, (k - 1) \in Good PROVE k \in Good
  BY <1>5, <1>7
<1> HIDE DEF Good
<1>8. \A k \in 0..n : k \in Good
  BY <1>6, <1>7, BoundedInduction
<1>9. p \in [0..n -> Nat]
  BY <1>4, <1>8 DEF Good
<1>10. QED BY <1>5, <1>9 DEF p

\* A total is a natural number.
LEMMA TotalNat ==
  ASSUME NEW n \in Nat, NEW f \in [1..n -> Nat]
  PROVE  Total(f, n) \in Nat
BY PartialSumsEquations DEF Total

\* The total of a function that is zero everywhere is zero.
LEMMA TotalZero ==
  ASSUME NEW n \in Nat, NEW f \in [1..n -> Nat], \A k \in 1..n : f[k] = 0
  PROVE  Total(f, n) = 0
<1> DEFINE p == PartialSums(f, n)
           Good == {k \in 0..n : p[k] = 0}
<1>1. p[0] = 0 /\ \A k \in 1..n : p[k] = p[k - 1] + f[k]
  BY PartialSumsEquations
<1> HIDE DEF p
<1>2. 0 \in Good
  BY <1>1
<1>3. ASSUME NEW k \in 1..n, (k - 1) \in Good PROVE k \in Good
  BY <1>1, <1>3
<1> HIDE DEF Good
<1>4. \A k \in 0..n : k \in Good
  BY <1>2, <1>3, BoundedInduction
<1>5. QED BY <1>4 DEF Good, Total, p

\* Totals are monotone in the summands.
LEMMA TotalMonotone ==
  ASSUME NEW n \in Nat, NEW f \in [1..n -> Nat], NEW g \in [1..n -> Nat],
         \A k \in 1..n : f[k] <= g[k]
  PROVE  Total(f, n) <= Total(g, n)
<1> DEFINE p == PartialSums(f, n)
           q == PartialSums(g, n)
           Good == {k \in 0..n : p[k] <= q[k]}
<1>1. /\ p \in [0..n -> Nat] /\ p[0] = 0
      /\ \A k \in 1..n : p[k] = p[k - 1] + f[k]
  BY PartialSumsEquations
<1>2. /\ q \in [0..n -> Nat] /\ q[0] = 0
      /\ \A k \in 1..n : q[k] = q[k - 1] + g[k]
  BY PartialSumsEquations
<1> HIDE DEF p, q
<1>3. 0 \in Good
  BY <1>1, <1>2
<1>4. ASSUME NEW k \in 1..n, (k - 1) \in Good PROVE k \in Good
  <2>1. p[k - 1] \in Nat /\ q[k - 1] \in Nat /\ f[k] \in Nat /\ g[k] \in Nat
    BY <1>1, <1>2
  <2>2. p[k - 1] <= q[k - 1] /\ f[k] <= g[k]
    BY <1>4
  <2>3. p[k] <= q[k]
    BY <1>1, <1>2, <2>1, <2>2
  <2>4. QED BY <2>3
<1> HIDE DEF Good
<1>5. \A k \in 0..n : k \in Good
  BY <1>3, <1>4, BoundedInduction
<1>6. QED BY <1>5 DEF Good, Total, p, q

\* Changing one summand changes the total by the difference.
LEMMA TotalUpdate ==
  ASSUME NEW n \in Nat, NEW f \in [1..n -> Nat], NEW g \in [1..n -> Nat],
         NEW i \in 1..n, \A k \in 1..n : k # i => g[k] = f[k]
  PROVE  Total(g, n) = Total(f, n) - f[i] + g[i]
<1> DEFINE p == PartialSums(f, n)
           q == PartialSums(g, n)
           Good == {k \in 0..n : q[k] = IF k < i THEN p[k] ELSE p[k] - f[i] + g[i]}
<1>1. /\ p \in [0..n -> Nat] /\ p[0] = 0
      /\ \A k \in 1..n : p[k] = p[k - 1] + f[k]
  BY PartialSumsEquations
<1>2. /\ q \in [0..n -> Nat] /\ q[0] = 0
      /\ \A k \in 1..n : q[k] = q[k - 1] + g[k]
  BY PartialSumsEquations
<1> HIDE DEF p, q
<1>3. 0 \in Good
  BY <1>1, <1>2
<1>4. ASSUME NEW k \in 1..n, (k - 1) \in Good PROVE k \in Good
  <2>1. /\ p[k - 1] \in Nat /\ q[k - 1] \in Nat /\ f[k] \in Nat /\ g[k] \in Nat
        /\ f[i] \in Nat /\ g[i] \in Nat
    BY <1>1, <1>2
  <2>2. q[k - 1] = IF k - 1 < i THEN p[k - 1] ELSE p[k - 1] - f[i] + g[i]
    BY <1>4
  <2>3. p[k] = p[k - 1] + f[k] /\ q[k] = q[k - 1] + g[k]
    BY <1>1, <1>2
  <2>4. q[k] = IF k < i THEN p[k] ELSE p[k] - f[i] + g[i]
    <3>1. CASE k < i
      BY <2>1, <2>2, <2>3, <3>1
    <3>2. CASE k = i
      BY <2>1, <2>2, <2>3, <3>2
    <3>3. CASE k > i
      <4>1. g[k] = f[k] /\ ~(k < i) /\ ~(k - 1 < i)
        BY <3>3
      <4>2. q[k - 1] = p[k - 1] - f[i] + g[i]
        BY <2>2, <4>1
      <4>3. q[k] = (p[k - 1] - f[i] + g[i]) + f[k]
        BY <2>3, <4>1, <4>2
      <4>4. q[k] = (p[k - 1] + f[k]) - f[i] + g[i]
        <5>1. p[k - 1] \in Int /\ f[k] \in Int /\ f[i] \in Int /\ g[i] \in Int
          BY ONLY <2>1
        <5> DEFINE a == p[k - 1]
                   b == f[k]
                   c == f[i]
                   d == g[i]
        <5>2. q[k] = (a - c + d) + b /\ a \in Int /\ b \in Int /\ c \in Int /\ d \in Int
          BY ONLY <4>3, <5>1
        <5> HIDE DEF a, b, c, d
        <5>3. q[k] = (a + b) - c + d
          BY ONLY <5>2
        <5>4. QED
          BY ONLY <5>3 DEF a, b, c, d
      <4>5. q[k] = p[k] - f[i] + g[i]
        BY ONLY <2>3, <4>4
      <4>6. QED BY <4>1, <4>5
    <3>4. QED BY <3>1, <3>2, <3>3
  <2>5. QED BY <2>4
<1> HIDE DEF Good
<1>5. \A k \in 0..n : k \in Good
  BY <1>3, <1>4, BoundedInduction
<1>6. QED BY <1>5 DEF Good, Total, p, q

\* No summand exceeds the total.
LEMMA TotalAtLeast ==
  ASSUME NEW n \in Nat, NEW f \in [1..n -> Nat], NEW i \in 1..n
  PROVE  f[i] <= Total(f, n)
<1> DEFINE g == [f EXCEPT ![i] = 0]
<1>1. g \in [1..n -> Nat] /\ g[i] = 0 /\ \A k \in 1..n : k # i => g[k] = f[k]
  <2>1. DOMAIN g = 1..n /\ g[i] = 0 /\ \A k \in 1..n : k # i => g[k] = f[k]
    OBVIOUS
  <2>2. \A k \in 1..n : g[k] \in Nat
    BY <2>1
  <2>3. QED
    BY <2>1, <2>2
<1> HIDE DEF g
<1>2. Total(g, n) = Total(f, n) - f[i] + g[i]
  BY <1>1, TotalUpdate, SMTT(20)
<1>3. Total(g, n) \in Nat /\ Total(f, n) \in Nat /\ f[i] \in Nat
  BY <1>1, TotalNat
<1>4. QED BY <1>1, <1>2, <1>3

\* A function on 1..n into the integers has a greatest value, which it takes at
\* a first place.
LEMMA FirstGreatest ==
  ASSUME NEW n \in Nat \ {0}, NEW f \in [1..n -> Int]
  PROVE  \E k \in 1..n : /\ \A j \in 1..n : f[j] <= f[k]
                         /\ \A j \in 1..(k - 1) : f[j] < f[k]
<1> DEFINE Best(k, m) == \A j \in 1..m : f[j] <= f[k]
           Good == {m \in 0..n : m = 0 \/ \E k \in 1..m : Best(k, m)}
<1>1. 0 \in Good
  OBVIOUS
<1>2. ASSUME NEW m \in 1..n, (m - 1) \in Good PROVE m \in Good
  <2>1. CASE m = 1
    <3>1. Best(1, 1) /\ 1 \in 1..1
      OBVIOUS
    <3>2. QED BY <2>1, <3>1
  <2>2. CASE m # 1
    <3>1. m - 1 # 0
      BY <2>2
    <3>2. \E k \in 1..(m - 1) : Best(k, m - 1)
      BY <1>2, <3>1
    <3>3. PICK k \in 1..(m - 1) : Best(k, m - 1)
      BY <3>2
    <3>4. CASE f[m] <= f[k]
      <4>1. Best(k, m)
        <5>1. ASSUME NEW j \in 1..m PROVE f[j] <= f[k]
          <6>1. j = m \/ j \in 1..(m - 1)
            OBVIOUS
          <6>2. QED BY <6>1, <3>3, <3>4
        <5>2. QED BY <5>1
      <4>2. QED BY <4>1
    <3>5. CASE ~(f[m] <= f[k])
      <4>1. Best(m, m)
        <5>1. ASSUME NEW j \in 1..m PROVE f[j] <= f[m]
          <6>1. j = m \/ j \in 1..(m - 1)
            OBVIOUS
          <6>2. f[j] \in Int /\ f[k] \in Int /\ f[m] \in Int
            OBVIOUS
          <6>3. CASE j = m
            BY <6>2, <6>3
          <6>4. CASE j \in 1..(m - 1)
            BY <6>2, <6>4, <3>3, <3>5
          <6>5. QED BY <6>1, <6>3, <6>4
        <5>2. QED BY <5>1
      <4>2. QED BY <4>1
    <3>6. QED BY <3>4, <3>5
  <2>3. QED BY <2>1, <2>2
<1>3. \A m \in 0..n : m \in Good
  <2> HIDE DEF Good
  <2>1. QED BY <1>1, <1>2, BoundedInduction
<1> DEFINE T == {k \in 1..n : Best(k, n)}
<1>4. T # {} /\ T \subseteq Nat
  <2>1. n \in Good
    <3>1. n \in 0..n
      OBVIOUS
    <3> HIDE DEF Good
    <3>2. QED BY <1>3, <3>1
  <2>2. \E k \in 1..n : Best(k, n)
    BY <2>1
  <2>3. QED BY <2>2
<1>5. PICK k \in T : \A j \in T : k <= j
  BY <1>4, LeastElement
<1>6. ASSUME NEW j \in 1..(k - 1) PROVE f[j] < f[k]
  <2>1. j \in 1..n /\ j \notin T /\ f[j] <= f[k]
    BY <1>5
  <2>2. f[j] \in Int /\ f[k] \in Int
    BY <2>1
  <2>3. ASSUME f[j] = f[k] PROVE FALSE
    BY <2>1, <2>3, <1>5
  <2>4. QED BY <2>1, <2>2, <2>3
<1>7. QED BY <1>5, <1>6
=============================================================================
