----------------------------- MODULE SumsProofs -----------------------------
(***************************************************************************)
(* What SumTo computes.  The induction theorems of the library take the    *)
(* predicate as an operator, which no backend instantiates; here every     *)
(* induction is the least element of the set of counterexamples, whose     *)
(* existence WFMin gives without an operator.                              *)
(***************************************************************************)
EXTENDS Sums, WellFoundedInduction, TLAPS

\* A set of naturals that is not empty has a least element.
LEMMA LeastElement ==
    ASSUME NEW S, S \subseteq Nat, S # {}
    PROVE  \E x \in S : \A y \in S : x <= y
<1> DEFINE R == {ss \in Nat \X Nat : ss[1] < ss[2]}
<1>1. IsWellFoundedOn(R, Nat)
  BY NatLessThanWellFounded, Zenon DEF OpToRel
<1>2. \A a, b \in Nat : a < b => <<a, b>> \in R
  OBVIOUS
<1> HIDE DEF R
<1>3. PICK x \in S : \A z \in S : <<z, x>> \notin R
  BY <1>1, WFMin
<1>4. \A z \in S : x <= z
  <2> TAKE z \in S
  <2>1. x \in Nat /\ z \in Nat /\ <<z, x>> \notin R BY <1>3
  <2> QED BY <2>1, <1>2
<1> QED BY <1>4

\* The equation of the recursive function in SumTo.
IsSum(g, f, n) == g = [i \in 0 .. n |-> IF i = 0 THEN 0 ELSE g[i - 1] + f[i]]

LEMMA SumByChoice ==
    ASSUME NEW f, NEW n
    PROVE  SumTo(f, n) = (CHOOSE g : IsSum(g, f, n))[n]
BY Zenon DEF SumTo, IsSum

\* The recursive function exists.
LEMMA SumExists ==
    ASSUME NEW f, NEW n \in Nat
    PROVE  \E g : IsSum(g, f, n)
<1> DEFINE Bad == {m \in Nat : ~\E g : IsSum(g, f, m)}
<1>1. SUFFICES ASSUME Bad # {} PROVE FALSE
  OBVIOUS
<1>2. PICK m \in Bad : \A y \in Bad : m <= y
  <2> Bad \subseteq Nat OBVIOUS
  <2> HIDE DEF Bad
  <2> QED BY <1>1, LeastElement
<1>3. CASE m = 0
  <2>1. IsSum([i \in 0 .. 0 |-> 0], f, 0)
    BY DEF IsSum
  <2> QED BY <1>2, <1>3, <2>1
<1>4. CASE m # 0
  <2>1. m - 1 \in Nat /\ m - 1 \notin Bad
    BY <1>2, <1>4
  <2>2. PICK g : IsSum(g, f, m - 1)
    BY <2>1
  <2> DEFINE h == [i \in 0 .. m |-> IF i = m THEN g[m - 1] + f[m] ELSE g[i]]
  <2>3. IsSum(h, f, m)
    <3>1. g = [i \in 0 .. m - 1 |-> IF i = 0 THEN 0 ELSE g[i - 1] + f[i]]
      BY <2>2 DEF IsSum
    <3>2. \A i \in 0 .. m : h[i] = IF i = 0 THEN 0 ELSE h[i - 1] + f[i]
      <4> TAKE i \in 0 .. m
      <4>1. CASE i = m
        BY <4>1, <1>4, <1>2, <2>1
      <4>2. CASE i # m
        <5>1. i \in 0 .. m - 1 /\ h[i] = g[i]
          BY <4>2, <1>2
        <5>2. g[i] = IF i = 0 THEN 0 ELSE g[i - 1] + f[i]
          BY <5>1, <3>1
        <5>3. i # 0 => h[i - 1] = g[i - 1]
          BY <5>1, <1>2
        <5> QED BY <5>1, <5>2, <5>3
      <4> QED BY <4>1, <4>2
    <3>3. h = [i \in 0 .. m |-> h[i]]
      OBVIOUS
    <3> HIDE DEF h
    <3> QED BY <3>2, <3>3 DEF IsSum
  <2> QED BY <2>3, <1>2
<1> QED BY <1>3, <1>4

\* Two sums of functions that agree up to n agree up to n.
LEMMA SumsAgree ==
    ASSUME NEW f, NEW g, NEW m \in Nat, NEW n \in Nat, NEW p, NEW q,
           IsSum(p, f, m), IsSum(q, g, n), m <= n, \A i \in 1 .. m : f[i] = g[i]
    PROVE  \A i \in 0 .. m : p[i] = q[i]
<1> DEFINE Bad == {i \in 0 .. m : p[i] # q[i]}
<1>1. SUFFICES ASSUME Bad # {} PROVE FALSE
  OBVIOUS
<1>2. PICK k \in Bad : \A y \in Bad : k <= y
  <2> Bad \subseteq Nat OBVIOUS
  <2> HIDE DEF Bad
  <2> QED BY <1>1, LeastElement
<1>3. \A i \in 0 .. m : p[i] = IF i = 0 THEN 0 ELSE p[i - 1] + f[i]
  BY DEF IsSum
<1>4. \A i \in 0 .. n : q[i] = IF i = 0 THEN 0 ELSE q[i - 1] + g[i]
  BY DEF IsSum
<1>5. k \in 0 .. m /\ k \in 0 .. n
  BY <1>2
<1>6. CASE k = 0
  BY <1>2, <1>3, <1>4, <1>5, <1>6
<1>7. CASE k # 0
  <2>1. k - 1 \in 0 .. m /\ k - 1 \notin Bad /\ k \in 1 .. m
    BY <1>2, <1>5, <1>7
  <2>2. p[k - 1] = q[k - 1]
    BY <2>1
  <2> QED BY <1>2, <1>3, <1>4, <1>5, <1>7, <2>1, <2>2
<1> QED BY <1>6, <1>7

\* What SumTo picks satisfies the equation.
LEMMA SumChosen ==
    ASSUME NEW f, NEW n \in Nat
    PROVE  \E g : IsSum(g, f, n) /\ SumTo(f, n) = g[n]
<1>1. IsSum(CHOOSE g : IsSum(g, f, n), f, n)
  BY SumExists, Zenon
<1> QED BY <1>1, SumByChoice, Zenon

\* The sum of nothing.
LEMMA SumZero == ASSUME NEW f PROVE SumTo(f, 0) = 0
<1>1. PICK g : IsSum(g, f, 0) /\ SumTo(f, 0) = g[0]
  BY SumChosen
<1> QED BY <1>1 DEF IsSum

\* One summand more.
LEMMA SumStep ==
    ASSUME NEW f, NEW n \in Nat
    PROVE  SumTo(f, n + 1) = SumTo(f, n) + f[n + 1]
<1>1. PICK g : IsSum(g, f, n) /\ SumTo(f, n) = g[n]
  BY SumChosen
<1>2. PICK h : IsSum(h, f, n + 1) /\ SumTo(f, n + 1) = h[n + 1]
  BY SumChosen
<1>3. g[n] = h[n]
  BY <1>1, <1>2, SumsAgree
<1>4. h[n + 1] = h[n] + f[n + 1]
  BY <1>2 DEF IsSum
<1> QED BY <1>1, <1>2, <1>3, <1>4

\* Only f[1] to f[n] count.
LEMMA SumCongruent ==
    ASSUME NEW f, NEW g, NEW n \in Nat, \A i \in 1 .. n : f[i] = g[i]
    PROVE  SumTo(f, n) = SumTo(g, n)
<1>1. PICK p : IsSum(p, f, n) /\ SumTo(f, n) = p[n]
  BY SumChosen
<1>2. PICK q : IsSum(q, g, n) /\ SumTo(g, n) = q[n]
  BY SumChosen
<1>3. \A i \in 0 .. n : p[i] = q[i]
  <2>1. n <= n OBVIOUS
  <2>2. IsSum(p, f, n) /\ IsSum(q, g, n) BY <1>1, <1>2
  <2> QED BY <2>1, <2>2, SumsAgree
<1> QED BY <1>1, <1>2, <1>3

\* A sum of naturals is a natural number.
LEMMA SumType ==
    ASSUME NEW f, NEW n \in Nat, \A i \in 1 .. n : f[i] \in Nat
    PROVE  SumTo(f, n) \in Nat
<1> DEFINE Bad == {m \in 0 .. n : SumTo(f, m) \notin Nat}
<1>1. SUFFICES ASSUME Bad # {} PROVE FALSE
  OBVIOUS
<1>2. PICK k \in Bad : \A y \in Bad : k <= y
  <2> Bad \subseteq Nat OBVIOUS
  <2> HIDE DEF Bad
  <2> QED BY <1>1, LeastElement
<1>3. CASE k = 0
  BY <1>2, <1>3, SumZero
<1>4. CASE k # 0
  <2>1. k - 1 \in 0 .. n /\ k - 1 \notin Bad /\ k \in 1 .. n /\ k - 1 \in Nat /\ (k - 1) + 1 = k
    BY <1>2, <1>4
  <2>2. SumTo(f, k - 1) \in Nat
    BY <2>1
  <2>3. SumTo(f, (k - 1) + 1) = SumTo(f, k - 1) + f[(k - 1) + 1]
    BY <2>1, SumStep
  <2> QED BY <1>2, <2>1, <2>2, <2>3
<1> QED BY <1>3, <1>4

\* One summand changes.
LEMMA SumChange ==
    ASSUME NEW f, NEW g, NEW n \in Nat, NEW k \in 1 .. n,
           \A i \in 1 .. n : f[i] \in Nat /\ g[i] \in Nat,
           \A i \in 1 .. n : i # k => f[i] = g[i]
    PROVE  SumTo(g, n) + f[k] = SumTo(f, n) + g[k]
<1> DEFINE Bad == {m \in k .. n : SumTo(g, m) + f[k] # SumTo(f, m) + g[k]}
<1>1. SUFFICES ASSUME Bad # {} PROVE FALSE
  OBVIOUS
<1>2. PICK m \in Bad : \A y \in Bad : m <= y
  <2> Bad \subseteq Nat OBVIOUS
  <2> HIDE DEF Bad
  <2> QED BY <1>1, LeastElement
<1>3. /\ m \in k .. n /\ m - 1 \in Nat /\ (m - 1) + 1 = m /\ m \in 1 .. n
      /\ \A i \in 1 .. m - 1 : i \in 1 .. n
  BY <1>2
<1>4. /\ SumTo(g, m) = SumTo(g, m - 1) + g[m]
      /\ SumTo(f, m) = SumTo(f, m - 1) + f[m]
  <2>1. /\ SumTo(g, (m - 1) + 1) = SumTo(g, m - 1) + g[(m - 1) + 1]
        /\ SumTo(f, (m - 1) + 1) = SumTo(f, m - 1) + f[(m - 1) + 1]
    BY <1>3, SumStep
  <2> QED BY <2>1, <1>3
<1>5. SumTo(g, m - 1) \in Nat /\ SumTo(f, m - 1) \in Nat
  BY <1>3, SumType
<1>6. CASE m = k
  <2>1. \A i \in 1 .. m - 1 : f[i] = g[i]
    BY <1>3, <1>6
  <2>2. SumTo(f, m - 1) = SumTo(g, m - 1)
    BY <2>1, <1>3, SumCongruent
  <2> QED BY <1>2, <1>3, <1>4, <1>5, <1>6, <2>2
<1>7. CASE m # k
  <2>1. m - 1 \in k .. n /\ m - 1 \notin Bad
    BY <1>2, <1>3, <1>7
  <2>2. SumTo(g, m - 1) + f[k] = SumTo(f, m - 1) + g[k]
    BY <2>1
  <2>3. f[m] = g[m] /\ f[m] \in Nat /\ f[k] \in Nat /\ g[k] \in Nat
    BY <1>3, <1>7
  <2>4. SumTo(g, m) + f[k] = SumTo(f, m) + g[k]
    BY <1>4, <1>5, <2>2, <2>3
  <2> QED BY <2>4, <1>2
<1> QED BY <1>6, <1>7

\* The summands before and behind k.
LEMMA SumSplit ==
    ASSUME NEW f, NEW g, NEW k \in Nat, NEW n \in Nat,
           \A i \in 1 .. k + n : f[i] \in Nat, \A i \in 1 .. n : g[i] = f[k + i]
    PROVE  SumTo(f, k + n) = SumTo(f, k) + SumTo(g, n)
<1> DEFINE Bad == {m \in 0 .. n : SumTo(f, k + m) # SumTo(f, k) + SumTo(g, m)}
<1>1. SUFFICES ASSUME Bad # {} PROVE FALSE
  OBVIOUS
<1>2. PICK m \in Bad : \A y \in Bad : m <= y
  <2> Bad \subseteq Nat OBVIOUS
  <2> HIDE DEF Bad
  <2> QED BY <1>1, LeastElement
<1>3. \A i \in 1 .. k : f[i] \in Nat
  OBVIOUS
<1>4. SumTo(f, k) \in Nat
  BY <1>3, SumType
<1>5. CASE m = 0
  <2>1. SumTo(g, m) = 0 /\ k + m = k
    BY <1>5, SumZero
  <2> QED BY <1>2, <1>4, <2>1
<1>6. CASE m # 0
  <2>1. /\ m - 1 \in 0 .. n /\ m - 1 \notin Bad /\ m \in 1 .. n
        /\ (m - 1) + 1 = m /\ (k + (m - 1)) + 1 = k + m /\ k + (m - 1) \in Nat /\ m - 1 \in Nat
    BY <1>2, <1>6
  <2>2. SumTo(f, k + (m - 1)) = SumTo(f, k) + SumTo(g, m - 1)
    BY <2>1
  <2>3. SumTo(g, (m - 1) + 1) = SumTo(g, m - 1) + g[(m - 1) + 1]
    BY <2>1, SumStep
  <2>4. SumTo(f, (k + (m - 1)) + 1) = SumTo(f, k + (m - 1)) + f[(k + (m - 1)) + 1]
    BY <2>1, SumStep
  <2>5. \A i \in 1 .. m - 1 : g[i] \in Nat
    BY <2>1
  <2>6. SumTo(g, m - 1) \in Nat
    BY <2>5, <2>1, SumType
  <2>7. g[m] = f[k + m] /\ f[k + m] \in Nat
    BY <2>1
  <2>8. SumTo(f, k + m) = SumTo(f, k) + SumTo(g, m)
    BY <1>4, <2>1, <2>2, <2>3, <2>4, <2>6, <2>7
  <2> QED BY <2>8, <1>2
<1> QED BY <1>5, <1>6

\* No summand is larger than the sum.
LEMMA SumBound ==
    ASSUME NEW f, NEW n \in Nat, NEW k \in 1 .. n, \A i \in 1 .. n : f[i] \in Nat
    PROVE  f[k] <= SumTo(f, n)
<1> DEFINE g == [i \in 1 .. n |-> IF i = k THEN 0 ELSE f[i]]
<1>1. /\ \A i \in 1 .. n : f[i] \in Nat /\ g[i] \in Nat
      /\ \A i \in 1 .. n : i # k => f[i] = g[i]
      /\ g[k] = 0
  OBVIOUS
<1> HIDE DEF g
<1>2. SumTo(g, n) + f[k] = SumTo(f, n) + g[k]
  BY <1>1, SumChange
<1>3. SumTo(g, n) \in Nat /\ SumTo(f, n) \in Nat
  BY <1>1, SumType
<1> QED BY <1>1, <1>2, <1>3

\* A sum of zeros is zero.
LEMMA SumOfZeros ==
    ASSUME NEW f, NEW n \in Nat, \A i \in 1 .. n : f[i] = 0
    PROVE  SumTo(f, n) = 0
<1> DEFINE Bad == {m \in 0 .. n : SumTo(f, m) # 0}
<1>1. SUFFICES ASSUME Bad # {} PROVE FALSE
  OBVIOUS
<1>2. PICK k \in Bad : \A y \in Bad : k <= y
  <2> Bad \subseteq Nat OBVIOUS
  <2> HIDE DEF Bad
  <2> QED BY <1>1, LeastElement
<1>3. CASE k = 0
  BY <1>2, <1>3, SumZero
<1>4. CASE k # 0
  <2>1. k - 1 \in 0 .. n /\ k - 1 \notin Bad /\ k \in 1 .. n /\ k - 1 \in Nat /\ (k - 1) + 1 = k
    BY <1>2, <1>4
  <2>2. SumTo(f, k - 1) = 0
    BY <2>1
  <2>3. SumTo(f, (k - 1) + 1) = SumTo(f, k - 1) + f[(k - 1) + 1]
    BY <2>1, SumStep
  <2> QED BY <1>2, <2>1, <2>2, <2>3
<1> QED BY <1>3, <1>4
=============================================================================
