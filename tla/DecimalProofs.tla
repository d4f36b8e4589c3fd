------------------------------ MODULE DecimalProofs ------------------------------
(***************************************************************************)
(* Decimals are exact, for every width and precision.                      *)
(*                                                                         *)
(* What a recursive definition computes is proved by induction on Nat,     *)
(* stated here for sets: a set with 0 and all successors is Nat.  With it: *)
(* the powers of ten, the number that a string of digits is, that the      *)
(* order of the strings is the order of these numbers, and from that each  *)
(* operation on decimals in units of 10^-MaxPrecision.                     *)
(***************************************************************************)
EXTENDS Decimal, SequenceTheorems, WellFoundedInduction, TLAPS

-------------------------------------------------------------------------------
\* Induction and recursion on the naturals, without operators as parameters.

LEMMA LeastNatural ==
  ASSUME NEW T, T \subseteq Nat, T # {}
  PROVE  \E x \in T : \A y \in T : x <= y
  <1>1. PICK x \in T : \A y \in T : ~(<<y, x>> \in OpToRel(<, Nat))
    BY WFMin, NatLessThanWellFounded
  <1>2. \A y \in T : x <= y
    <2> TAKE y \in T
    <2>1. y < x => <<y, x>> \in {ss \in Nat \X Nat : ss[1] < ss[2]} OBVIOUS
    <2> QED BY <1>1, <2>1 DEF OpToRel
  <1> QED BY <1>2

\* A set with 0 and the successor of each of its naturals has them all.
LEMMA Induction ==
  ASSUME NEW T, 0 \in T, \A n \in Nat : n \in T => n + 1 \in T
  PROVE  \A n \in Nat : n \in T
  <1> SUFFICES ASSUME Nat \ T # {} PROVE FALSE OBVIOUS
  <1>1. PICK x \in Nat \ T : \A y \in Nat \ T : x <= y
    BY LeastNatural, Nat \ T \subseteq Nat
  <1>2. x - 1 \in Nat /\ x - 1 \in T BY <1>1
  <1>3. (x - 1) + 1 = x BY <1>1
  <1> QED BY <1>1, <1>2, <1>3

\* The first n + 1 values of what starts at `first` and goes on by `step`.
Unfolds(g, n, step, first) ==
  g[0] = first /\ \A k \in 1 .. n : g[k] = step[k][g[k - 1]]

LEMMA UnfoldsOnce ==
  ASSUME NEW S, NEW first \in S, NEW step \in [Nat -> [S -> S]], NEW n \in Nat,
         NEW g \in [0 .. n -> S], Unfolds(g, n, step, first)
  PROVE  \E h \in [0 .. n + 1 -> S] : Unfolds(h, n + 1, step, first)
  <1> DEFINE h == [k \in 0 .. n + 1 |-> IF k = n + 1 THEN step[n + 1][g[n]] ELSE g[k]]
  <1>1. step[n + 1][g[n]] \in S OBVIOUS
  <1>2. h \in [0 .. n + 1 -> S] BY <1>1
  <1>3. h[0] = first BY DEF Unfolds
  <1>4. ASSUME NEW k \in 1 .. n + 1 PROVE h[k] = step[k][h[k - 1]]
    <2>1. k \in 0 .. n + 1 /\ k - 1 \in 0 .. n + 1 /\ k - 1 # n + 1 BY <1>4
    <2>2. h[k - 1] = g[k - 1] BY <2>1
    <2>3. CASE k = n + 1
      <3>1. k - 1 = n /\ h[k] = step[n + 1][g[n]] BY <2>3
      <3> QED BY <2>2, <2>3, <3>1
    <2>4. CASE k # n + 1
      <3>1. k \in 1 .. n /\ h[k] = g[k] BY <2>4
      <3> QED BY <2>2, <3>1 DEF Unfolds
    <2> QED BY <2>3, <2>4
  <1> HIDE DEF h
  <1>5. Unfolds(h, n + 1, step, first) BY <1>3, <1>4 DEF Unfolds
  <1> QED BY <1>2, <1>5

LEMMA UnfoldsSome ==
  ASSUME NEW S, NEW first \in S, NEW step \in [Nat -> [S -> S]]
  PROVE  \A n \in Nat : \E g \in [0 .. n -> S] : Unfolds(g, n, step, first)
  <1> DEFINE T == {n \in Nat : \E g \in [0 .. n -> S] : Unfolds(g, n, step, first)}
  <1>1. 0 \in T
    <2>1. PICK g : g = [k \in 0 .. 0 |-> first] OBVIOUS
    <2>2. g \in [0 .. 0 -> S] /\ g[0] = first BY <2>1
    <2>3. Unfolds(g, 0, step, first) BY <2>2 DEF Unfolds
    <2> QED BY <2>2, <2>3
  <1>2. ASSUME NEW n \in Nat, n \in T PROVE n + 1 \in T
    <2>1. PICK g \in [0 .. n -> S] : Unfolds(g, n, step, first) BY <1>2
    <2>2. \E h \in [0 .. n + 1 -> S] : Unfolds(h, n + 1, step, first)
      BY <2>1, UnfoldsOnce
    <2> QED BY <2>2
  <1> HIDE DEF T
  <1>3. \A n \in Nat : n \in T BY <1>1, <1>2, Induction
  <1> QED BY <1>3 DEF T

LEMMA UnfoldsOne ==
  ASSUME NEW step, NEW first, NEW m \in Nat, NEW n \in Nat, m <= n, NEW g, NEW h,
         Unfolds(g, m, step, first), Unfolds(h, n, step, first)
  PROVE  \A k \in 0 .. m : g[k] = h[k]
  <1> DEFINE T == {k \in Nat : k <= m => g[k] = h[k]}
  <1>1. 0 \in T BY DEF Unfolds
  <1>2. ASSUME NEW k \in Nat, k \in T PROVE k + 1 \in T
    <2> SUFFICES ASSUME k + 1 <= m PROVE g[k + 1] = h[k + 1] OBVIOUS
    <2>1. k + 1 \in 1 .. m /\ k + 1 \in 1 .. n /\ (k + 1) - 1 = k /\ g[k] = h[k] BY <1>2
    <2> QED BY <2>1 DEF Unfolds
  <1> HIDE DEF T
  <1>3. \A k \in Nat : k \in T BY <1>1, <1>2, Induction
  <1> QED BY <1>3 DEF T

\* A function on the naturals by its first value and its steps.
Recurs(g, step, first) ==
  g[0] = first /\ \A k \in Nat \ {0} : g[k] = step[k][g[k - 1]]

LEMMA RecursionExists ==
  ASSUME NEW S, NEW first \in S, NEW step \in [Nat -> [S -> S]]
  PROVE  \E g \in [Nat -> S] : Recurs(g, step, first)
  <1> DEFINE Part(n) == CHOOSE g \in [0 .. n -> S] : Unfolds(g, n, step, first)
             g == [n \in Nat |-> Part(n)[n]]
  <1>1. ASSUME NEW n \in Nat PROVE Part(n) \in [0 .. n -> S] /\ Unfolds(Part(n), n, step, first)
    BY UnfoldsSome
  <1> HIDE DEF Part
  <1>2. g \in [Nat -> S] BY <1>1
  <1>3. g[0] = first BY <1>1 DEF Unfolds
  <1>4. ASSUME NEW k \in Nat \ {0} PROVE g[k] = step[k][g[k - 1]]
    <2>1. k - 1 \in Nat /\ k \in Nat /\ k \in 1 .. k /\ k - 1 \in 0 .. k - 1 /\ k - 1 <= k BY <1>4
    <2>2. g[k] = step[k][Part(k)[k - 1]] BY <1>1, <2>1 DEF Unfolds
    <2>3. Unfolds(Part(k), k, step, first) /\ Unfolds(Part(k - 1), k - 1, step, first) BY <1>1, <2>1
    <2>4. Part(k)[k - 1] = Part(k - 1)[k - 1] BY <2>1, <2>3, UnfoldsOne
    <2> QED BY <2>1, <2>2, <2>4
  <1> HIDE DEF g
  <1>5. Recurs(g, step, first) BY <1>3, <1>4 DEF Recurs
  <1> QED BY <1>2, <1>5

-------------------------------------------------------------------------------
\* Powers of ten

LEMMA TenIs == Ten \in [Nat -> Nat] /\ Ten[0] = 1 /\ \A k \in Nat : Ten[k + 1] = 10 * Ten[k]
  <1> DEFINE step == [k \in Nat |-> [v \in Nat |-> 10 * v]]
  <1>1. step \in [Nat -> [Nat -> Nat]] /\ \A k, v \in Nat : step[k][v] = 10 * v OBVIOUS
  <1> HIDE DEF step
  <1>2. PICK g \in [Nat -> Nat] : g[0] = 1 /\ \A k \in Nat \ {0} : g[k] = step[k][g[k - 1]]
    <2>1. \E g \in [Nat -> Nat] : Recurs(g, step, 1) BY <1>1, RecursionExists
    <2> QED BY <2>1 DEF Recurs
  <1>3. g = [k \in Nat |-> IF k = 0 THEN 1 ELSE 10 * g[k - 1]]
    <2>1. ASSUME NEW k \in Nat, k # 0 PROVE g[k] = 10 * g[k - 1]
      <3>1. k - 1 \in Nat /\ g[k - 1] \in Nat BY <1>2, <2>1
      <3> QED BY <1>1, <1>2, <2>1, <3>1
    <2> QED BY <1>2, <2>1
  <1>4. Ten = [k \in Nat |-> IF k = 0 THEN 1 ELSE 10 * Ten[k - 1]] BY <1>3 DEF Ten
  <1>5. Ten[0] = 1 BY <1>4
  <1>6. ASSUME NEW k \in Nat PROVE Ten[k + 1] = 10 * Ten[k]
    <2>1. k + 1 \in Nat /\ k + 1 # 0 /\ (k + 1) - 1 = k OBVIOUS
    <2> QED BY <1>4, <2>1
  <1> DEFINE T == {k \in Nat : Ten[k] \in Nat}
  <1>7. 0 \in T BY <1>5
  <1>8. ASSUME NEW k \in Nat, k \in T PROVE k + 1 \in T BY <1>6, <1>8
  <1> HIDE DEF T
  <1>9. \A k \in Nat : k \in T BY <1>7, <1>8, Induction
  <1>10. \A k \in Nat : Ten[k] \in Nat BY <1>9 DEF T
  <1> QED BY <1>4, <1>5, <1>6, <1>10

LEMMA TenGrows == \A k \in Nat : Ten[k] \in Nat /\ Ten[k] > k
  <1> DEFINE T == {k \in Nat : Ten[k] \in Nat /\ Ten[k] > k}
  <1>1. 0 \in T BY TenIs
  <1>2. ASSUME NEW k \in Nat, k \in T PROVE k + 1 \in T BY <1>2, TenIs
  <1> HIDE DEF T
  <1>3. \A k \in Nat : k \in T BY <1>1, <1>2, Induction
  <1> QED BY <1>3 DEF T

LEMMA TenAdds ==
  ASSUME NEW a \in Nat
  PROVE  \A b \in Nat : Ten[a + b] = Ten[a] * Ten[b]
  <1> DEFINE T == {b \in Nat : Ten[a + b] = Ten[a] * Ten[b]}
  <1>1. 0 \in T
    <2>1. Ten[0] = 1 /\ a + 0 = a /\ Ten[a] \in Nat BY TenIs
    <2> QED BY <2>1
  <1>2. ASSUME NEW b \in Nat, b \in T PROVE b + 1 \in T
    <2>1. a + (b + 1) = (a + b) + 1 /\ a + b \in Nat OBVIOUS
    <2>2. Ten[a + (b + 1)] = 10 * Ten[a + b] BY <2>1, TenIs
    <2>3. Ten[a + b] = Ten[a] * Ten[b] BY <1>2
    <2>4. Ten[b + 1] = 10 * Ten[b] /\ Ten[a] \in Nat /\ Ten[b] \in Nat BY TenIs
    <2>5. \A x, y \in Nat : 10 * (x * y) = x * (10 * y) OBVIOUS
    <2> QED BY <2>2, <2>3, <2>4, <2>5
  <1> HIDE DEF T
  <1>3. \A b \in Nat : b \in T BY <1>1, <1>2, Induction
  <1> QED BY <1>3 DEF T

LEMMA TenMonotone ==
  ASSUME NEW a \in Nat, NEW b \in Nat, a <= b
  PROVE  Ten[a] <= Ten[b]
  <1>1. b - a \in Nat /\ b = a + (b - a) OBVIOUS
  <1>2. Ten[b] = Ten[a] * Ten[b - a] BY <1>1, TenAdds
  <1>3. Ten[b - a] \in Nat /\ Ten[b - a] >= 1 /\ Ten[a] \in Nat BY <1>1, TenGrows
  <1>4. \A x, y \in Nat : y >= 1 => x <= x * y OBVIOUS
  <1> QED BY <1>2, <1>3, <1>4

-------------------------------------------------------------------------------
\* Numbers of digit strings

\* The numbers of the first digits.
PrefixNumbers(s) ==
  CHOOSE number :
    number = [k \in 0 .. Len(s) |-> IF k = 0 THEN 0 ELSE 10 * number[k - 1] + s[k]]

LEMMA PrefixesAre ==
  ASSUME NEW s \in Seq(Nat)
  PROVE  /\ PrefixNumbers(s) \in [0 .. Len(s) -> Nat]
         /\ PrefixNumbers(s)[0] = 0
         /\ \A k \in 1 .. Len(s) : PrefixNumbers(s)[k] = 10 * PrefixNumbers(s)[k - 1] + s[k]
         /\ NumberOf(s) = PrefixNumbers(s)[Len(s)]
  <1> DEFINE next(k) == [v \in Nat |-> IF k \in 1 .. Len(s) THEN 10 * v + s[k] ELSE 0]
             step == [k \in Nat |-> next(k)]
  <1>1. step \in [Nat -> [Nat -> Nat]]
        /\ \A k \in 1 .. Len(s) : \A v \in Nat : step[k][v] = 10 * v + s[k]
    <2>1. ASSUME NEW k \in Nat PROVE next(k) \in [Nat -> Nat]
      <3>1. k \in 1 .. Len(s) => s[k] \in Nat OBVIOUS
      <3>2. ASSUME NEW v \in Nat PROVE (IF k \in 1 .. Len(s) THEN 10 * v + s[k] ELSE 0) \in Nat
        BY <3>1
      <3> QED BY <3>2
    <2>2. ASSUME NEW k \in 1 .. Len(s), NEW v \in Nat PROVE step[k][v] = 10 * v + s[k]
      <3>1. k \in Nat /\ step[k] = next(k) OBVIOUS
      <3> QED BY <3>1
    <2> HIDE DEF next
    <2>3. step \in [Nat -> [Nat -> Nat]] BY <2>1
    <2> QED BY <2>2, <2>3
  <1> HIDE DEF step
  <1>2. Len(s) \in Nat OBVIOUS
  <1>3. PICK g \in [0 .. Len(s) -> Nat] : Unfolds(g, Len(s), step, 0)
    BY <1>1, <1>2, UnfoldsSome
  <1>4. g[0] = 0 BY <1>3 DEF Unfolds
  <1>5. ASSUME NEW k \in 1 .. Len(s) PROVE g[k] = 10 * g[k - 1] + s[k]
    <2>1. k - 1 \in 0 .. Len(s) BY <1>2
    <2>2. g[k - 1] \in Nat BY <1>3, <2>1
    <2> QED BY <1>1, <1>3, <2>2 DEF Unfolds
  <1>6. g = [k \in 0 .. Len(s) |-> IF k = 0 THEN 0 ELSE 10 * g[k - 1] + s[k]]
    BY <1>2, <1>3, <1>4, <1>5
  <1> DEFINE p == PrefixNumbers(s)
  <1>7. p = [k \in 0 .. Len(s) |-> IF k = 0 THEN 0 ELSE 10 * p[k - 1] + s[k]]
    BY <1>6 DEF PrefixNumbers
  <1>8. NumberOf(s) = p[Len(s)] BY DEF NumberOf, PrefixNumbers
  <1> HIDE DEF p
  <1>9. p[0] = 0 BY <1>2, <1>7
  <1>10. ASSUME NEW k \in 1 .. Len(s) PROVE p[k] = 10 * p[k - 1] + s[k]
    <2>1. k \in 0 .. Len(s) /\ k # 0 BY <1>2
    <2> QED BY <1>7, <2>1
  <1> DEFINE T == {k \in Nat : k <= Len(s) => p[k] \in Nat}
  <1>11. 0 \in T BY <1>9
  <1>12. ASSUME NEW k \in Nat, k \in T PROVE k + 1 \in T
    <2> SUFFICES ASSUME k + 1 <= Len(s) PROVE p[k + 1] \in Nat OBVIOUS
    <2>1. k + 1 \in 1 .. Len(s) /\ (k + 1) - 1 = k /\ p[k] \in Nat BY <1>2, <1>12
    <2>2. s[k + 1] \in Nat BY <2>1
    <2> QED BY <1>10, <2>1, <2>2
  <1> HIDE DEF T
  <1>13. \A k \in Nat : k \in T BY <1>11, <1>12, Induction
  <1>14. \A k \in 0 .. Len(s) : p[k] \in Nat BY <1>2, <1>13 DEF T
  <1>15. p \in [0 .. Len(s) -> Nat] BY <1>7, <1>14
  <1> QED BY <1>8, <1>9, <1>10, <1>15 DEF p

LEMMA DigitStrings ==
  ASSUME NEW s \in Seq(0 .. 9)
  PROVE  s \in Seq(Nat) /\ Len(s) \in Nat /\ \A k \in 1 .. Len(s) : s[k] \in 0 .. 9
  OBVIOUS

LEMMA PrefixBelow ==
  ASSUME NEW s \in Seq(0 .. 9)
  PROVE  \A k \in 0 .. Len(s) : PrefixNumbers(s)[k] < Ten[k]
  <1> DEFINE p == PrefixNumbers(s)
             T == {k \in Nat : k <= Len(s) => p[k] < Ten[k]}
  <1>1. /\ p[0] = 0 /\ p \in [0 .. Len(s) -> Nat]
        /\ \A k \in 1 .. Len(s) : p[k] = 10 * p[k - 1] + s[k]
    BY PrefixesAre, DigitStrings
  <1> HIDE DEF p
  <1>2. 0 \in T BY <1>1, TenIs
  <1>3. ASSUME NEW k \in Nat, k \in T PROVE k + 1 \in T
    <2> SUFFICES ASSUME k + 1 <= Len(s) PROVE p[k + 1] < Ten[k + 1] OBVIOUS
    <2>1. k + 1 \in 1 .. Len(s) /\ k \in 0 .. Len(s) /\ (k + 1) - 1 = k /\ p[k] < Ten[k]
      BY <1>3, DigitStrings
    <2>2. p[k + 1] = 10 * p[k] + s[k + 1] /\ s[k + 1] \in 0 .. 9 /\ p[k] \in Nat
      BY <1>1, <2>1, DigitStrings
    <2>3. Ten[k + 1] = 10 * Ten[k] /\ Ten[k] \in Nat BY TenIs
    <2>4. \A x, y \in Nat : \A d \in 0 .. 9 : x < y => 10 * x + d < 10 * y OBVIOUS
    <2>5. 10 * p[k] + s[k + 1] < 10 * Ten[k] BY <2>1, <2>2, <2>3, <2>4
    <2> QED BY <2>2, <2>3, <2>5
  <1> HIDE DEF T
  <1>4. \A k \in Nat : k \in T BY <1>2, <1>3, Induction
  <1> QED BY <1>4, DigitStrings DEF T, p

LEMMA NumberBelow ==
  ASSUME NEW s \in Seq(0 .. 9)
  PROVE  NumberOf(s) \in Nat /\ NumberOf(s) < Ten[Len(s)]
  <1>1. Len(s) \in 0 .. Len(s) BY DigitStrings
  <1> QED BY <1>1, PrefixesAre, PrefixBelow, DigitStrings

\* Appending a string of digits shifts the number before it.
LEMMA NumberJoins ==
  ASSUME NEW s \in Seq(0 .. 9), NEW t \in Seq(0 .. 9)
  PROVE  NumberOf(s \o t) = NumberOf(s) * Ten[Len(t)] + NumberOf(t)
  <1> DEFINE u == s \o t
             p == PrefixNumbers(s)  q == PrefixNumbers(t)  r == PrefixNumbers(u)
  <1>1. /\ u \in Seq(0 .. 9) /\ Len(u) = Len(s) + Len(t)
        /\ \A k \in 1 .. Len(s) : u[k] = s[k]
        /\ \A k \in 1 .. Len(t) : u[Len(s) + k] = t[k]
    OBVIOUS
  <1>2. Len(s) \in Nat /\ Len(t) \in Nat OBVIOUS
  <1> HIDE DEF u
  <1>3. /\ p[0] = 0 /\ p \in [0 .. Len(s) -> Nat] /\ NumberOf(s) = p[Len(s)]
        /\ \A k \in 1 .. Len(s) : p[k] = 10 * p[k - 1] + s[k]
    BY PrefixesAre, DigitStrings
  <1>4. /\ q[0] = 0 /\ q \in [0 .. Len(t) -> Nat] /\ NumberOf(t) = q[Len(t)]
        /\ \A k \in 1 .. Len(t) : q[k] = 10 * q[k - 1] + t[k]
    BY PrefixesAre, DigitStrings
  <1>5. /\ r[0] = 0 /\ r \in [0 .. Len(u) -> Nat] /\ NumberOf(u) = r[Len(u)]
        /\ \A k \in 1 .. Len(u) : r[k] = 10 * r[k - 1] + u[k]
    BY <1>1, PrefixesAre, DigitStrings
  <1> HIDE DEF p, q, r
  <1> DEFINE S == {k \in Nat : k <= Len(s) => r[k] = p[k]}
  <1>6. 0 \in S BY <1>3, <1>5
  <1>7. ASSUME NEW k \in Nat, k \in S PROVE k + 1 \in S
    <2> SUFFICES ASSUME k + 1 <= Len(s) PROVE r[k + 1] = p[k + 1] OBVIOUS
    <2>1. k + 1 \in 1 .. Len(s) /\ k + 1 \in 1 .. Len(u) /\ (k + 1) - 1 = k /\ r[k] = p[k]
      BY <1>1, <1>2, <1>7
    <2>2. r[k + 1] = 10 * r[k] + u[k + 1] /\ p[k + 1] = 10 * p[k] + s[k + 1] /\ u[k + 1] = s[k + 1]
      BY <1>1, <1>3, <1>5, <2>1
    <2> QED BY <2>1, <2>2
  <1> HIDE DEF S
  <1>8. \A k \in Nat : k \in S BY <1>6, <1>7, Induction
  <1>9. r[Len(s)] = NumberOf(s) BY <1>2, <1>3, <1>8 DEF S
  <1>10. NumberOf(s) \in Nat BY NumberBelow
  <1> DEFINE n == NumberOf(s)
             T == {k \in Nat : k <= Len(t) => r[Len(s) + k] = n * Ten[k] + q[k]}
  <1> HIDE DEF n
  <1>11. 0 \in T
    <2>1. r[Len(s) + 0] = n /\ n \in Nat BY <1>2, <1>9, <1>10 DEF n
    <2>2. n * Ten[0] + q[0] = n BY <1>4, <2>1, TenIs
    <2> QED BY <2>1, <2>2
  <1>12. ASSUME NEW k \in Nat, k \in T PROVE k + 1 \in T
    <2> SUFFICES ASSUME k + 1 <= Len(t) PROVE r[Len(s) + (k + 1)] = n * Ten[k + 1] + q[k + 1] OBVIOUS
    <2>1. k + 1 \in 1 .. Len(t) /\ (k + 1) - 1 = k /\ r[Len(s) + k] = n * Ten[k] + q[k] /\ k \in 0 .. Len(t)
      BY <1>2, <1>12
    <2>2. Len(s) + (k + 1) \in 1 .. Len(u) /\ (Len(s) + (k + 1)) - 1 = Len(s) + k
      BY <1>1, <1>2, <2>1
    <2>3. r[Len(s) + (k + 1)] = 10 * r[Len(s) + k] + t[k + 1] BY <1>1, <1>5, <2>1, <2>2
    <2>4. q[k + 1] = 10 * q[k] + t[k + 1] /\ q[k] \in Nat /\ t[k + 1] \in 0 .. 9
      BY <1>4, <2>1, DigitStrings
    <2>5. Ten[k + 1] = 10 * Ten[k] /\ Ten[k] \in Nat /\ n \in Nat BY <1>10, TenIs DEF n
    <2>6. \A x, y \in Nat : x * (10 * y) = 10 * (x * y) /\ x * y \in Nat OBVIOUS
    <2>7. n * Ten[k + 1] = 10 * (n * Ten[k]) /\ n * Ten[k] \in Nat BY <2>5, <2>6
    <2>8. \A x, y, d \in Nat : 10 * (x + y) + d = 10 * x + (10 * y + d) OBVIOUS
    <2>9. t[k + 1] \in Nat BY <2>4
    <2>10. 10 * (n * Ten[k] + q[k]) + t[k + 1] = 10 * (n * Ten[k]) + (10 * q[k] + t[k + 1])
      BY <2>4, <2>7, <2>8, <2>9
    <2> QED BY <2>1, <2>3, <2>4, <2>7, <2>10
  <1> HIDE DEF T
  <1>13. \A k \in Nat : k \in T BY <1>11, <1>12, Induction
  <1>14. r[Len(s) + Len(t)] = n * Ten[Len(t)] + q[Len(t)] BY <1>2, <1>13 DEF T
  <1> QED BY <1>1, <1>4, <1>5, <1>14 DEF n, u

LEMMA ZerosAre ==
  ASSUME NEW k \in Nat
  PROVE  Zeros(k) \in Seq(0 .. 9) /\ Len(Zeros(k)) = k /\ \A i \in 1 .. k : Zeros(k)[i] = 0
  BY DEF Zeros

LEMMA NumberOfZeros ==
  ASSUME NEW s \in Seq(0 .. 9), \A i \in 1 .. Len(s) : s[i] = 0
  PROVE  NumberOf(s) = 0
  <1> DEFINE p == PrefixNumbers(s)
             T == {k \in Nat : k <= Len(s) => p[k] = 0}
  <1>1. /\ p[0] = 0 /\ NumberOf(s) = p[Len(s)]
        /\ \A k \in 1 .. Len(s) : p[k] = 10 * p[k - 1] + s[k]
    BY PrefixesAre, DigitStrings
  <1> HIDE DEF p
  <1>2. 0 \in T BY <1>1
  <1>3. ASSUME NEW k \in Nat, k \in T PROVE k + 1 \in T
    <2> SUFFICES ASSUME k + 1 <= Len(s) PROVE p[k + 1] = 0 OBVIOUS
    <2>1. k + 1 \in 1 .. Len(s) /\ (k + 1) - 1 = k /\ p[k] = 0 BY <1>3, DigitStrings
    <2> QED BY <1>1, <2>1
  <1> HIDE DEF T
  <1>4. \A k \in Nat : k \in T BY <1>2, <1>3, Induction
  <1> QED BY <1>1, <1>4, DigitStrings DEF T

\* A string that starts with another digit than 0 has all its places.
LEMMA NumberAbove ==
  ASSUME NEW s \in Seq(0 .. 9), s # <<>>, s[1] # 0
  PROVE  Len(s) - 1 \in Nat /\ Ten[Len(s) - 1] <= NumberOf(s)
  <1> DEFINE p == PrefixNumbers(s)
             T == {k \in Nat : k + 1 <= Len(s) => p[k + 1] >= Ten[k]}
  <1>1. /\ p[0] = 0 /\ p \in [0 .. Len(s) -> Nat] /\ NumberOf(s) = p[Len(s)]
        /\ \A k \in 1 .. Len(s) : p[k] = 10 * p[k - 1] + s[k]
    BY PrefixesAre, DigitStrings
  <1>0. Len(s) \in Nat /\ Len(s) - 1 \in Nat /\ 1 \in 1 .. Len(s) OBVIOUS
  <1> HIDE DEF p
  <1>2. 0 \in T
    <2>1. p[1] = 10 * p[1 - 1] + s[1] BY <1>0, <1>1
    <2>2. s[1] \in 0 .. 9 BY <1>0, DigitStrings
    <2>3. p[1] = s[1] BY <1>1, <2>1, <2>2
    <2>4. s[1] >= 1 BY <2>2
    <2>5. p[1] >= Ten[0] BY <2>3, <2>4, TenIs
    <2>6. 0 + 1 = 1 OBVIOUS
    <2> QED BY <2>5, <2>6
  <1>3. ASSUME NEW k \in Nat, k \in T PROVE k + 1 \in T
    <2> SUFFICES ASSUME (k + 1) + 1 <= Len(s) PROVE p[(k + 1) + 1] >= Ten[k + 1] OBVIOUS
    <2>1. (k + 1) + 1 \in 1 .. Len(s) /\ ((k + 1) + 1) - 1 = k + 1 /\ p[k + 1] >= Ten[k]
          /\ k + 1 \in 0 .. Len(s)
      BY <1>0, <1>3
    <2>2. p[(k + 1) + 1] = 10 * p[k + 1] + s[(k + 1) + 1] /\ p[k + 1] \in Nat
      BY <1>1, <2>1
    <2>3. s[(k + 1) + 1] \in 0 .. 9 BY <2>1, DigitStrings
    <2>4. Ten[k + 1] = 10 * Ten[k] /\ Ten[k] \in Nat BY TenIs
    <2>5. \A x, y \in Nat : \A d \in 0 .. 9 : x >= y => 10 * x + d >= 10 * y OBVIOUS
    <2>6. 10 * p[k + 1] + s[(k + 1) + 1] >= 10 * Ten[k] BY <2>1, <2>2, <2>3, <2>4, <2>5
    <2> QED BY <2>2, <2>4, <2>6
  <1> HIDE DEF T
  <1>4. \A k \in Nat : k \in T BY <1>2, <1>3, Induction
  <1>5. Len(s) - 1 \in T /\ (Len(s) - 1) + 1 = Len(s) BY <1>0, <1>4
  <1>6. p[Len(s)] >= Ten[Len(s) - 1]
    <2>1. p[(Len(s) - 1) + 1] >= Ten[Len(s) - 1] BY <1>0, <1>5 DEF T
    <2> QED BY <1>5, <2>1
  <1>7. p[Len(s)] \in Nat BY <1>0, <1>1
  <1>8. Ten[Len(s) - 1] \in Nat BY <1>0, TenIs
  <1> QED BY <1>0, <1>1, <1>6, <1>7, <1>8

\* Of two strings of one length, the one with the larger digit at the first
\* difference is the larger number.
LEMMA FirstDifference ==
  ASSUME NEW s \in Seq(0 .. 9), NEW t \in Seq(0 .. 9), Len(s) = Len(t),
         NEW i \in 1 .. Len(s), s[i] < t[i], \A k \in 1 .. i - 1 : s[k] = t[k]
  PROVE  NumberOf(s) < NumberOf(t)
  <1> DEFINE p == PrefixNumbers(s)  q == PrefixNumbers(t)
  <1>0. Len(s) \in Nat /\ i \in Nat OBVIOUS
  <1>1. /\ p[0] = 0 /\ p \in [0 .. Len(s) -> Nat] /\ NumberOf(s) = p[Len(s)]
        /\ \A k \in 1 .. Len(s) : p[k] = 10 * p[k - 1] + s[k]
    BY PrefixesAre, DigitStrings
  <1>2. /\ q[0] = 0 /\ q \in [0 .. Len(s) -> Nat] /\ NumberOf(t) = q[Len(s)]
        /\ \A k \in 1 .. Len(s) : q[k] = 10 * q[k - 1] + t[k]
    BY PrefixesAre, DigitStrings
  <1> HIDE DEF p, q
  <1> DEFINE T == {k \in Nat : k <= Len(s) => IF k < i THEN p[k] = q[k] ELSE p[k] < q[k]}
  <1>3. 0 \in T BY <1>1, <1>2
  <1>4. ASSUME NEW k \in Nat, k \in T PROVE k + 1 \in T
    <2> SUFFICES ASSUME k + 1 <= Len(s)
                 PROVE  IF k + 1 < i THEN p[k + 1] = q[k + 1] ELSE p[k + 1] < q[k + 1]
      OBVIOUS
    <2>1. /\ k + 1 \in 1 .. Len(s) /\ k \in 0 .. Len(s) /\ (k + 1) - 1 = k
          /\ IF k < i THEN p[k] = q[k] ELSE p[k] < q[k]
      BY <1>0, <1>4
    <2>2. p[k + 1] = 10 * p[k] + s[k + 1] /\ q[k + 1] = 10 * q[k] + t[k + 1]
      BY <1>1, <1>2, <2>1
    <2>3. s[k + 1] \in 0 .. 9 /\ t[k + 1] \in 0 .. 9 /\ p[k] \in Nat /\ q[k] \in Nat
      BY <1>1, <1>2, <2>1, DigitStrings
    <2>4. CASE k + 1 < i
      <3>1. s[k + 1] = t[k + 1] /\ p[k] = q[k] BY <1>0, <2>1, <2>4
      <3> QED BY <2>2, <2>4, <3>1
    <2>5. CASE k + 1 = i
      <3>1. p[k] = q[k] /\ s[k + 1] < t[k + 1] BY <1>0, <2>1, <2>5
      <3>2. \A x \in Nat : \A c, d \in 0 .. 9 : c < d => 10 * x + c < 10 * x + d OBVIOUS
      <3>3. 10 * p[k] + s[k + 1] < 10 * q[k] + t[k + 1] BY <2>3, <3>1, <3>2
      <3> QED BY <1>0, <2>2, <2>5, <3>3
    <2>6. CASE k + 1 > i
      <3>1. p[k] < q[k] BY <1>0, <2>1, <2>6
      <3>2. \A x, y \in Nat : \A c, d \in 0 .. 9 : x < y => 10 * x + c < 10 * y + d OBVIOUS
      <3>3. 10 * p[k] + s[k + 1] < 10 * q[k] + t[k + 1] BY <2>3, <3>1, <3>2
      <3> QED BY <1>0, <2>2, <2>6, <3>3
    <2> QED BY <1>0, <2>4, <2>5, <2>6
  <1> HIDE DEF T
  <1>5. \A k \in Nat : k \in T BY <1>3, <1>4, Induction
  <1>6. p[Len(s)] < q[Len(s)] BY <1>0, <1>5 DEF T
  <1> QED BY <1>1, <1>2, <1>6

LEMMA SameDigits ==
  ASSUME NEW s \in Seq(0 .. 9), NEW t \in Seq(0 .. 9), Len(s) = Len(t),
         \A k \in 1 .. Len(s) : s[k] = t[k]
  PROVE  s = t
  OBVIOUS

LEMMA FirstNonZeroIs ==
  ASSUME NEW S, NEW s \in Seq(S)
  PROVE  \/ FirstNonZero(s) = 0 /\ \A k \in 1 .. Len(s) : s[k] = 0
         \/ /\ FirstNonZero(s) \in 1 .. Len(s) /\ s[FirstNonZero(s)] # 0
            /\ \A k \in 1 .. FirstNonZero(s) - 1 : s[k] = 0
  <1> DEFINE I == {i \in 1 .. Len(s) : s[i] # 0}
  <1>1. FirstNonZero(s) = IF I # {} THEN Min(I) ELSE 0 BY DEF FirstNonZero, SelectInSeq
  <1>2. CASE I = {} BY <1>1, <1>2
  <1>3. CASE I # {}
    <2>1. PICK x \in I : \A y \in I : x <= y BY <1>3, LeastNatural, I \subseteq Nat
    <2>2. Min(I) \in I /\ \A y \in I : Min(I) <= y BY <2>1 DEF Min
    <2>3. Min(I) \in 1 .. Len(s) /\ s[Min(I)] # 0 BY <2>2
    <2>4. \A k \in 1 .. Min(I) - 1 : s[k] = 0 BY <2>2
    <2> QED BY <1>1, <1>3, <2>3, <2>4
  <1> QED BY <1>2, <1>3

LEMMA CompareIs ==
  ASSUME NEW m \in Int, NEW n \in Int
  PROVE  /\ m < n <=> Compare(m, n) = -1
         /\ m = n <=> Compare(m, n) = 0
         /\ m > n <=> Compare(m, n) = 1
         /\ Compare(m, n) \in {-1, 0, 1}
  BY DEF Compare, Sign

\* The text order of digits of one length is the order of the numbers.
LEMMA LexIsCompare ==
  ASSUME NEW s \in Seq(0 .. 9), NEW t \in Seq(0 .. 9), Len(s) = Len(t)
  PROVE  LexCompare(s, t) = Compare(NumberOf(s), NumberOf(t))
  <1> DEFINE d == [k \in DOMAIN s |-> s[k] - t[k]]
             i == FirstNonZero(d)
  <1>1. d \in Seq(Int) /\ Len(d) = Len(s) /\ Len(s) \in Nat
        /\ \A k \in 1 .. Len(s) : d[k] = s[k] - t[k] /\ s[k] \in 0 .. 9 /\ t[k] \in 0 .. 9
    <2>1. Len(s) \in Nat /\ DOMAIN s = 1 .. Len(s) OBVIOUS
    <2>2. \A k \in 1 .. Len(s) : s[k] \in 0 .. 9 /\ t[k] \in 0 .. 9 BY DigitStrings
    <2>3. \A k \in 1 .. Len(s) : s[k] - t[k] \in Int BY <2>2
    <2>4. d \in [1 .. Len(s) -> Int] BY <2>1, <2>3
    <2> QED BY <2>1, <2>2, <2>4
  <1>2. LexCompare(s, t) = IF i = 0 THEN 0 ELSE Compare(s[i], t[i]) BY DEF LexCompare
  <1>3. NumberOf(s) \in Nat /\ NumberOf(t) \in Nat BY NumberBelow
  <1>4. \/ i = 0 /\ \A k \in 1 .. Len(d) : d[k] = 0
        \/ i \in 1 .. Len(d) /\ d[i] # 0 /\ \A k \in 1 .. i - 1 : d[k] = 0
    BY <1>1, FirstNonZeroIs
  <1> HIDE DEF d, i
  <1>5. CASE i = 0 /\ \A k \in 1 .. Len(d) : d[k] = 0
    <2>1. ASSUME NEW k \in 1 .. Len(s) PROVE s[k] = t[k]
      <3>1. d[k] = 0 /\ d[k] = s[k] - t[k] /\ s[k] \in 0 .. 9 /\ t[k] \in 0 .. 9 BY <1>1, <1>5
      <3>2. \A x, y \in 0 .. 9 : x - y = 0 => x = y OBVIOUS
      <3> QED BY <3>1, <3>2
    <2>2. s = t BY <2>1, SameDigits
    <2> QED BY <1>2, <1>3, <1>5, <2>2, CompareIs
  <1>6. CASE i \in 1 .. Len(d) /\ d[i] # 0 /\ \A k \in 1 .. i - 1 : d[k] = 0
    <2>1. i \in 1 .. Len(s) /\ i # 0 /\ s[i] # t[i] /\ s[i] \in 0 .. 9 /\ t[i] \in 0 .. 9
      BY <1>1, <1>6
    <2>2. \A k \in 1 .. i - 1 : s[k] = t[k]
      <3> TAKE k \in 1 .. i - 1
      <3>1. k \in 1 .. Len(s) BY <1>1, <2>1
      <3>2. d[k] = 0 /\ d[k] = s[k] - t[k] /\ s[k] \in 0 .. 9 /\ t[k] \in 0 .. 9
        BY <1>1, <1>6, <3>1
      <3>3. \A x, y \in 0 .. 9 : x - y = 0 => x = y OBVIOUS
      <3> QED BY <3>2, <3>3
    <2>3. CASE s[i] < t[i]
      <3>1. NumberOf(s) < NumberOf(t) BY <2>1, <2>2, <2>3, FirstDifference
      <3>2. Compare(s[i], t[i]) = -1 BY <2>1, <2>3, CompareIs
      <3> QED BY <1>2, <1>3, <2>1, <3>1, <3>2, CompareIs
    <2>4. CASE t[i] < s[i]
      <3>1. NumberOf(t) < NumberOf(s) BY <2>1, <2>2, <2>4, FirstDifference
      <3>2. Compare(s[i], t[i]) = 1 BY <2>1, <2>4, CompareIs
      <3>3. Compare(NumberOf(s), NumberOf(t)) = 1 BY <1>3, <3>1, CompareIs
      <3> QED BY <1>2, <2>1, <3>2, <3>3
    <2> QED BY <2>1, <2>3, <2>4
  <1> QED BY <1>4, <1>5, <1>6

LEMMA EmptyNumber == NumberOf(<<>>) = 0
  <1>1. <<>> \in Seq(0 .. 9) /\ \A i \in 1 .. Len(<<>>) : <<>>[i] = 0 OBVIOUS
  <1> QED BY <1>1, NumberOfZeros

\* Zeros before a string of digits do not change its number.
LEMMA ZerosBefore ==
  ASSUME NEW z \in Seq(0 .. 9), \A i \in 1 .. Len(z) : z[i] = 0, NEW s \in Seq(0 .. 9)
  PROVE  NumberOf(z \o s) = NumberOf(s)
  <1>1. NumberOf(z) = 0 BY NumberOfZeros
  <1>2. NumberOf(z \o s) = NumberOf(z) * Ten[Len(s)] + NumberOf(s) BY NumberJoins
  <1>3. Ten[Len(s)] \in Nat /\ NumberOf(s) \in Nat BY TenIs, NumberBelow, DigitStrings
  <1> QED BY <1>1, <1>2, <1>3

LEMMA TrimmedIs ==
  ASSUME NEW s \in Seq(0 .. 9)
  PROVE  /\ TrimZeros(s) \in Seq(0 .. 9)
         /\ TrimZeros(s) = <<>> \/ TrimZeros(s)[1] # 0
         /\ NumberOf(TrimZeros(s)) = NumberOf(s)
  <1> DEFINE i == FirstNonZero(s)
  <1>1. s \in Seq(Int) /\ Len(s) \in Nat OBVIOUS
  <1>2. \/ i = 0 /\ \A k \in 1 .. Len(s) : s[k] = 0
        \/ i \in 1 .. Len(s) /\ s[i] # 0 /\ \A k \in 1 .. i - 1 : s[k] = 0
    BY <1>1, FirstNonZeroIs
  <1>3. TrimZeros(s) = IF i = 0 THEN <<>> ELSE SubSeq(s, i, Len(s)) BY DEF TrimZeros
  <1> HIDE DEF i
  <1>4. CASE i = 0 /\ \A k \in 1 .. Len(s) : s[k] = 0
    <2>1. TrimZeros(s) = <<>> BY <1>3, <1>4
    <2>2. NumberOf(s) = 0 BY <1>4, NumberOfZeros
    <2> QED BY <2>1, <2>2, EmptyNumber
  <1>5. CASE i \in 1 .. Len(s) /\ s[i] # 0 /\ \A k \in 1 .. i - 1 : s[k] = 0
    <2> DEFINE z == SubSeq(s, 1, i - 1)
               t == SubSeq(s, i, Len(s))
    <2>1. /\ z \in Seq(0 .. 9) /\ Len(z) = i - 1
          /\ \A k \in 1 .. Len(z) : z[k] = 0
      <3>1. i - 1 \in Nat /\ i - 1 <= Len(s) BY <1>1, <1>5
      <3>2. z \in Seq(0 .. 9) /\ Len(z) = i - 1 /\ \A k \in 1 .. i - 1 : z[k] = s[k]
        BY <1>1, <3>1
      <3> QED BY <1>5, <3>2
    <2>2. t \in Seq(0 .. 9) /\ Len(t) = Len(s) - i + 1 /\ t[1] = s[i]
          /\ \A k \in 1 .. Len(s) - i + 1 : t[k] = s[i + k - 1]
      <3>1. t \in Seq(0 .. 9) /\ Len(t) = Len(s) - i + 1
            /\ \A k \in 1 .. Len(s) - i + 1 : t[k] = s[i + k - 1]
        <4>1. i \in Int /\ Len(s) \in Int /\ i <= Len(s) BY <1>1, <1>5
        <4>2. \A k \in i .. Len(s) : s[k] \in 0 .. 9 BY <1>1, <1>5
        <4>3. /\ t \in Seq(0 .. 9) /\ Len(t) = IF i <= Len(s) THEN Len(s) - i + 1 ELSE 0
              /\ \A k \in 1 .. Len(s) - i + 1 : t[k] = s[i + k - 1]
          BY <4>1, <4>2, SubSeqProperties
        <4> HIDE DEF t
        <4> QED BY <4>1, <4>3
      <3>2. 1 \in 1 .. Len(s) - i + 1 /\ i + 1 - 1 = i BY <1>1, <1>5
      <3> HIDE DEF t
      <3> QED BY <3>1, <3>2
    <2>3. z \o t = s
      <3>1. z \o t \in Seq(0 .. 9) /\ Len(z \o t) = Len(s) BY <1>1, <1>5, <2>1, <2>2
      <3>2. ASSUME NEW k \in 1 .. Len(s) PROVE (z \o t)[k] = s[k]
        <4>1. CASE k < i BY <1>1, <1>5, <2>1, <2>2, <4>1
        <4>2. CASE k >= i
          <5>1. (z \o t)[k] = t[k - (i - 1)] BY <1>1, <1>5, <2>1, <2>2, <4>2
          <5>2. k - (i - 1) \in 1 .. Len(s) - i + 1 /\ i + (k - (i - 1)) - 1 = k
            BY <1>1, <1>5, <4>2
          <5> QED BY <2>2, <5>1, <5>2
        <4> QED BY <1>1, <1>5, <4>1, <4>2
      <3> HIDE DEF z, t
      <3> QED BY <3>1, <3>2, SameDigits
    <2>4. TrimZeros(s) = t BY <1>3, <1>5
    <2> HIDE DEF z, t
    <2>5. NumberOf(z \o t) = NumberOf(t) BY <2>1, <2>2, ZerosBefore
    <2> QED BY <1>5, <2>2, <2>3, <2>4, <2>5
  <1> QED BY <1>2, <1>4, <1>5

\* Trimmed strings compare by their length first.
LEMMA LongerIsLarger ==
  ASSUME NEW s \in Seq(0 .. 9), NEW t \in Seq(0 .. 9), t # <<>> => t[1] # 0, Len(s) < Len(t)
  PROVE  NumberOf(s) < NumberOf(t)
  <1>1. Len(s) \in Nat /\ Len(t) \in Nat /\ t # <<>> /\ Len(s) <= Len(t) - 1 OBVIOUS
  <1>2. Len(t) - 1 \in Nat /\ Ten[Len(t) - 1] <= NumberOf(t) BY <1>1, NumberAbove
  <1>3. NumberOf(s) < Ten[Len(s)] /\ NumberOf(s) \in Nat /\ NumberOf(t) \in Nat BY NumberBelow
  <1>4. Ten[Len(s)] <= Ten[Len(t) - 1] BY <1>1, <1>2, TenMonotone
  <1>5. Ten[Len(s)] \in Nat /\ Ten[Len(t) - 1] \in Nat BY <1>1, <1>2, TenIs
  <1> QED BY <1>2, <1>3, <1>4, <1>5

-------------------------------------------------------------------------------
\* The digits of a number

LEMMA Divided ==
  ASSUME NEW n \in Nat, NEW b \in Nat \ {0}
  PROVE  /\ n \div b \in Nat /\ n % b \in Nat
         /\ n % b < b
         /\ n = b * (n \div b) + (n % b)
  OBVIOUS

LEMMA ProductMonotone ==
  ASSUME NEW b \in Nat, NEW m \in Nat, NEW n \in Nat, m < n
  PROVE  b * m + b <= b * n
  <1>1. PICK d \in Nat : n = m + 1 + d
    <2>1. n - m - 1 \in Nat /\ n = m + 1 + (n - m - 1) OBVIOUS
    <2> QED BY <2>1
  <1>2. b * n = b * m + b + b * d BY <1>1
  <1>3. b * d \in Nat /\ b * m \in Nat OBVIOUS
  <1> QED BY <1>2, <1>3

LEMMA QuotientUnique ==
  ASSUME NEW n \in Nat, NEW b \in Nat \ {0}, NEW q \in Nat, NEW r \in Nat, r < b, n = b * q + r
  PROVE  n \div b = q
  <1> DEFINE m == n \div b
             e == n % b
  <1>1. m \in Nat /\ e \in Nat /\ e < b /\ n = b * m + e BY Divided
  <1>2. b * m \in Nat /\ b * q \in Nat BY <1>1
  <1> HIDE DEF m, e
  <1>3. ~(m < q)
    <2>1. m < q => b * m + b <= b * q BY <1>1, ProductMonotone
    <2> QED BY <1>1, <1>2, <2>1
  <1>4. ~(q < m)
    <2>1. q < m => b * q + b <= b * m BY <1>1, ProductMonotone
    <2> QED BY <1>1, <1>2, <2>1
  <1> QED BY <1>1, <1>3, <1>4 DEF m

\* The next digit.
LEMMA QuotientByTen ==
  ASSUME NEW n \in Nat, NEW b \in Nat \ {0}
  PROVE  n \div b = 10 * (n \div (10 * b)) + ((n \div b) % 10)
  <1> DEFINE m == n \div b
             e == n % b
             q == m \div 10
             r == m % 10
  <1>1. m \in Nat /\ e \in Nat /\ e < b /\ n = b * m + e BY Divided
  <1>2. q \in Nat /\ r \in Nat /\ r < 10 /\ m = 10 * q + r BY <1>1, Divided
  <1> HIDE DEF m, e, q, r
  <1>3. 10 * b \in Nat \ {0} /\ b * r \in Nat /\ b * r + e \in Nat BY <1>1, <1>2
  <1>4. n = (10 * b) * q + (b * r + e)
    <2>1. b * (10 * q + r) = (10 * b) * q + b * r BY <1>2
    <2> QED BY <1>1, <1>2, <2>1
  <1>5. b * r + e < 10 * b
    <2>1. b * r <= b * 9
      <3>1. r \in {0, 1, 2, 3, 4, 5, 6, 7, 8, 9} BY <1>2
      <3> QED BY <3>1
    <2> QED BY <1>1, <1>3, <2>1
  <1>6. n \div (10 * b) = q BY <1>2, <1>3, <1>4, <1>5, QuotientUnique
  <1>7. m = 10 * (n \div (10 * b)) + r BY <1>2, <1>6
  <1> QED BY <1>7 DEF m, r

LEMMA DigitCountIs ==
  ASSUME NEW n \in Nat
  PROVE  /\ DigitCount(n) \in Nat \ {0}
         /\ n < Ten[DigitCount(n)]
         /\ DigitCount(n) = 1 \/ Ten[DigitCount(n) - 1] <= n
  <1> DEFINE T == {k \in Nat : n < Ten[k] /\ k # 0}
  <1>1. n + 1 \in T BY TenGrows
  <1>2. PICK k \in T : \A j \in T : k <= j
    <2>1. T \subseteq Nat /\ T # {} BY <1>1
    <2> QED BY <2>1, LeastNatural
  <1>3. k \in 1 .. n + 1 BY <1>1, <1>2
  <1>4. k = 1 \/ Ten[k - 1] <= n
    <2> SUFFICES ASSUME k # 1 PROVE Ten[k - 1] <= n OBVIOUS
    <2>1. k - 1 \in Nat /\ k - 1 # 0 /\ ~(k <= k - 1) BY <1>3
    <2>2. ~(n < Ten[k - 1]) BY <1>2, <2>1
    <2>3. Ten[k - 1] \in Nat BY <2>1, TenIs
    <2> QED BY <2>2, <2>3
  <1>5. n < Ten[k] BY <1>2
  <1> HIDE DEF T
  <1>6. \E j \in 1 .. n + 1 : n < Ten[j] /\ (j = 1 \/ Ten[j - 1] <= n) BY <1>3, <1>4, <1>5
  <1>7. DigitCount(n) \in 1 .. n + 1 /\ n < Ten[DigitCount(n)]
        /\ (DigitCount(n) = 1 \/ Ten[DigitCount(n) - 1] <= n)
    BY <1>6 DEF DigitCount
  <1> QED BY <1>7

LEMMA DigitsAre ==
  ASSUME NEW n \in Nat
  PROVE  /\ DigitsOf(n) \in Seq(0 .. 9)
         /\ Len(DigitsOf(n)) = DigitCount(n)
         /\ NumberOf(DigitsOf(n)) = n
  <1> DEFINE c == DigitCount(n)
             s == DigitsOf(n)
             p == PrefixNumbers(s)
  <1>1. c \in Nat \ {0} /\ n < Ten[c] BY DigitCountIs
  <1>2. s = [i \in 1 .. c |-> (n \div Ten[c - i]) % 10] BY DEF DigitsOf
  <1> HIDE DEF c, s
  <1>3. ASSUME NEW i \in 1 .. c
        PROVE  c - i \in Nat /\ Ten[c - i] \in Nat \ {0} /\ (n \div Ten[c - i]) % 10 \in 0 .. 9
    <2>1. c - i \in Nat BY <1>1
    <2>2. Ten[c - i] \in Nat /\ Ten[c - i] > 0 BY <2>1, TenGrows
    <2>3. n \div Ten[c - i] \in Nat BY <2>2, Divided
    <2>4. (n \div Ten[c - i]) % 10 \in Nat /\ (n \div Ten[c - i]) % 10 < 10 BY <2>3, Divided
    <2> QED BY <2>1, <2>2, <2>4
  <1>4. s \in [1 .. c -> 0 .. 9] BY <1>2, <1>3
  <1>5. s \in Seq(0 .. 9) /\ Len(s) = c BY <1>1, <1>4
  <1>6. /\ p[0] = 0 /\ p \in [0 .. c -> Nat] /\ NumberOf(s) = p[c]
        /\ \A k \in 1 .. c : p[k] = 10 * p[k - 1] + s[k]
    BY <1>5, PrefixesAre, DigitStrings
  <1> HIDE DEF p
  <1> DEFINE T == {k \in Nat : k <= c => p[k] = n \div Ten[c - k]}
  <1>7. 0 \in T
    <2>1. Ten[c] \in Nat \ {0} BY <1>1, TenGrows
    <2>2. n = Ten[c] * 0 + n BY <2>1
    <2>3. n \div Ten[c] = 0 BY <1>1, <2>1, <2>2, QuotientUnique
    <2>4. c - 0 = c BY <1>1
    <2> QED BY <1>6, <2>3, <2>4
  <1>8. ASSUME NEW k \in Nat, k \in T PROVE k + 1 \in T
    <2> SUFFICES ASSUME k + 1 <= c PROVE p[k + 1] = n \div Ten[c - (k + 1)] OBVIOUS
    <2>1. k + 1 \in 1 .. c /\ (k + 1) - 1 = k /\ p[k] = n \div Ten[c - k] BY <1>1, <1>8
    <2>2. p[k + 1] = 10 * p[k] + s[k + 1] BY <1>6, <2>1
    <2>3. s[k + 1] = (n \div Ten[c - (k + 1)]) % 10 BY <1>2, <2>1
    <2>4. Ten[c - (k + 1)] \in Nat \ {0} /\ c - (k + 1) \in Nat BY <1>3, <2>1
    <2>5. (c - (k + 1)) + 1 = c - k BY <1>1
    <2>6. Ten[c - k] = 10 * Ten[c - (k + 1)] BY <2>4, <2>5, TenIs
    <2>7. n \div Ten[c - (k + 1)]
            = 10 * (n \div (10 * Ten[c - (k + 1)])) + ((n \div Ten[c - (k + 1)]) % 10)
      BY <2>4, QuotientByTen
    <2>8. n \div (10 * Ten[c - (k + 1)]) = p[k] BY <2>1, <2>6
    <2> QED BY <2>2, <2>3, <2>7, <2>8
  <1> HIDE DEF T
  <1>9. \A k \in Nat : k \in T BY <1>7, <1>8, Induction
  <1>10. p[c] = n \div Ten[c - c] BY <1>1, <1>9 DEF T
  <1>11. Ten[c - c] = 1 /\ n \div 1 = n BY <1>1, TenIs
  <1>12. NumberOf(s) = n BY <1>6, <1>10, <1>11
  <1> QED BY <1>5, <1>12 DEF c, s

-------------------------------------------------------------------------------
\* Comparing

LEMMA SameNumber ==
  ASSUME NEW s \in Seq(0 .. 9), NEW t \in Seq(0 .. 9), Len(s) = Len(t), NumberOf(s) = NumberOf(t)
  PROVE  s = t
  <1> DEFINE D == {k \in 1 .. Len(s) : s[k] # t[k]}
  <1>0. Len(s) \in Nat /\ NumberOf(s) \in Nat /\ NumberOf(t) \in Nat BY NumberBelow
  <1>1. D = {}
    <2> SUFFICES ASSUME D # {} PROVE FALSE OBVIOUS
    <2>1. PICK i \in D : \A k \in D : i <= k BY LeastNatural, D \subseteq Nat
    <2>2. i \in 1 .. Len(s) /\ s[i] \in 0 .. 9 /\ t[i] \in 0 .. 9 /\ s[i] # t[i] BY DigitStrings
    <2>3. \A k \in 1 .. i - 1 : s[k] = t[k]
      <3> TAKE k \in 1 .. i - 1
      <3>1. k \in 1 .. Len(s) /\ ~(i <= k) BY <1>0, <2>2
      <3> QED BY <2>1, <3>1
    <2>4. ~(s[i] < t[i]) BY <1>0, <2>2, <2>3, FirstDifference
    <2>5. ~(t[i] < s[i]) BY <1>0, <2>2, <2>3, FirstDifference
    <2> QED BY <2>2, <2>4, <2>5
  <1>2. \A k \in 1 .. Len(s) : s[k] = t[k] BY <1>1
  <1> QED BY <1>2, SameDigits

LEMMA CompareScaled ==
  ASSUME NEW m \in Int, NEW n \in Int, NEW c \in Nat \ {0}
  PROVE  Compare(m * c, n * c) = Compare(m, n)
  <1>1. ASSUME NEW x \in Int, NEW y \in Int, x < y PROVE x * c < y * c
    <2>1. PICK d \in Nat : y = x + d + 1
      <3>1. y - x - 1 \in Nat /\ y = x + (y - x - 1) + 1 BY <1>1
      <3> QED BY <3>1
    <2>2. y * c = x * c + d * c + c BY <2>1
    <2>3. d * c \in Nat /\ x * c \in Int BY <2>1
    <2> QED BY <2>2, <2>3
  <1>2. m * c \in Int /\ n * c \in Int OBVIOUS
  <1>3. CASE m < n
    <2>1. m * c < n * c BY <1>1, <1>3
    <2> QED BY <1>2, <1>3, <2>1, CompareIs
  <1>4. CASE n < m
    <2>1. n * c < m * c BY <1>1, <1>4
    <2> QED BY <1>2, <1>4, <2>1, CompareIs
  <1>5. CASE m = n BY <1>2, <1>5, CompareIs
  <1> QED BY <1>3, <1>4, <1>5

LEMMA SplitJoins ==
  ASSUME NEW s \in Seq(0 .. 9), NEW i \in 0 .. Len(s)
  PROVE  /\ SubSeq(s, 1, i) \in Seq(0 .. 9) /\ Len(SubSeq(s, 1, i)) = i
         /\ SubSeq(s, i + 1, Len(s)) \in Seq(0 .. 9) /\ Len(SubSeq(s, i + 1, Len(s))) = Len(s) - i
         /\ SubSeq(s, 1, i) \o SubSeq(s, i + 1, Len(s)) = s
  <1> DEFINE a == SubSeq(s, 1, i)
             b == SubSeq(s, i + 1, Len(s))
  <1>1. Len(s) \in Nat /\ i \in Nat /\ i <= Len(s) OBVIOUS
  <1>2. a \in Seq(0 .. 9) /\ Len(a) = i /\ \A k \in 1 .. i : a[k] = s[k]
    BY <1>1, SubSeqProperties
  <1>3. b \in Seq(0 .. 9) /\ Len(b) = Len(s) - i /\ \A k \in 1 .. Len(s) - i : b[k] = s[i + k]
    <2>1. \A k \in i + 1 .. Len(s) : s[k] \in 0 .. 9 BY <1>1, DigitStrings
    <2>2. b \in Seq(0 .. 9) /\ Len(b) = Len(s) - i
          /\ \A k \in 1 .. Len(s) - (i + 1) + 1 : b[k] = s[(i + 1) + k - 1]
      BY <1>1, <2>1, SubSeqProperties
    <2> HIDE DEF b
    <2>3. ASSUME NEW k \in 1 .. Len(s) - i PROVE b[k] = s[i + k]
      <3>1. k \in 1 .. Len(s) - (i + 1) + 1 /\ (i + 1) + k - 1 = i + k BY <1>1
      <3> QED BY <2>2, <3>1
    <2> QED BY <2>2, <2>3
  <1> HIDE DEF a, b
  <1>4. /\ a \o b \in Seq(0 .. 9) /\ Len(a \o b) = Len(a) + Len(b)
        /\ \A k \in 1 .. Len(a) + Len(b) : (a \o b)[k] = IF k <= Len(a) THEN a[k] ELSE b[k - Len(a)]
    BY <1>2, <1>3, ConcatProperties
  <1>5. Len(a) + Len(b) = Len(s) BY <1>1, <1>2, <1>3
  <1>6. ASSUME NEW k \in 1 .. Len(s) PROVE (a \o b)[k] = s[k]
    <2>0. k \in Nat /\ k >= 1 /\ k <= Len(s) BY <1>1
    <2>1. CASE k <= i
      <3>1. k \in 1 .. i BY <1>1, <2>0, <2>1
      <3> QED BY <1>2, <1>4, <1>5, <2>1, <3>1
    <2>2. CASE k > i
      <3>1. (a \o b)[k] = b[k - i] BY <1>1, <1>2, <1>4, <1>5, <2>0, <2>2
      <3>2. k - i \in 1 .. Len(s) - i /\ i + (k - i) = k BY <1>1, <2>2
      <3> QED BY <1>3, <3>1, <3>2
    <2>3. k <= i \/ k > i BY <1>1, <2>0
    <2> QED BY <2>1, <2>2, <2>3, Zenon
  <1>7. a \o b = s BY <1>4, <1>5, <1>6, SameDigits
  <1> QED BY <1>2, <1>3, <1>7 DEF a, b

-------------------------------------------------------------------------------
\* Decimals

\* An unscaled integer that has the width, and a scale.
IsDecimal(d) ==
  /\ d = DecimalOf(d.unscaled, d.scale)
  /\ d.unscaled \in Int /\ Fits(d.unscaled)
  /\ d.scale \in 0 .. MaxPrecision

LEMMA MagnitudeIs ==
  ASSUME NEW n \in Int
  PROVE  Magnitude(n) \in Nat /\ (n < 0 => n = -Magnitude(n)) /\ (n >= 0 => n = Magnitude(n))
  BY DEF Magnitude

LEMMA SplitIs ==
  ASSUME NEW d, IsDecimal(d)
  PROVE  /\ SplitDigits(d).int \in Seq(0 .. 9) /\ SplitDigits(d).int # <<>>
         /\ SplitDigits(d).frac \in Seq(0 .. 9) /\ Len(SplitDigits(d).frac) = d.scale
         /\ NumberOf(SplitDigits(d).int \o SplitDigits(d).frac) = Magnitude(d.unscaled)
  <1> DEFINE n == Magnitude(d.unscaled)
             s == DigitsOf(n)
             x == SplitDigits(d)
  <1>1. n \in Nat /\ d.scale \in Nat BY MagnitudeIs, DecimalAssumption DEF IsDecimal
  <1>2. s \in Seq(0 .. 9) /\ NumberOf(s) = n /\ Len(s) \in Nat BY <1>1, DigitsAre, DigitStrings
  <1>3. x = IF Len(s) > d.scale
            THEN [int |-> SubSeq(s, 1, Len(s) - d.scale),
                  frac |-> SubSeq(s, Len(s) - d.scale + 1, Len(s))]
            ELSE [int |-> <<0>>, frac |-> Zeros(d.scale - Len(s)) \o s]
    BY DEF SplitDigits
  <1> HIDE DEF n, s, x
  <1>4. CASE Len(s) > d.scale
    <2> DEFINE i == Len(s) - d.scale
               a == SubSeq(s, 1, i)
               b == SubSeq(s, i + 1, Len(s))
    <2>1. i \in 0 .. Len(s) /\ i > 0 /\ Len(s) - i = d.scale BY <1>1, <1>2, <1>4
    <2>2. x.int = a /\ x.frac = b BY <1>3, <1>4
    <2> HIDE DEF i
    <2>3. a \in Seq(0 .. 9) /\ Len(a) = i /\ b \in Seq(0 .. 9) /\ Len(b) = Len(s) - i /\ a \o b = s
      BY <1>2, <2>1, SplitJoins
    <2> HIDE DEF a, b
    <2>4. a # <<>> BY <2>1, <2>3
    <2> QED BY <1>2, <2>1, <2>2, <2>3, <2>4 DEF n, x
  <1>5. CASE Len(s) <= d.scale
    <2> DEFINE z == Zeros(d.scale - Len(s))
    <2>1. d.scale - Len(s) \in Nat BY <1>1, <1>2, <1>5
    <2>2. x.int = <<0>> /\ x.frac = z \o s BY <1>1, <1>2, <1>3, <1>5
    <2>3. z \in Seq(0 .. 9) /\ Len(z) = d.scale - Len(s) /\ \A i \in 1 .. Len(z) : z[i] = 0
      BY <2>1, ZerosAre
    <2> HIDE DEF z
    <2>4. z \o s \in Seq(0 .. 9) /\ Len(z \o s) = d.scale
      <3>1. z \o s \in Seq(0 .. 9) /\ Len(z \o s) = Len(z) + Len(s) BY <1>2, <2>3, ConcatProperties
      <3> QED BY <1>1, <1>2, <2>3, <3>1
    <2>5. <<0>> \in Seq(0 .. 9) /\ <<0>> # <<>> /\ \A i \in 1 .. Len(<<0>>) : <<0>>[i] = 0 OBVIOUS
    <2>6. NumberOf(z \o s) = n BY <1>2, <2>3, ZerosBefore
    <2>7. NumberOf(<<0>> \o (z \o s)) = n BY <2>4, <2>5, <2>6, ZerosBefore
    <2> QED BY <2>2, <2>4, <2>5, <2>7 DEF n, x
  <1> QED BY <1>1, <1>2, <1>4, <1>5

LEMMA PaddedIs ==
  ASSUME NEW s \in Seq(0 .. 9), NEW n \in Nat, Len(s) <= n
  PROVE  /\ Padded(s, n) \in Seq(0 .. 9) /\ Len(Padded(s, n)) = n
         /\ NumberOf(Padded(s, n)) = NumberOf(s) * Ten[n - Len(s)]
         /\ NumberOf(Padded(s, n)) \in Nat /\ NumberOf(Padded(s, n)) < Ten[n]
  <1> DEFINE z == Zeros(n - Len(s))
  <1>1. n - Len(s) \in Nat /\ Len(s) \in Nat OBVIOUS
  <1>2. z \in Seq(0 .. 9) /\ Len(z) = n - Len(s) /\ \A i \in 1 .. Len(z) : z[i] = 0
    BY <1>1, ZerosAre
  <1>3. Padded(s, n) = s \o z BY DEF Padded
  <1> HIDE DEF z
  <1>4. s \o z \in Seq(0 .. 9) /\ Len(s \o z) = n BY <1>1, <1>2
  <1>5. NumberOf(z) = 0 BY <1>2, NumberOfZeros
  <1>6. NumberOf(s \o z) = NumberOf(s) * Ten[Len(z)] + NumberOf(z) BY <1>2, NumberJoins
  <1>7. NumberOf(s) \in Nat /\ Ten[Len(z)] \in Nat BY <1>1, <1>2, NumberBelow, TenIs
  <1>8. NumberOf(s) * Ten[Len(z)] \in Nat BY <1>7
  <1>9. NumberOf(s \o z) = NumberOf(s) * Ten[Len(z)] BY <1>5, <1>6, <1>8
  <1> QED BY <1>2, <1>3, <1>4, <1>9, NumberBelow

\* The number of the digits of i before those of u.
Joined(i, c, u) == i * c + u

FrontFirst(i, j, u, v) == IF i # j THEN Compare(i, j) ELSE Compare(u, v)

\* Digits in front of more digits of one width: the front decides first.
LEMMA FrontDecides ==
  ASSUME NEW i \in Nat, NEW j \in Nat, NEW c \in Nat \ {0},
         NEW u \in Nat, NEW v \in Nat, u < c, v < c
  PROVE  Compare(Joined(i, c, u), Joined(j, c, v)) = FrontFirst(i, j, u, v)
  <1> USE DEF Joined, FrontFirst
  <1>1. i * c \in Nat /\ j * c \in Nat /\ i * c = c * i /\ j * c = c * j OBVIOUS
  <1>2. CASE i < j
    <2>1. c * i + c <= c * j BY <1>2, ProductMonotone
    <2>2. i * c + u < j * c + v BY <1>1, <2>1
    <2>3. Compare(i * c + u, j * c + v) = -1 BY <1>1, <2>2, CompareIs
    <2>4. Compare(i, j) = -1 BY <1>2, CompareIs
    <2> QED BY <1>2, <2>3, <2>4
  <1>3. CASE j < i
    <2>1. c * j + c <= c * i BY <1>3, ProductMonotone
    <2>2. j * c + v < i * c + u BY <1>1, <2>1
    <2>3. Compare(i * c + u, j * c + v) = 1 BY <1>1, <2>2, CompareIs
    <2>4. Compare(i, j) = 1 BY <1>3, CompareIs
    <2> QED BY <1>3, <2>3, <2>4
  <1>4. CASE i = j
    <2>1. (i * c + u) - (j * c + v) = u - v BY <1>1, <1>4
    <2> QED BY <1>4, <2>1 DEF Compare
  <1> QED BY <1>2, <1>3, <1>4

\* Two trimmed strings: longer is larger, and of one length they are compared
\* as texts.
LEMMA TrimmedCompare ==
  ASSUME NEW s \in Seq(0 .. 9), NEW t \in Seq(0 .. 9),
         s = <<>> \/ s[1] # 0, t = <<>> \/ t[1] # 0
  PROVE  /\ Len(s) # Len(t) => /\ NumberOf(s) # NumberOf(t)
                               /\ Compare(Len(s), Len(t)) = Compare(NumberOf(s), NumberOf(t))
         /\ Len(s) = Len(t) /\ s # t => /\ NumberOf(s) # NumberOf(t)
                                        /\ LexCompare(s, t) = Compare(NumberOf(s), NumberOf(t))
  <1>1. Len(s) \in Nat /\ Len(t) \in Nat /\ NumberOf(s) \in Nat /\ NumberOf(t) \in Nat
    BY NumberBelow
  <1>2. ASSUME Len(s) < Len(t)
        PROVE  NumberOf(s) # NumberOf(t) /\ Compare(Len(s), Len(t)) = Compare(NumberOf(s), NumberOf(t))
    <2>1. NumberOf(s) < NumberOf(t) BY <1>2, LongerIsLarger
    <2>2. Compare(Len(s), Len(t)) = -1 BY <1>1, <1>2, CompareIs
    <2>3. Compare(NumberOf(s), NumberOf(t)) = -1 BY <1>1, <2>1, CompareIs
    <2> QED BY <1>1, <2>1, <2>2, <2>3
  <1>3. ASSUME Len(t) < Len(s)
        PROVE  NumberOf(s) # NumberOf(t) /\ Compare(Len(s), Len(t)) = Compare(NumberOf(s), NumberOf(t))
    <2>1. NumberOf(t) < NumberOf(s) BY <1>3, LongerIsLarger
    <2>2. Compare(Len(s), Len(t)) = 1 BY <1>1, <1>3, CompareIs
    <2>3. Compare(NumberOf(s), NumberOf(t)) = 1 BY <1>1, <2>1, CompareIs
    <2> QED BY <1>1, <2>1, <2>2, <2>3
  <1>4. Len(s) = Len(t) /\ s # t => NumberOf(s) # NumberOf(t) BY SameNumber
  <1>5. Len(s) = Len(t) => LexCompare(s, t) = Compare(NumberOf(s), NumberOf(t)) BY LexIsCompare
  <1>6. Len(s) # Len(t) => Len(s) < Len(t) \/ Len(t) < Len(s) BY <1>1
  <1> QED BY <1>2, <1>3, <1>4, <1>5, <1>6

\* A magnitude with its digits after the point filled up to n of them.
LEMMA AlignedIs ==
  ASSUME NEW d, IsDecimal(d), NEW n \in Nat, d.scale <= n
  PROVE  LET x == SplitDigits(d) IN
         /\ NumberOf(x.int) \in Nat
         /\ NumberOf(Padded(x.frac, n)) \in Nat /\ NumberOf(Padded(x.frac, n)) < Ten[n]
         /\ Magnitude(d.unscaled) * Ten[n - d.scale]
              = NumberOf(x.int) * Ten[n] + NumberOf(Padded(x.frac, n))
  <1> DEFINE x == SplitDigits(d)
             i == NumberOf(x.int)
             f == NumberOf(x.frac)
             p == d.scale
  <1>0. p \in Nat /\ p <= n BY DecimalAssumption DEF IsDecimal
  <1>1. /\ x.int \in Seq(0 .. 9) /\ x.frac \in Seq(0 .. 9) /\ Len(x.frac) = p
        /\ NumberOf(x.int \o x.frac) = Magnitude(d.unscaled)
    BY SplitIs
  <1> HIDE DEF x
  <1>2. NumberOf(x.int \o x.frac) = i * Ten[p] + f BY <1>1, NumberJoins
  <1>3. i \in Nat /\ f \in Nat BY <1>1, NumberBelow
  <1>4. /\ NumberOf(Padded(x.frac, n)) = f * Ten[n - p]
        /\ NumberOf(Padded(x.frac, n)) \in Nat /\ NumberOf(Padded(x.frac, n)) < Ten[n]
    BY <1>0, <1>1, PaddedIs
  <1> HIDE DEF i, f, p
  <1>5. n - p \in Nat /\ p + (n - p) = n BY <1>0
  <1>6. Ten[n] = Ten[p] * Ten[n - p] /\ Ten[p] \in Nat /\ Ten[n - p] \in Nat
    BY <1>0, <1>5, TenAdds, TenIs
  <1>7. \A a, b, c, e \in Nat : (a * b + c) * e = a * (b * e) + c * e OBVIOUS
  <1>8. (i * Ten[p] + f) * Ten[n - p] = i * (Ten[p] * Ten[n - p]) + f * Ten[n - p]
    BY <1>3, <1>6, <1>7
  <1>9. Magnitude(d.unscaled) * Ten[n - p] = i * Ten[n] + NumberOf(Padded(x.frac, n))
    BY <1>1, <1>2, <1>4, <1>6, <1>8
  <1> QED BY <1>3, <1>4, <1>9 DEF x, i, p

\* Comparing digit by digit compares the magnitudes.
LEMMA MagnitudesCompare ==
  ASSUME NEW a, IsDecimal(a), NEW b, IsDecimal(b),
         NEW n \in Nat, n = IF a.scale < b.scale THEN b.scale ELSE a.scale
  PROVE  MagnitudeCompare(a, b)
           = Compare(Magnitude(a.unscaled) * Ten[n - a.scale], Magnitude(b.unscaled) * Ten[n - b.scale])
  <1> DEFINE x == SplitDigits(a)
             y == SplitDigits(b)
             i == TrimZeros(x.int)
             j == TrimZeros(y.int)
             u == Padded(x.frac, n)
             v == Padded(y.frac, n)
             m == IF Len(x.frac) < Len(y.frac) THEN Len(y.frac) ELSE Len(x.frac)
  <1>1. a.scale \in Nat /\ b.scale \in Nat /\ a.scale <= n /\ b.scale <= n
    BY DecimalAssumption DEF IsDecimal
  <1>2. x.int \in Seq(0 .. 9) /\ x.frac \in Seq(0 .. 9) /\ Len(x.frac) = a.scale BY SplitIs
  <1>3. y.int \in Seq(0 .. 9) /\ y.frac \in Seq(0 .. 9) /\ Len(y.frac) = b.scale BY SplitIs
  <1>4. MagnitudeCompare(a, b) = IF Len(i) # Len(j) THEN Compare(Len(i), Len(j))
                                 ELSE IF i # j THEN LexCompare(i, j) ELSE LexCompare(u, v)
    <2>1. m = n BY <1>2, <1>3
    <2>2. MagnitudeCompare(a, b) = IF Len(i) # Len(j) THEN Compare(Len(i), Len(j))
                                   ELSE IF i # j THEN LexCompare(i, j)
                                   ELSE LexCompare(Padded(x.frac, m), Padded(y.frac, m))
      BY DEF MagnitudeCompare
    <2> QED BY <2>1, <2>2
  <1>5. /\ NumberOf(x.int) \in Nat /\ NumberOf(u) \in Nat /\ NumberOf(u) < Ten[n]
        /\ Magnitude(a.unscaled) * Ten[n - a.scale] = NumberOf(x.int) * Ten[n] + NumberOf(u)
    BY <1>1, AlignedIs
  <1>6. /\ NumberOf(y.int) \in Nat /\ NumberOf(v) \in Nat /\ NumberOf(v) < Ten[n]
        /\ Magnitude(b.unscaled) * Ten[n - b.scale] = NumberOf(y.int) * Ten[n] + NumberOf(v)
    BY <1>1, AlignedIs
  <1>7. u \in Seq(0 .. 9) /\ Len(u) = n BY <1>1, <1>2, PaddedIs
  <1>8. v \in Seq(0 .. 9) /\ Len(v) = n BY <1>1, <1>3, PaddedIs
  <1>9. i \in Seq(0 .. 9) /\ (i = <<>> \/ i[1] # 0) /\ NumberOf(i) = NumberOf(x.int)
    BY <1>2, TrimmedIs
  <1>10. j \in Seq(0 .. 9) /\ (j = <<>> \/ j[1] # 0) /\ NumberOf(j) = NumberOf(y.int)
    BY <1>3, TrimmedIs
  <1> HIDE DEF x, y, i, j, u, v, m
  <1>11. LexCompare(u, v) = Compare(NumberOf(u), NumberOf(v)) BY <1>7, <1>8, LexIsCompare
  <1>12. /\ Len(i) # Len(j) => /\ NumberOf(i) # NumberOf(j)
                               /\ Compare(Len(i), Len(j)) = Compare(NumberOf(i), NumberOf(j))
         /\ Len(i) = Len(j) /\ i # j => /\ NumberOf(i) # NumberOf(j)
                                        /\ LexCompare(i, j) = Compare(NumberOf(i), NumberOf(j))
    BY <1>9, <1>10, TrimmedCompare
  <1>13. Ten[n] \in Nat \ {0} BY TenGrows
  <1> DEFINE k == NumberOf(i)
             l == NumberOf(j)
             q == NumberOf(u)
             r == NumberOf(v)
  <1>14. k \in Nat /\ l \in Nat /\ q \in Nat /\ r \in Nat /\ q < Ten[n] /\ r < Ten[n]
    BY <1>5, <1>6, <1>9, <1>10
  <1>15. Magnitude(a.unscaled) * Ten[n - a.scale] = k * Ten[n] + q
         /\ Magnitude(b.unscaled) * Ten[n - b.scale] = l * Ten[n] + r
    BY <1>5, <1>6, <1>9, <1>10
  <1> HIDE DEF k, l, q, r
  <1>16. Compare(k * Ten[n] + q, l * Ten[n] + r) = IF k # l THEN Compare(k, l) ELSE Compare(q, r)
    <2>1. PICK c \in Nat \ {0} : c = Ten[n] BY <1>13
    <2>2. q < c /\ r < c BY <1>14, <2>1
    <2>3. Compare(Joined(k, c, q), Joined(l, c, r)) = FrontFirst(k, l, q, r)
      BY <1>14, <2>2, FrontDecides
    <2>4. Compare(k * c + q, l * c + r) = IF k # l THEN Compare(k, l) ELSE Compare(q, r)
      BY <2>3 DEF Joined, FrontFirst
    <2> QED BY <2>1, <2>4
  <1>17. MagnitudeCompare(a, b) = IF k # l THEN Compare(k, l) ELSE Compare(q, r)
    <2>1. CASE Len(i) # Len(j) BY <1>4, <1>12, <2>1 DEF k, l
    <2>2. CASE Len(i) = Len(j) /\ i # j BY <1>4, <1>12, <2>2 DEF k, l
    <2>3. CASE Len(i) = Len(j) /\ i = j BY <1>4, <1>11, <2>3 DEF k, l, q, r
    <2> QED BY <2>1, <2>2, <2>3
  <1> QED BY <1>15, <1>16, <1>17

LEMMA SignIs ==
  ASSUME NEW n \in Int
  PROVE  /\ n < 0 <=> Sign(n) = -1
         /\ n = 0 <=> Sign(n) = 0
         /\ n > 0 <=> Sign(n) = 1
         /\ Sign(n) \in {-1, 0, 1}
  BY DEF Sign

LEMMA ProductSign ==
  ASSUME NEW m \in Int, NEW c \in Nat \ {0}
  PROVE  /\ m * c \in Int
         /\ m < 0 <=> m * c < 0
         /\ m = 0 <=> m * c = 0
         /\ m > 0 <=> m * c > 0
  <1>1. PICK z \in Int : z = 0 OBVIOUS
  <1>2. Compare(m * c, z * c) = Compare(m, z) BY CompareScaled
  <1>3. z * c = 0 /\ m * c \in Int BY <1>1
  <1>4. Compare(m * c, 0) = Compare(m, 0) BY <1>1, <1>2, <1>3
  <1> QED BY <1>3, <1>4, CompareIs

LEMMA CompareNegated ==
  ASSUME NEW m \in Int, NEW n \in Int
  PROVE  Compare(-m, -n) = -Compare(m, n)
  BY DEF Compare, Sign

LEMMA DigitwiseIs ==
  ASSUME NEW a, IsDecimal(a), NEW b, IsDecimal(b),
         NEW n \in Nat, n = IF a.scale < b.scale THEN b.scale ELSE a.scale
  PROVE  DigitwiseCompare(a, b)
           = Compare(a.unscaled * Ten[n - a.scale], b.unscaled * Ten[n - b.scale])
  <1> DEFINE x == a.unscaled
             y == b.unscaled
             c == Ten[n - a.scale]
             e == Ten[n - b.scale]
  <1>1. x \in Int /\ y \in Int BY DEF IsDecimal
  <1>2. c \in Nat \ {0} /\ e \in Nat \ {0}
    <2>1. n - a.scale \in Nat /\ n - b.scale \in Nat BY DecimalAssumption DEF IsDecimal
    <2> QED BY <2>1, TenGrows
  <1>3. MagnitudeCompare(a, b) = Compare(Magnitude(x) * c, Magnitude(y) * e) BY MagnitudesCompare
  <1>4. DigitwiseCompare(a, b) = IF Sign(x) # Sign(y) THEN Compare(Sign(x), Sign(y))
                                 ELSE IF x < 0 THEN -MagnitudeCompare(a, b)
                                 ELSE MagnitudeCompare(a, b)
    BY DEF DigitwiseCompare
  <1> HIDE DEF x, y, c, e
  <1>5. /\ x * c \in Int /\ (x < 0 <=> x * c < 0) /\ (x = 0 <=> x * c = 0) /\ (x > 0 <=> x * c > 0)
        /\ y * e \in Int /\ (y < 0 <=> y * e < 0) /\ (y = 0 <=> y * e = 0) /\ (y > 0 <=> y * e > 0)
    BY <1>1, <1>2, ProductSign
  <1>6. Sign(x) = Sign(x * c) /\ Sign(y) = Sign(y * e) BY <1>1, <1>5 DEF Sign
  <1>7. CASE Sign(x) # Sign(y)
    <2>1. \A m, k \in Int : Sign(m) # Sign(k) => Compare(m, k) = Compare(Sign(m), Sign(k))
      BY DEF Sign, Compare
    <2>2. Compare(x * c, y * e) = Compare(Sign(x * c), Sign(y * e)) BY <1>5, <1>6, <1>7, <2>1
    <2> QED BY <1>4, <1>6, <1>7, <2>2 DEF x, y, c, e
  <1>8. CASE Sign(x) = Sign(y) /\ x < 0
    <2>1. y < 0 BY <1>1, <1>8, SignIs
    <2>2. Magnitude(x) = -x /\ Magnitude(y) = -y BY <1>1, <1>8, <2>1 DEF Magnitude
    <2>3. (-x) * c = -(x * c) /\ (-y) * e = -(y * e) BY <1>1, <1>2
    <2>4. MagnitudeCompare(a, b) = -Compare(x * c, y * e)
      BY <1>3, <1>5, <2>2, <2>3, CompareNegated
    <2>5. Compare(x * c, y * e) \in Int BY <1>5, CompareIs
    <2>6. DigitwiseCompare(a, b) = Compare(x * c, y * e) BY <1>4, <1>8, <2>4, <2>5
    <2> QED BY <2>6 DEF x, y, c, e
  <1>9. CASE Sign(x) = Sign(y) /\ ~(x < 0)
    <2>1. ~(y < 0) BY <1>1, <1>9, SignIs
    <2>2. Magnitude(x) = x /\ Magnitude(y) = y BY <1>1, <1>9, <2>1 DEF Magnitude
    <2>3. DigitwiseCompare(a, b) = Compare(x * c, y * e) BY <1>3, <1>4, <1>9, <2>2
    <2> QED BY <2>3 DEF x, y, c, e
  <1> QED BY <1>7, <1>8, <1>9

-------------------------------------------------------------------------------
\* Rescaling

LEMMA UnitsPositive ==
  ASSUME NEW d, IsDecimal(d)
  PROVE  /\ MaxPrecision - d.scale \in Nat /\ d.scale \in Nat
         /\ Ten[MaxPrecision - d.scale] \in Nat \ {0}
         /\ UnitsOfDecimal(d) \in Int
  <1>1. MaxPrecision - d.scale \in Nat /\ d.scale \in Nat BY DecimalAssumption DEF IsDecimal
  <1>2. Ten[MaxPrecision - d.scale] \in Nat \ {0} BY <1>1, TenGrows
  <1>3. d.unscaled \in Int BY DEF IsDecimal
  <1>4. \A m \in Int : \A c \in Nat : m * c \in Int OBVIOUS
  <1> QED BY <1>1, <1>2, <1>3, <1>4 DEF UnitsOfDecimal

LEMMA WidthIs ==
  /\ MinInt \in Int /\ MaxInt \in Int
  /\ \A n \in Int : Fits(n) <=> MinInt <= n /\ n <= MaxInt
  /\ \A n : Fits(n) => n \in Int
  BY DecimalAssumption DEF Fits

LEMMA ShiftedIs ==
  ASSUME NEW n \in Int, NEW k \in Nat
  PROVE  /\ Shifted(n, k) # None => Shifted(n, k) = n * Ten[k] /\ Fits(n * Ten[k])
         /\ Fits(n * Ten[k]) => Shifted(n, k) = n * Ten[k]
  <1>1. n # None BY NoneAssumption
  <1> QED BY <1>1 DEF Shifted

LEMMA RescaleKeeps ==
  ASSUME NEW d, IsDecimal(d), NEW target \in Nat, Rescale(d, target) # None
  PROVE  /\ IsDecimal(Rescale(d, target))
         /\ Rescale(d, target).scale = target
         /\ UnitsOfDecimal(Rescale(d, target)) = UnitsOfDecimal(d)
  <1> DEFINE r == Rescale(d, target)
             u == d.unscaled
             p == d.scale
             M == MaxPrecision
  <1>1. p \in Nat /\ p <= M /\ M \in Nat /\ u \in Int /\ Fits(u)
    BY DecimalAssumption DEF IsDecimal
  <1>2. target <= M
    <2>1. ~(target > M) BY DEF Rescale
    <2> QED BY <1>1, <2>1
  <1>3. M - target \in Nat /\ M - p \in Nat BY <1>1, <1>2
  <1>4. Ten[M - target] \in Nat /\ Ten[M - p] \in Nat BY <1>3, TenIs
  <1>5. CASE target >= p
    <2> DEFINE w == Shifted(u, target - p)
    <2>1. target - p \in Nat BY <1>1, <1>5
    <2>2. r = IF w = None THEN None ELSE DecimalOf(w, target) BY <1>1, <1>2, <1>5 DEF Rescale
    <2>3. w # None /\ r = DecimalOf(w, target) BY <2>2
    <2>4. w = u * Ten[target - p] /\ Fits(w) BY <1>1, <2>1, <2>3, ShiftedIs
    <2> HIDE DEF w, r
    <2>5. r.unscaled = w /\ r.scale = target BY <2>3 DEF DecimalOf
    <2>6. IsDecimal(r) BY <1>1, <1>2, <2>3, <2>4, <2>5, WidthIs DEF IsDecimal
    <2>7. Ten[target - p] \in Nat BY <2>1, TenIs
    <2>8. (target - p) + (M - target) = M - p BY <1>1, <1>2
    <2>9. Ten[M - p] = Ten[target - p] * Ten[M - target] BY <1>3, <2>1, <2>8, TenAdds
    <2>10. \A m \in Int : \A a, b \in Nat : (m * a) * b = m * (a * b) OBVIOUS
    <2>11. w * Ten[M - target] = u * Ten[M - p] BY <1>1, <1>4, <2>4, <2>7, <2>9, <2>10
    <2> QED BY <2>5, <2>6, <2>11 DEF UnitsOfDecimal, r
  <1>6. CASE target < p
    <2> DEFINE m == Magnitude(u)
               c == Ten[p - target]
               q == m \div c
    <2>1. p - target \in Nat BY <1>1, <1>6
    <2>2. c \in Nat \ {0} BY <2>1, TenGrows
    <2>3. m \in Nat /\ (u < 0 => u = -m) /\ (u >= 0 => u = m) BY <1>1, MagnitudeIs
    <2>4. ~(target >= p) /\ ~(target > M) BY <1>1, <1>2, <1>6
    <2>5. r = IF m % c # 0 THEN None ELSE DecimalOf(Sign(u) * q, target)
      BY <2>4 DEF Rescale
    <2>6. m % c = 0 /\ r = DecimalOf(Sign(u) * q, target) BY <2>5
    <2>7. q \in Nat /\ m = c * q + (m % c) BY <2>2, <2>3, Divided
    <2>8. m = c * q
      <3>1. c * q \in Nat BY <2>2, <2>7
      <3> QED BY <2>6, <2>7, <3>1
    <2> HIDE DEF r, m, c, q
    <2>9. Sign(u) \in Int /\ u = Sign(u) * m
      <3>1. CASE u < 0
        <4>1. Sign(u) = -1 BY <1>1, <3>1, SignIs
        <4> QED BY <2>3, <3>1, <4>1
      <3>2. CASE u = 0
        <4>1. Sign(u) = 0 BY <1>1, <3>2, SignIs
        <4> QED BY <2>3, <3>2, <4>1
      <3>3. CASE u > 0
        <4>1. Sign(u) = 1 BY <1>1, <3>3, SignIs
        <4>2. u >= 0 /\ u = m /\ m = 1 * m BY <1>1, <2>3, <3>3
        <4> QED BY <4>1, <4>2
      <3> QED BY <1>1, <3>1, <3>2, <3>3
    <2>10. r.unscaled = Sign(u) * q /\ r.scale = target BY <2>6 DEF DecimalOf
    <2>11. q <= m
      <3>1. \A a \in Nat \ {0} : \A b \in Nat : b <= a * b OBVIOUS
      <3> QED BY <2>2, <2>7, <2>8, <3>1
    <2>12. Sign(u) * q \in Int /\ Fits(Sign(u) * q)
      <3>1. CASE u < 0
        <4>1. Sign(u) = -1 BY <1>1, <3>1, SignIs
        <4>2. Sign(u) * q = -q /\ u = -m BY <2>3, <2>7, <3>1, <4>1
        <4>3. MinInt <= -q /\ -q <= MaxInt
          BY <1>1, <2>3, <2>7, <2>11, <4>2, WidthIs, DecimalAssumption
        <4> QED BY <2>7, <4>2, <4>3, WidthIs
      <3>2. CASE u >= 0
        <4>1. Sign(u) \in {0, 1} BY <1>1, <3>2, SignIs
        <4>2. Sign(u) * q \in Nat /\ Sign(u) * q <= q BY <2>7, <4>1
        <4>3. q <= u BY <2>3, <2>11, <3>2
        <4>4. MinInt <= Sign(u) * q /\ Sign(u) * q <= MaxInt
          BY <1>1, <2>7, <4>2, <4>3, WidthIs, DecimalAssumption
        <4> QED BY <4>2, <4>4, WidthIs
      <3> QED BY <1>1, <3>1, <3>2
    <2>13. IsDecimal(r) BY <1>1, <1>2, <2>6, <2>10, <2>12 DEF IsDecimal
    <2>14. (p - target) + (M - p) = M - target BY <1>1, <1>2
    <2>15. Ten[M - target] = c * Ten[M - p] BY <1>3, <2>1, <2>14, TenAdds DEF c
    <2>16. \A s \in Int : \A a, b, e \in Nat : (s * b) * (a * e) = (s * (a * b)) * e OBVIOUS
    <2>17. (Sign(u) * q) * (c * Ten[M - p]) = (Sign(u) * (c * q)) * Ten[M - p]
      BY <1>4, <2>2, <2>7, <2>9, <2>16
    <2>18. (Sign(u) * q) * Ten[M - target] = u * Ten[M - p] BY <2>8, <2>9, <2>15, <2>17
    <2> QED BY <2>10, <2>13, <2>18 DEF UnitsOfDecimal, r
  <1> QED BY <1>1, <1>5, <1>6

-------------------------------------------------------------------------------
\* The order of decimals

\* cmp_value is the order of the numbers, on either of its paths.
LEMMA DecimalsCompare ==
  ASSUME NEW a, IsDecimal(a), NEW b, IsDecimal(b)
  PROVE  DecimalCompare(a, b) = Compare(UnitsOfDecimal(a), UnitsOfDecimal(b))
  <1> DEFINE n == IF a.scale < b.scale THEN b.scale ELSE a.scale
             x == Rescale(a, n)
             y == Rescale(b, n)
             M == MaxPrecision
  <1>1. /\ a.scale \in Nat /\ b.scale \in Nat /\ M \in Nat /\ a.scale <= M /\ b.scale <= M
        /\ a.unscaled \in Int /\ b.unscaled \in Int
    BY DecimalAssumption DEF IsDecimal
  <1>2. n \in Nat /\ a.scale <= n /\ b.scale <= n /\ n <= M BY <1>1
  <1>3. DecimalCompare(a, b) = IF x # None /\ y # None THEN Compare(x.unscaled, y.unscaled)
                               ELSE DigitwiseCompare(a, b)
    BY DEF DecimalCompare
  <1>4. DigitwiseCompare(a, b) = Compare(a.unscaled * Ten[n - a.scale], b.unscaled * Ten[n - b.scale])
    BY <1>2, DigitwiseIs
  <1> HIDE DEF n, x, y
  <1>5. M - n \in Nat /\ Ten[M - n] \in Nat \ {0}
    <2>1. M - n \in Nat BY <1>1, <1>2
    <2> QED BY <2>1, TenGrows
  <1>6. CASE x # None /\ y # None
    <2>1. /\ IsDecimal(x) /\ x.scale = n /\ UnitsOfDecimal(x) = UnitsOfDecimal(a)
          /\ IsDecimal(y) /\ y.scale = n /\ UnitsOfDecimal(y) = UnitsOfDecimal(b)
      BY <1>2, <1>6, RescaleKeeps DEF x, y
    <2>2. x.unscaled \in Int /\ y.unscaled \in Int BY <2>1 DEF IsDecimal
    <2>3. Compare(x.unscaled * Ten[M - n], y.unscaled * Ten[M - n]) = Compare(x.unscaled, y.unscaled)
      BY <1>5, <2>2, CompareScaled
    <2> QED BY <1>3, <1>6, <2>1, <2>3 DEF UnitsOfDecimal
  <1>7. CASE ~(x # None /\ y # None)
    <2> DEFINE k == a.unscaled * Ten[n - a.scale]
               l == b.unscaled * Ten[n - b.scale]
    <2>1. n - a.scale \in Nat /\ n - b.scale \in Nat BY <1>1, <1>2
    <2>2. Ten[n - a.scale] \in Nat /\ Ten[n - b.scale] \in Nat BY <2>1, TenIs
    <2>3. \A m \in Int : \A c \in Nat : m * c \in Int OBVIOUS
    <2>4. k \in Int /\ l \in Int BY <1>1, <2>2, <2>3
    <2>5. Compare(k * Ten[M - n], l * Ten[M - n]) = Compare(k, l) BY <1>5, <2>4, CompareScaled
    <2>6. (n - a.scale) + (M - n) = M - a.scale /\ (n - b.scale) + (M - n) = M - b.scale
      BY <1>1, <1>2
    <2>7. /\ Ten[M - a.scale] = Ten[n - a.scale] * Ten[M - n]
          /\ Ten[M - b.scale] = Ten[n - b.scale] * Ten[M - n]
      BY <1>5, <2>1, <2>6, TenAdds
    <2>8. \A m \in Int : \A c, e \in Nat : (m * c) * e = m * (c * e) OBVIOUS
    <2>9. k * Ten[M - n] = UnitsOfDecimal(a) /\ l * Ten[M - n] = UnitsOfDecimal(b)
      BY <1>1, <1>5, <2>2, <2>7, <2>8 DEF UnitsOfDecimal
    <2> QED BY <1>3, <1>4, <1>7, <2>5, <2>9
  <1> QED BY <1>6, <1>7

-------------------------------------------------------------------------------
\* Reading

LEMMA Accumulates ==
  ASSUME NEW s \in Seq(0 .. 9)
  PROVE  /\ Accumulate(s) # None => Accumulate(s) = NumberOf(s) /\ Fits(NumberOf(s))
         /\ Fits(NumberOf(s)) => Accumulate(s) = NumberOf(s)
  <1> DEFINE p == PrefixNumbers(s)
             Steps(f) == f = [k \in 0 .. Len(s) |->
                                IF k = 0 THEN 0
                                ELSE IF f[k - 1] # None /\ Fits(10 * f[k - 1] + s[k])
                                THEN 10 * f[k - 1] + s[k]
                                ELSE None]
             read == CHOOSE f : Steps(f)
             Upto(k) == IF Fits(p[k]) THEN p[k] ELSE None
  <1>1. /\ p[0] = 0 /\ p \in [0 .. Len(s) -> Nat] /\ NumberOf(s) = p[Len(s)]
        /\ \A k \in 1 .. Len(s) : p[k] = 10 * p[k - 1] + s[k]
    BY PrefixesAre, DigitStrings
  <1>2. Accumulate(s) = read[Len(s)] BY DEF Accumulate
  <1>3. Len(s) \in Nat /\ \A k \in 1 .. Len(s) : s[k] \in 0 .. 9 BY DigitStrings
  <1> HIDE DEF p
  <1>4. Fits(0) BY DecimalAssumption DEF Fits
  <1>5. ASSUME NEW k \in 1 .. Len(s)
        PROVE  /\ k - 1 \in 0 .. Len(s) /\ p[k - 1] \in Nat /\ p[k] \in Nat
               /\ Fits(p[k]) => Fits(p[k - 1])
    <2>1. k - 1 \in 0 .. Len(s) /\ k \in 0 .. Len(s) BY <1>3
    <2>2. p[k - 1] \in Nat /\ p[k] \in Nat /\ p[k] = 10 * p[k - 1] + s[k] /\ s[k] \in 0 .. 9
      BY <1>1, <1>3, <2>1
    <2>3. p[k - 1] <= p[k]
      <3>1. \A x \in Nat : \A d \in 0 .. 9 : x <= 10 * x + d OBVIOUS
      <3> QED BY <2>2, <3>1
    <2>4. Fits(p[k]) => Fits(p[k - 1]) BY <2>2, <2>3, DecimalAssumption DEF Fits
    <2> QED BY <2>1, <2>2, <2>4
  <1> DEFINE g == [k \in 0 .. Len(s) |-> Upto(k)]
  <1>6. ASSUME NEW k \in 1 .. Len(s)
        PROVE  Upto(k) = IF Upto(k - 1) # None /\ Fits(10 * Upto(k - 1) + s[k])
                         THEN 10 * Upto(k - 1) + s[k] ELSE None
    <2>1. p[k] = 10 * p[k - 1] + s[k] /\ p[k - 1] \in Nat BY <1>1, <1>5
    <2>2. p[k - 1] # None BY <2>1, NoneAssumption
    <2>3. CASE Fits(p[k - 1])
      <3>1. Upto(k - 1) = p[k - 1] BY <2>3
      <3> QED BY <2>1, <2>2, <3>1
    <2>4. CASE ~Fits(p[k - 1])
      <3>1. Upto(k - 1) = None /\ ~Fits(p[k]) BY <1>5, <2>4
      <3> QED BY <3>1
    <2> QED BY <2>3, <2>4
  <1>7. Upto(0) = 0 BY <1>1, <1>4
  <1> HIDE DEF Upto
  <1>8. Steps(g)
    <2>1. ASSUME NEW k \in 0 .. Len(s)
          PROVE  g[k] = IF k = 0 THEN 0
                        ELSE IF g[k - 1] # None /\ Fits(10 * g[k - 1] + s[k])
                        THEN 10 * g[k - 1] + s[k] ELSE None
      <3>1. CASE k = 0 BY <1>7, <3>1
      <3>2. CASE k # 0
        <4>1. k \in 1 .. Len(s) BY <1>3, <3>2
        <4>2. g[k - 1] = Upto(k - 1) /\ g[k] = Upto(k) BY <1>5, <4>1
        <4> HIDE DEF g
        <4> QED BY <1>6, <3>2, <4>1, <4>2
      <3> QED BY <3>1, <3>2
    <2>2. g = [k \in 0 .. Len(s) |-> g[k]] OBVIOUS
    <2> QED BY <2>1, <2>2
  <1> HIDE DEF g
  <1>9. Steps(read) BY <1>8
  <1> HIDE DEF read
  <1> DEFINE T == {k \in Nat : k <= Len(s) => read[k] = Upto(k)}
  <1>10. 0 \in T
    <2>1. 0 \in 0 .. Len(s) BY <1>3
    <2>2. read[0] = 0 BY <1>9, <2>1
    <2> QED BY <1>7, <2>2
  <1>11. ASSUME NEW k \in Nat, k \in T PROVE k + 1 \in T
    <2> SUFFICES ASSUME k + 1 <= Len(s) PROVE read[k + 1] = Upto(k + 1) OBVIOUS
    <2>1. k + 1 \in 1 .. Len(s) /\ k + 1 \in 0 .. Len(s) /\ (k + 1) - 1 = k /\ k + 1 # 0
          /\ read[k] = Upto(k)
      BY <1>3, <1>11
    <2>2. read[k + 1] = IF read[(k + 1) - 1] # None /\ Fits(10 * read[(k + 1) - 1] + s[k + 1])
                        THEN 10 * read[(k + 1) - 1] + s[k + 1] ELSE None
      BY <1>9, <2>1
    <2> QED BY <1>6, <2>1, <2>2
  <1> HIDE DEF T
  <1>12. \A k \in Nat : k \in T BY <1>10, <1>11, Induction
  <1>13. Accumulate(s) = Upto(Len(s)) BY <1>2, <1>3, <1>12 DEF T
  <1>14. Accumulate(s) = IF Fits(NumberOf(s)) THEN NumberOf(s) ELSE None BY <1>1, <1>13 DEF Upto
  <1> QED BY <1>14

\* A literal: digits, a sign and an exponent.
IsLiteral(l) ==
  /\ l.negative \in BOOLEAN
  /\ l.int \in Seq(0 .. 9) /\ l.frac \in Seq(0 .. 9)
  /\ l.exp \in Int

Negated(negative, n) == IF negative THEN -n ELSE n

LEMMA SignedProduct ==
  ASSUME NEW b \in BOOLEAN, NEW v \in Nat, NEW n \in Nat, NEW x \in Nat, NEW y \in Nat,
         v * x = n * y
  PROVE  Negated(b, v) * x = (IF b THEN -1 ELSE 1) * n * y
  <1>1. (-v) * x = -1 * n * y /\ v * x = 1 * n * y
    <2>1. \A r, s, t, w \in Nat : r * s = t * w => (-r) * s = -1 * t * w /\ r * s = 1 * t * w
      OBVIOUS
    <2> QED BY <2>1
  <1>2. CASE b = TRUE BY <1>1, <1>2 DEF Negated
  <1>3. CASE b = FALSE BY <1>1, <1>3 DEF Negated
  <1> QED BY <1>2, <1>3

\* The decimal that a literal is when nothing is too large.
LEMMA ParseIs ==
  ASSUME NEW l, IsLiteral(l), Parse(l) # None
  PROVE  /\ IsDecimal(Parse(l))
         /\ UnitsOfDecimal(Parse(l)) = UnitsOf(l)
         /\ Parse(l).unscaled # MinInt
  <1> DEFINE s == l.int \o l.frac
             n == NumberOf(s)
             k == Len(l.frac) - l.exp
             a == Accumulate(s)
             v == IF k < 0 THEN Shifted(a, -k) ELSE a
             p == IF k < 0 THEN 0 ELSE k
             r == Parse(l)
             M == MaxPrecision
  <1>1. s \in Seq(0 .. 9) BY ConcatProperties DEF IsLiteral
  <1>2. Len(l.frac) \in Nat /\ l.exp \in Int /\ k \in Int /\ M \in Nat
    BY DecimalAssumption DEF IsLiteral
  <1>3. r = IF s = <<>> \/ v = None \/ k > M THEN None ELSE DecimalOf(Negated(l.negative, v), p)
    BY DEF Parse, Negated
  <1>4. UnitsOf(l) = (IF l.negative THEN -1 ELSE 1) * n * Ten[M - Len(l.frac) + l.exp]
    BY DEF UnitsOf
  <1>5. n \in Nat /\ (a # None => a = n /\ Fits(n)) BY <1>1, NumberBelow, Accumulates
  <1>6. l.negative \in BOOLEAN BY DEF IsLiteral
  <1>7. v # None /\ ~(k > M) /\ r = DecimalOf(Negated(l.negative, v), p) BY <1>3
  <1>8. M - k \in Nat /\ M - Len(l.frac) + l.exp = M - k BY <1>2, <1>7
  <1> HIDE DEF r, a, n, s
  <1>9. a # None
    <2>1. Shifted(None, -k) = None BY DEF Shifted
    <2> QED BY <1>7, <2>1
  <1>10. p \in Nat /\ p <= M /\ M - p \in Nat BY <1>2, <1>7
  <1>11. v \in Nat /\ Fits(v) /\ v * Ten[M - p] = n * Ten[M - k]
    <2>1. CASE k < 0
      <3>0. -k \in Nat
        <4>1. \A x \in Int : x < 0 => -x \in Nat OBVIOUS
        <4> HIDE DEF k
        <4> QED BY <1>2, <2>1, <4>1
      <3>1. -k \in Nat /\ Ten[-k] \in Nat BY <3>0, TenIs
      <3>2. a = n /\ n \in Int BY <1>5, <1>9
      <3>3. v = Shifted(n, -k) /\ v # None BY <1>7, <2>1, <3>2
      <3>4. v = n * Ten[-k] /\ Fits(v) BY <3>1, <3>2, <3>3, ShiftedIs
      <3> HIDE DEF v
      <3>5. v \in Nat
        <4>1. \A x, y \in Nat : x * y \in Nat OBVIOUS
        <4> QED BY <1>5, <3>1, <3>4, <4>1
      <3>6. M - p = M /\ -k + M = M - k BY <1>2, <2>1
      <3>7. Ten[M - k] = Ten[-k] * Ten[M] /\ Ten[M] \in Nat BY <1>2, <3>1, <3>6, TenAdds, TenIs
      <3>8. \A x, y, z \in Nat : (x * y) * z = x * (y * z) OBVIOUS
      <3>9. v * Ten[M] = n * (Ten[-k] * Ten[M]) BY <1>5, <3>1, <3>4, <3>7, <3>8
      <3> QED BY <3>4, <3>5, <3>6, <3>7, <3>9
    <2>2. CASE ~(k < 0) BY <1>5, <1>9, <2>2
    <2> QED BY <2>1, <2>2
  <1> HIDE DEF v, p, k
  <1> DEFINE m == Negated(l.negative, v)
  <1>12. m \in Int /\ Fits(m) /\ m # MinInt
    <2>1. v <= MaxInt /\ MinInt <= v /\ v \in Nat BY <1>11, WidthIs
    <2>2. MinInt < -v /\ -v <= MaxInt /\ MinInt < v BY <2>1, DecimalAssumption
    <2> QED BY <1>6, <2>1, <2>2, WidthIs DEF Negated
  <1>13. r.unscaled = m /\ r.scale = p BY <1>7 DEF DecimalOf
  <1>14. IsDecimal(r) BY <1>2, <1>7, <1>10, <1>12, <1>13 DEF IsDecimal
  <1>15. m * Ten[M - p] = (IF l.negative THEN -1 ELSE 1) * n * Ten[M - k]
    <2>1. Ten[M - p] \in Nat /\ Ten[M - k] \in Nat BY <1>8, <1>10, TenIs
    <2> HIDE DEF M
    <2> QED BY <1>5, <1>6, <1>11, <2>1, SignedProduct
  <1> HIDE DEF m
  <1>16. UnitsOfDecimal(r) = UnitsOf(l) BY <1>4, <1>8, <1>13, <1>15 DEF UnitsOfDecimal
  <1> QED BY <1>12, <1>13, <1>14, <1>16 DEF r

\* What parse reads where nothing is too large.
LEMMA ParseReads ==
  ASSUME NEW l, IsLiteral(l), l.int \o l.frac # <<>>, Fits(NumberOf(l.int \o l.frac)),
         Len(l.frac) - l.exp \in 0 .. MaxPrecision
  PROVE  Parse(l) = DecimalOf(Negated(l.negative, NumberOf(l.int \o l.frac)), Len(l.frac) - l.exp)
  <1> DEFINE s == l.int \o l.frac
             n == NumberOf(s)
             k == Len(l.frac) - l.exp
             a == Accumulate(s)
  <1>1. s \in Seq(0 .. 9) BY ConcatProperties DEF IsLiteral
  <1>2. Len(l.frac) \in Nat /\ l.exp \in Int /\ k \in Int /\ MaxPrecision \in Nat
    BY DecimalAssumption DEF IsLiteral
  <1>3. Parse(l) = IF s = <<>> \/ (IF k < 0 THEN Shifted(a, -k) ELSE a) = None \/ k > MaxPrecision
                   THEN None
                   ELSE DecimalOf(Negated(l.negative, IF k < 0 THEN Shifted(a, -k) ELSE a),
                                  IF k < 0 THEN 0 ELSE k)
    BY DEF Parse, Negated
  <1>4. a = n /\ n \in Nat BY <1>1, NumberBelow, Accumulates
  <1>5. n # None BY <1>4, NoneAssumption
  <1>6. ~(k < 0) /\ ~(k > MaxPrecision) BY <1>2
  <1> HIDE DEF s, n, k, a
  <1>7. s # <<>> BY DEF s
  <1>8. Parse(l) = DecimalOf(Negated(l.negative, n), k) BY <1>3, <1>4, <1>5, <1>6, <1>7
  <1> QED BY <1>8 DEF s, n, k

LEMMA DisplayIs ==
  ASSUME NEW d, IsDecimal(d)
  PROVE  /\ IsLiteral(Display(d))
         /\ Display(d).exp = 0 /\ Display(d).negative = (d.unscaled < 0)
         /\ Display(d).int \o Display(d).frac # <<>>
         /\ NumberOf(Display(d).int \o Display(d).frac) = Magnitude(d.unscaled)
         /\ Len(Display(d).frac) = d.scale
  <1> DEFINE x == SplitDigits(d)
  <1>1. /\ x.int \in Seq(0 .. 9) /\ x.int # <<>>
        /\ x.frac \in Seq(0 .. 9) /\ Len(x.frac) = d.scale
        /\ NumberOf(x.int \o x.frac) = Magnitude(d.unscaled)
    BY SplitIs
  <1>2. Display(d) = Literal(d.unscaled < 0, x.int, x.frac, 0) BY DEF Display
  <1> HIDE DEF x
  <1>3. /\ Display(d).negative = (d.unscaled < 0)
        /\ Display(d).int = x.int /\ Display(d).frac = x.frac /\ Display(d).exp = 0
    BY <1>2 DEF Literal
  <1>4. (d.unscaled < 0) \in BOOLEAN BY DEF IsDecimal
  <1>5. x.int \o x.frac # <<>>
    <2>1. ASSUME NEW s \in Seq(0 .. 9), NEW t \in Seq(0 .. 9), s # <<>>
          PROVE  s \o t # <<>>
      <3>1. Len(s \o t) = Len(s) + Len(t) BY ConcatProperties
      <3>2. Len(s) \in Nat \ {0} /\ Len(t) \in Nat BY <2>1
      <3>3. Len(<<>>) = 0 OBVIOUS
      <3> QED BY <3>1, <3>2, <3>3
    <2> QED BY <1>1, <2>1
  <1> QED BY <1>1, <1>3, <1>4, <1>5 DEF IsLiteral

\* Every decimal but the least integer at some scale prints what reads back as it
\* (Display's comment: for every representable value); parse accumulates the
\* magnitude, and that of the least integer is one too large (Decimal's Display,
\* split_digits and parse).
THEOREM PrintsAndReads ==
  ASSUME NEW d, IsDecimal(d)
  PROVE  Parse(Display(d)) = IF d.unscaled = MinInt THEN None ELSE d
  <1> DEFINE l == Display(d)
             m == Magnitude(d.unscaled)
  <1>1. /\ IsLiteral(l) /\ l.exp = 0 /\ l.negative = (d.unscaled < 0)
        /\ l.int \o l.frac # <<>> /\ NumberOf(l.int \o l.frac) = m
        /\ Len(l.frac) = d.scale
    BY DisplayIs
  <1>2. /\ d = DecimalOf(d.unscaled, d.scale) /\ d.unscaled \in Int /\ Fits(d.unscaled)
        /\ d.scale \in 0 .. MaxPrecision /\ d.scale - 0 = d.scale
    BY DecimalAssumption DEF IsDecimal
  <1>3. m \in Nat /\ (d.unscaled < 0 => d.unscaled = -m) /\ (d.unscaled >= 0 => d.unscaled = m)
    BY <1>2, MagnitudeIs
  <1> HIDE DEF l, m
  <1>4. CASE d.unscaled # MinInt
    <2>1. Fits(m) BY <1>2, <1>3, <1>4, WidthIs, DecimalAssumption
    <2>2. Parse(l) = DecimalOf(Negated(l.negative, m), d.scale)
      BY <1>1, <1>2, <2>1, ParseReads
    <2>3. Negated(d.unscaled < 0, m) = d.unscaled BY <1>2, <1>3 DEF Negated
    <2> QED BY <1>1, <1>2, <1>4, <2>2, <2>3 DEF l
  <1>5. CASE d.unscaled = MinInt
    <2>1. m = MaxInt + 1 /\ ~Fits(m)
      <3>1. MaxInt \in Nat /\ MinInt = -MaxInt - 1 BY DecimalAssumption
      <3>2. m = MaxInt + 1 BY <1>3, <1>5, <3>1
      <3> HIDE DEF m
      <3> QED BY <3>1, <3>2, WidthIs
    <2>2. Accumulate(l.int \o l.frac) = None
      BY <1>1, <2>1, Accumulates, ConcatProperties DEF IsLiteral
    <2>3. ~(Len(l.frac) - l.exp < 0) BY <1>1, <1>2
    <2>4. Parse(l) = None BY <2>2, <2>3 DEF Parse
    <2> QED BY <1>5, <2>4 DEF l
  <1> QED BY <1>4, <1>5

\* A rescaled decimal is not the least integer: that one is no multiple of ten.
LEMMA RescaleReadable ==
  ASSUME NEW d, IsDecimal(d), d.unscaled # MinInt,
         NEW target \in Nat, Rescale(d, target) # None
  PROVE  Rescale(d, target).unscaled # MinInt
  <1> DEFINE w == Rescale(d, target).unscaled
             u == d.unscaled
             p == d.scale
             M == MaxPrecision
  <1>0. /\ IsDecimal(Rescale(d, target)) /\ Rescale(d, target).scale = target
        /\ UnitsOfDecimal(Rescale(d, target)) = UnitsOfDecimal(d)
    BY RescaleKeeps
  <1>1. /\ w \in Int /\ target \in 0 .. M /\ w * Ten[M - target] = u * Ten[M - p]
        /\ p \in 0 .. M /\ u \in Int /\ Fits(u) /\ M \in Nat
    <2>1. M \in Nat BY DecimalAssumption
    <2>2. w \in Int /\ target \in 0 .. M BY <1>0 DEF IsDecimal
    <2>3. p \in 0 .. M /\ u \in Int /\ Fits(u) BY DEF IsDecimal
    <2>4. w * Ten[M - target] = u * Ten[M - p] BY <1>0 DEF UnitsOfDecimal
    <2> QED BY <2>1, <2>2, <2>3, <2>4
  <1> HIDE DEF w, u, p, M
  <1> SUFFICES ASSUME w = MinInt PROVE FALSE BY DEF w
  <1>2. M - target \in Nat /\ M - p \in Nat BY <1>1
  <1>3. Ten[M - target] \in Nat \ {0} /\ Ten[M - p] \in Nat \ {0} BY <1>2, TenGrows
  <1>4. \A x, y \in Int : \A c \in Nat \ {0} : x * c = y * c => x = y
    <2> TAKE x \in Int, y \in Int, c \in Nat \ {0}
    <2>1. x * c \in Int /\ y * c \in Int OBVIOUS
    <2>2. x * c = y * c => Compare(x * c, y * c) = 0 BY <2>1, CompareIs
    <2> QED BY <2>2, CompareScaled, CompareIs
  <1>5. CASE p < target
    <2> DEFINE k == target - p
    <2>1. k \in Nat /\ k - 1 \in Nat /\ (k - 1) + 1 = k /\ k + (M - target) = M - p BY <1>1, <1>5
    <2> HIDE DEF k
    <2>2. Ten[k] = 10 * Ten[k - 1] /\ Ten[k - 1] \in Nat /\ Ten[k] \in Nat BY <2>1, TenIs
    <2>3. Ten[M - p] = Ten[k] * Ten[M - target] BY <1>2, <2>1, TenAdds
    <2>4. \A x \in Int : \A b, c \in Nat : x * (b * c) = (x * b) * c /\ x * b \in Int OBVIOUS
    <2>5. w * Ten[M - target] = (u * Ten[k]) * Ten[M - target] /\ u * Ten[k] \in Int
      BY <1>1, <1>3, <2>2, <2>3, <2>4
    <2>6. w = u * Ten[k] BY <1>1, <1>3, <1>4, <2>5
    <2>7. \A x \in Int : \A b \in Nat : x * (10 * b) = 10 * (x * b) /\ x * b \in Int OBVIOUS
    <2>8. w = 10 * (u * Ten[k - 1]) /\ u * Ten[k - 1] \in Int BY <1>1, <2>2, <2>6, <2>7
    <2>9. \A x \in Int : (10 * x) % 10 = 0 OBVIOUS
    <2>10. w % 10 = 0 BY <2>8, <2>9
    <2> QED BY <2>10, DecimalAssumption
  <1>6. CASE target <= p
    <2> DEFINE k == p - target
    <2>1. k \in Nat /\ k + (M - p) = M - target BY <1>1, <1>6
    <2> HIDE DEF k
    <2>2. Ten[k] \in Nat \ {0} BY <2>1, TenGrows
    <2>3. Ten[M - target] = Ten[k] * Ten[M - p] BY <1>2, <2>1, TenAdds
    <2>4. \A x \in Int : \A b, c \in Nat : x * (b * c) = (x * b) * c /\ x * b \in Int OBVIOUS
    <2>5. (w * Ten[k]) * Ten[M - p] = u * Ten[M - p] /\ w * Ten[k] \in Int
      BY <1>1, <1>3, <2>2, <2>3, <2>4
    <2>6. u = w * Ten[k] BY <1>1, <1>3, <1>4, <2>5
    <2>7. \A x \in Int : \A b \in Nat \ {0} : x < 0 => x * b <= x OBVIOUS
    <2>8. w < 0 BY DecimalAssumption
    <2>9. u <= w BY <1>1, <2>2, <2>6, <2>7, <2>8
    <2>10. u = MinInt BY <1>1, <2>9, WidthIs
    <2> QED BY <2>10 DEF u
  <1> QED BY <1>1, <1>5, <1>6

\* A literal that needs no more digits than MAX_PRECISION, after its exponent is
\* folded in, is read: parse refuses none that it could hold (Decimal's parse).
THEOREM ShortLiteralsParse ==
  ASSUME NEW l, IsLiteral(l), l.int \o l.frac # <<>>,
         Len(l.int \o l.frac) <= MaxPrecision, Len(l.frac) - l.exp <= MaxPrecision,
         Len(l.int \o l.frac) - (Len(l.frac) - l.exp) <= MaxPrecision
  PROVE  /\ IsDecimal(Parse(l))
         /\ UnitsOfDecimal(Parse(l)) = UnitsOf(l)
  <1> DEFINE s == l.int \o l.frac
             n == NumberOf(s)
             k == Len(l.frac) - l.exp
             a == Accumulate(s)
  <1>1. s \in Seq(0 .. 9) BY ConcatProperties DEF IsLiteral
  <1>2. /\ Len(l.frac) \in Nat /\ l.exp \in Int /\ k \in Int
        /\ MaxPrecision \in Nat /\ Len(s) \in Nat
    <2>1. Len(l.frac) \in Nat /\ l.exp \in Int /\ k \in Int BY DEF IsLiteral
    <2>2. MaxPrecision \in Nat BY DecimalAssumption
    <2> HIDE DEF s, k
    <2>3. Len(s) \in Nat BY <1>1
    <2> QED BY <2>1, <2>2, <2>3
  <1>3. /\ s # <<>> /\ Len(s) <= MaxPrecision
        /\ k <= MaxPrecision /\ Len(s) - k <= MaxPrecision
    OBVIOUS
  <1>4. n \in Nat /\ n < Ten[Len(s)] BY <1>1, NumberBelow
  <1>5. /\ Parse(l) = IF s = <<>> \/ (IF k < 0 THEN Shifted(a, -k) ELSE a) = None \/ k > MaxPrecision
                      THEN None
                      ELSE DecimalOf(Negated(l.negative, IF k < 0 THEN Shifted(a, -k) ELSE a),
                                     IF k < 0 THEN 0 ELSE k)
        /\ Fits(n) => a = n
    BY <1>1, Accumulates DEF Parse, Negated
  <1> SUFFICES Parse(l) # None BY ParseIs
  <1> HIDE DEF s, n, k, a
  <1>6. ASSUME NEW m \in Nat, m < Ten[MaxPrecision] PROVE Fits(m) /\ m # None
    <2>1. Ten[MaxPrecision] \in Nat BY <1>2, TenIs
    <2> QED BY <1>6, <2>1, WidthIs, DecimalAssumption, NoneAssumption
  <1>7. a = n /\ n # None
    <2>1. Ten[Len(s)] <= Ten[MaxPrecision] /\ Ten[Len(s)] \in Nat /\ Ten[MaxPrecision] \in Nat
      BY <1>2, <1>3, TenMonotone, TenIs
    <2> QED BY <1>4, <1>5, <1>6, <2>1
  <1>8. ASSUME NEW v \in Int, NEW p \in Nat PROVE DecimalOf(Negated(l.negative, v), p) # None
    <2>1. Negated(l.negative, v) \in Int BY DEF Negated
    <2> QED BY <2>1, NoneAssumption DEF DecimalOf
  <1>9. CASE ~(k < 0)
    <2>1. Parse(l) = DecimalOf(Negated(l.negative, n), k) BY <1>2, <1>3, <1>5, <1>7, <1>9
    <2>2. k \in Nat /\ n \in Int BY <1>2, <1>4, <1>9
    <2> QED BY <1>8, <2>1, <2>2
  <1>10. CASE k < 0
    <2>1. -k \in Nat /\ Len(s) + (-k) <= MaxPrecision /\ Len(s) + (-k) \in Nat
      BY <1>2, <1>3, <1>10
    <2>2. Ten[Len(s) + (-k)] = Ten[Len(s)] * Ten[-k] /\ Ten[Len(s)] \in Nat /\ Ten[-k] \in Nat \ {0}
      <3>1. Ten[Len(s) + (-k)] = Ten[Len(s)] * Ten[-k] BY <1>2, <2>1, TenAdds
      <3>2. Ten[Len(s)] \in Nat /\ Ten[-k] \in Nat /\ Ten[-k] > -k BY <1>2, <2>1, TenGrows
      <3>3. Ten[-k] # 0 BY <2>1, <3>2
      <3> QED BY <3>1, <3>2, <3>3
    <2>3. \A x, y \in Nat : \A c \in Nat \ {0} : x < y => x * c \in Nat /\ x * c < y * c
      OBVIOUS
    <2>4. n * Ten[-k] \in Nat /\ n * Ten[-k] < Ten[Len(s) + (-k)] BY <1>4, <2>2, <2>3
    <2>5. Ten[Len(s) + (-k)] <= Ten[MaxPrecision] /\ Ten[MaxPrecision] \in Nat
          /\ Ten[Len(s) + (-k)] \in Nat
      BY <1>2, <2>1, TenMonotone, TenIs
    <2>6. n * Ten[-k] < Ten[MaxPrecision] BY <2>4, <2>5
    <2>7. Fits(n * Ten[-k]) /\ n * Ten[-k] # None BY <1>6, <2>4, <2>6
    <2>8. Shifted(n, -k) = n * Ten[-k] BY <1>4, <2>1, <2>7, ShiftedIs
    <2>9. Parse(l) = DecimalOf(Negated(l.negative, n * Ten[-k]), 0)
      BY <1>2, <1>3, <1>5, <1>7, <1>10, <2>7, <2>8
    <2> QED BY <1>8, <2>4, <2>9
  <1> QED BY <1>9, <1>10

-------------------------------------------------------------------------------
\* Decimals that are printed, read and rescaled

Readable == [unscaled : MinInt + 1 .. MaxInt, scale : 0 .. MaxPrecision]

DecimalInv ==
  /\ literals \in Seq(Literals) /\ decimals \in Seq(Readable)
  /\ Len(decimals) = Len(literals)
  /\ \A i \in DOMAIN decimals : UnitsOfDecimal(decimals[i]) = UnitsOf(literals[i])

LEMMA ReadableIs ==
  /\ \A d : d \in Readable <=> IsDecimal(d) /\ d.unscaled # MinInt
  /\ \A l \in Literals : IsLiteral(l)
  <1>1. ASSUME NEW d \in Readable PROVE IsDecimal(d) /\ d.unscaled # MinInt
    <2>1. d.unscaled \in MinInt + 1 .. MaxInt /\ d.scale \in 0 .. MaxPrecision BY DEF Readable
    <2>2. d = DecimalOf(d.unscaled, d.scale) BY DEF Readable, DecimalOf
    <2>3. d.unscaled \in Int /\ d.unscaled # MinInt /\ Fits(d.unscaled)
      BY <2>1, DecimalAssumption, WidthIs
    <2> QED BY <2>1, <2>2, <2>3 DEF IsDecimal
  <1>2. ASSUME NEW d, IsDecimal(d), d.unscaled # MinInt PROVE d \in Readable
    <2>1. d = DecimalOf(d.unscaled, d.scale) /\ d.scale \in 0 .. MaxPrecision
      BY <1>2 DEF IsDecimal
    <2>2. d.unscaled \in MinInt + 1 .. MaxInt BY <1>2, DecimalAssumption, WidthIs DEF IsDecimal
    <2> QED BY <2>1, <2>2 DEF DecimalOf, Readable
  <1>3. ASSUME NEW l \in Literals PROVE IsLiteral(l)
    BY LiteralsAssumption DEF IsLiteral
  <1> QED BY <1>1, <1>2, <1>3

LEMMA DecimalInvInit == InitDecimals \/ NoDecimals => DecimalInv
  <1>1. ASSUME NoDecimals PROVE DecimalInv BY <1>1 DEF NoDecimals, DecimalInv
  <1>2. ASSUME InitDecimals PROVE DecimalInv
    <2>1. PICK l \in Literals, m \in Literals :
            /\ Parse(l) # None /\ Parse(m) # None
            /\ literals = <<l, m>> /\ decimals = <<Parse(l), Parse(m)>>
      BY <1>2 DEF InitDecimals
    <2>2. Parse(l) \in Readable /\ UnitsOfDecimal(Parse(l)) = UnitsOf(l)
      BY <2>1, ParseIs, ReadableIs
    <2>3. Parse(m) \in Readable /\ UnitsOfDecimal(Parse(m)) = UnitsOf(m)
      BY <2>1, ParseIs, ReadableIs
    <2>4. literals \in Seq(Literals) /\ decimals \in Seq(Readable) /\ Len(decimals) = Len(literals)
      BY <2>1, <2>2, <2>3
    <2>5. ASSUME NEW i \in DOMAIN decimals
          PROVE  UnitsOfDecimal(decimals[i]) = UnitsOf(literals[i])
      <3>1. i = 1 \/ i = 2 BY <2>1
      <3> QED BY <2>1, <2>2, <2>3, <3>1
    <2> QED BY <2>4, <2>5 DEF DecimalInv
  <1> QED BY <1>1, <1>2

LEMMA BecomesKeeps ==
  ASSUME DecimalInv, NEW i \in DOMAIN decimals, NEW d \in Readable,
         UnitsOfDecimal(d) = UnitsOfDecimal(decimals[i]), Becomes(i, d)
  PROVE  DecimalInv'
  <1>1. /\ literals \in Seq(Literals) /\ decimals \in Seq(Readable)
        /\ Len(decimals) = Len(literals)
        /\ \A k \in DOMAIN decimals : UnitsOfDecimal(decimals[k]) = UnitsOf(literals[k])
    BY DEF DecimalInv
  <1>2. decimals' = [decimals EXCEPT ![i] = d] /\ literals' = literals BY DEF Becomes
  <1>3. decimals' \in Seq(Readable) /\ Len(decimals') = Len(decimals)
        /\ DOMAIN decimals' = DOMAIN decimals
    BY <1>1, <1>2
  <1>4. ASSUME NEW k \in DOMAIN decimals
        PROVE  UnitsOfDecimal(decimals'[k]) = UnitsOf(literals[k])
    <2>1. CASE k = i BY <1>1, <1>2, <1>4, <2>1
    <2>2. CASE k # i BY <1>1, <1>2, <1>4, <2>2
    <2> QED BY <2>1, <2>2
  <1> QED BY <1>1, <1>2, <1>3, <1>4 DEF DecimalInv, UnitsOfDecimal, UnitsOf

LEMMA DecimalInvNext == DecimalInv /\ [UseDecimals]_decimalVars => DecimalInv'
  <1> SUFFICES ASSUME DecimalInv, [UseDecimals]_decimalVars PROVE DecimalInv' OBVIOUS
  <1>1. ASSUME NEW i \in DOMAIN decimals
        PROVE  decimals[i] \in Readable /\ IsDecimal(decimals[i]) /\ decimals[i].unscaled # MinInt
    <2>1. decimals \in Seq(Readable) BY DEF DecimalInv
    <2>2. decimals[i] \in Readable BY <2>1
    <2> QED BY <2>2, ReadableIs
  <1>2. ASSUME NEW i \in DOMAIN decimals, PrintAndRead(i) PROVE DecimalInv'
    <2> DEFINE d == decimals[i]
    <2>1. Parse(Display(d)) = d BY <1>1, PrintsAndReads
    <2>2. Becomes(i, d) BY <1>2, <2>1 DEF PrintAndRead
    <2> QED BY <1>1, <2>2, BecomesKeeps
  <1>3. ASSUME NEW i \in DOMAIN decimals, NEW target \in 0 .. MaxPrecision + 1,
               RescaleTo(i, target)
        PROVE  DecimalInv'
    <2> DEFINE d == decimals[i]
               r == Rescale(d, target)
    <2>1. target \in Nat /\ r # None /\ Becomes(i, r)
      BY <1>3, DecimalAssumption DEF RescaleTo, Becomes
    <2>2. IsDecimal(r) /\ UnitsOfDecimal(r) = UnitsOfDecimal(d) BY <1>1, <2>1, RescaleKeeps
    <2>3. r.unscaled # MinInt BY <1>1, <2>1, RescaleReadable
    <2>4. r \in Readable BY <2>2, <2>3, ReadableIs
    <2> HIDE DEF r
    <2> QED BY <2>1, <2>2, <2>4, BecomesKeeps
  <1>4. ASSUME UNCHANGED decimalVars PROVE DecimalInv'
    BY <1>4 DEF decimalVars, DecimalInv, UnitsOfDecimal, UnitsOf
  <1> QED BY <1>2, <1>3, <1>4 DEF UseDecimals

LEMMA DecimalInvGives == DecimalInv => DecimalsExact
  <1> SUFFICES ASSUME DecimalInv PROVE DecimalsExact OBVIOUS
  <1>1. ASSUME NEW i \in DOMAIN decimals
        PROVE  /\ IsDecimal(decimals[i]) /\ decimals[i].unscaled # MinInt
               /\ UnitsOfDecimal(decimals[i]) = UnitsOf(literals[i])
    <2>1. decimals \in Seq(Readable) BY DEF DecimalInv
    <2>2. decimals[i] \in Readable BY <2>1
    <2> QED BY <2>2, ReadableIs DEF DecimalInv
  <1>2. ASSUME NEW i \in DOMAIN decimals, NEW j \in DOMAIN decimals
        PROVE  DecimalCompare(decimals[i], decimals[j])
                 = Compare(UnitsOf(literals[i]), UnitsOf(literals[j]))
    BY <1>1, DecimalsCompare
  <1>3. ASSUME NEW i \in DOMAIN decimals PROVE Parse(Display(decimals[i])) = decimals[i]
    BY <1>1, PrintsAndReads
  <1> QED BY <1>1, <1>2, <1>3 DEF DecimalsExact

\* However often a decimal is printed, read back and rescaled, it is the number its
\* literal was, its text reads back as it, and cmp_value orders two of them as
\* these numbers, whether the scales align or the digits are compared (Decimal's
\* parse, rescale, Display, cmp_value and digitwise_cmp).
THEOREM DecimalsAlwaysExact == DecimalSpec => []DecimalsExact
  <1> QED BY DecimalInvInit, DecimalInvNext, DecimalInvGives, PTL DEF DecimalSpec
===============================================================================
