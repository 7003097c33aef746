------------------------------ MODULE DivLemmas -------------------------------
(* Products and quotients of natural numbers: what the provers need to be  *)
(* told of them, for the shares of a rate, the counters of limited width   *)
(* and the rounded averages; and the places of the numbers of a set.       *)
EXTENDS Integers, FiniteSetTheorems, WellFoundedInduction, TLAPS

(* A factor cancels, and keeps an order.                                   *)
LEMMA Cancel ==
    ASSUME NEW a \in Nat, NEW b \in Nat, NEW d \in Nat, d > 0, a * d < (b + 1) * d
    PROVE  a <= b
<1> SUFFICES ASSUME a > b PROVE FALSE OBVIOUS
<1> DEFINE e == a - (b + 1)
<1>1. e \in Nat /\ a = (b + 1) + e OBVIOUS
<1> HIDE DEF e
<1>2. a * d = (b + 1) * d + e * d BY <1>1
<1>3. e * d \in Nat /\ (b + 1) * d \in Nat BY <1>1
<1> QED BY <1>2, <1>3

LEMMA TimesMonotone ==
    ASSUME NEW x \in Nat, NEW y \in Nat, NEW z \in Nat, x <= y
    PROVE  x * z \in Nat /\ y * z \in Nat /\ x * z <= y * z /\ z * x <= z * y
<1> DEFINE e == y - x
<1>1. e \in Nat /\ y = x + e OBVIOUS
<1> HIDE DEF e
<1>2. y * z = x * z + e * z BY <1>1
<1>3. e * z \in Nat /\ x * z \in Nat BY <1>1
<1>4. z * x = x * z /\ z * y = y * z OBVIOUS
<1> QED BY <1>2, <1>3, <1>4

-----------------------------------------------------------------------------
(* A quotient by its defining inequalities, and compared with a bound.     *)
LEMMA Quotient ==
    ASSUME NEW a \in Nat, NEW d \in Nat, d > 0
    PROVE  /\ a \div d \in Nat
           /\ (a \div d) * d <= a /\ a < (a \div d + 1) * d
<1>1. a \div d \in Nat /\ (a \div d) * d <= a OBVIOUS
<1>2. a - (a \div d) * d < d OBVIOUS
<1> DEFINE q == a \div d
<1>3. q \in Nat /\ (q + 1) * d = q * d + d /\ q * d \in Nat BY <1>1
<1>4. a - q * d < d BY <1>2
<1> HIDE DEF q
<1>5. a < q * d + d BY <1>3, <1>4
<1> QED BY <1>1, <1>3, <1>5 DEF q

LEMMA QuotientBelow ==
    ASSUME NEW a \in Nat, NEW d \in Nat \ {0}, NEW q \in Nat, a < q * d
    PROVE  a \div d < q
<1> DEFINE k == a \div d
<1>1. k \in Nat /\ k * d <= a OBVIOUS
<1> HIDE DEF k
<1> SUFFICES ASSUME k >= q PROVE FALSE BY <1>1 DEF k
<1>2. PICK e \in Nat : k = q + e
  <2>1. k - q \in Nat /\ k = q + (k - q) BY <1>1
  <2> QED BY <2>1
<1>3. k * d = q * d + e * d BY <1>2
<1>4. e * d \in Nat /\ q * d \in Nat /\ k * d \in Nat BY <1>1, <1>2
<1> QED BY <1>1, <1>3, <1>4

LEMMA QuotientAbove ==
    ASSUME NEW a \in Nat, NEW d \in Nat \ {0}, NEW q \in Nat, q * d <= a
    PROVE  q <= a \div d
<1> DEFINE k == a \div d
<1>1. k \in Nat /\ a - k * d < d /\ k * d \in Nat OBVIOUS
<1> HIDE DEF k
<1> SUFFICES ASSUME q > k PROVE FALSE BY <1>1 DEF k
<1>2. PICK e \in Nat : q = (k + 1) + e
  <2>1. q - (k + 1) \in Nat /\ q = (k + 1) + (q - (k + 1)) BY <1>1
  <2> QED BY <2>1
<1>3. q * d = k * d + d + e * d BY <1>1, <1>2
<1>4. e * d \in Nat /\ q * d \in Nat BY <1>2
<1> QED BY <1>1, <1>3, <1>4

-----------------------------------------------------------------------------
(* Quotient and remainder put a number together, and come back from it; a  *)
(* counter that wraps counts modulo its width.                             *)
LEMMA DivMod ==
    ASSUME NEW a \in Nat, NEW w \in Nat \ {0}
    PROVE  a = (a \div w) * w + (a % w) /\ a \div w \in Nat /\ a % w \in 0..(w - 1)
OBVIOUS

LEMMA TwoDigits ==
    ASSUME NEW q \in Nat, NEW w \in Nat \ {0}, NEW r \in 0..(w - 1)
    PROVE  (q * w + r) \div w = q /\ (q * w + r) % w = r
<1> DEFINE a == q * w + r
<1>1. a \in Nat /\ q * w \in Nat /\ q * w <= a OBVIOUS
<1>2. (q + 1) * w = q * w + w /\ (q + 1) \in Nat OBVIOUS
<1>3. a < (q + 1) * w BY <1>1, <1>2
<1> HIDE DEF a
<1>4. a = (a \div w) * w + (a % w) /\ a \div w \in Nat /\ a % w \in Nat BY <1>1, DivMod
<1>5. a \div w = q BY <1>1, <1>2, <1>3, <1>4, QuotientBelow, QuotientAbove
<1>6. a = q * w + (a % w) BY <1>4, <1>5
<1> QED BY <1>1, <1>4, <1>5, <1>6 DEF a

LEMMA Remainder ==
    ASSUME NEW q \in Nat, NEW w \in Nat \ {0}, NEW r \in 0..(w - 1)
    PROVE  (q * w + r) % w = r
BY TwoDigits

(* The numbers of two digits, the second one below w: those below n * w    *)
(* have a first one below n.                                               *)
LEMMA DigitsBelow ==
    ASSUME NEW n \in Nat, NEW w \in Nat \ {0}, NEW q \in 0..(n - 1), NEW r \in 0..(w - 1)
    PROVE  q * w + r \in 0..(n * w - 1)
<1>1. q \in Nat /\ q + 1 \in Nat /\ q + 1 <= n /\ r \in Nat /\ r < w OBVIOUS
<1>2. (q + 1) * w <= n * w /\ n * w \in Nat BY <1>1, TimesMonotone
<1>3. (q + 1) * w = q * w + w /\ q * w \in Nat BY <1>1
<1> QED BY <1>1, <1>2, <1>3

LEMMA DigitsOf ==
    ASSUME NEW n \in Nat, NEW w \in Nat \ {0}, NEW x \in 0..(n * w - 1)
    PROVE  /\ x \div w \in 0..(n - 1) /\ x % w \in 0..(w - 1)
           /\ x = (x \div w) * w + (x % w)
<1>1. x \in Nat /\ n * w \in Nat /\ x < n * w OBVIOUS
<1>2. x \div w < n BY <1>1, QuotientBelow
<1>3. x = (x \div w) * w + (x % w) /\ x \div w \in Nat /\ x % w \in 0..(w - 1)
  BY <1>1, DivMod
<1>4. x \div w \in 0..(n - 1) BY <1>2, <1>3
<1> QED BY <1>3, <1>4

LEMMA CountStep ==
    ASSUME NEW n \in Nat, NEW w \in Nat \ {0}
    PROVE  ((n % w) + 1) % w = (n + 1) % w
<1> DEFINE q == n \div w
           r == n % w
<1>1. q \in Nat /\ r \in 0..(w - 1) /\ n = q * w + r BY DivMod
<1> HIDE DEF q, r
<1>2. CASE r + 1 < w
  <2>1. n + 1 = q * w + (r + 1) /\ r + 1 \in 0..(w - 1) BY <1>1, <1>2
  <2>2. (n + 1) % w = r + 1 BY <1>1, <2>1, Remainder
  <2>3. (r + 1) % w = r + 1 BY <2>1
  <2> QED BY <2>2, <2>3 DEF r
<1>3. CASE r + 1 = w
  <2>1. (q + 1) * w = q * w + w BY <1>1
  <2>2. n + 1 = (q + 1) * w + 0 /\ q + 1 \in Nat /\ 0 \in 0..(w - 1)
    <3>1. q * w \in Nat BY <1>1
    <3> QED BY <1>1, <1>3, <2>1, <3>1
  <2>3. (n + 1) % w = 0 BY <2>2, Remainder
  <2>4. w = 1 * w + 0 BY <1>1
  <2>5. w % w = 0 BY <2>2, <2>4, Remainder
  <2> QED BY <1>3, <2>3, <2>5 DEF r
<1> QED BY <1>1, <1>2, <1>3

-----------------------------------------------------------------------------
(* Every set of naturals has a least element: induction without a formula. *)
LEMMA LeastNat ==
    ASSUME NEW T, T \subseteq Nat, T # {}
    PROVE  \E x \in T : \A y \in T : x <= y
<1> DEFINE R == OpToRel(<, Nat)
<1>1. IsWellFoundedOn(R, Nat) BY NatLessThanWellFounded
<1>2. \A x, y \in Nat : <<y, x>> \in R <=> y < x BY DEF OpToRel
<1> HIDE DEF R
<1>3. PICK x \in T : \A y \in T : ~(<<y, x>> \in R) BY <1>1, WFMin
<1>4. \A y \in T : ~(y < x) BY <1>2, <1>3, Zenon
<1>5. \A y \in T : y \in Nat /\ x \in Nat OBVIOUS
<1> QED BY <1>4, <1>5

(* The n-th number of a set of numbers below m has n - 1 of them below it. *)
Smaller(S, j) == {k \in S : k < j}

LEMMA PlaceOf ==
    ASSUME NEW m \in Nat, NEW S \in SUBSET (0..(m - 1)), NEW n \in 1..Cardinality(S)
    PROVE  /\ IsFiniteSet(S) /\ Cardinality(S) \in Nat
           /\ \E j \in S : Cardinality(Smaller(S, j)) = n - 1
<1>1. S \subseteq Nat /\ \A j \in S : j < m OBVIOUS
<1>2. IsFiniteSet(S) /\ Cardinality(S) \in Nat
  <2>1. m - 1 \in Int /\ 0 \in Int OBVIOUS
  <2>2. IsFiniteSet(0..(m - 1)) BY <2>1, FS_Interval
  <2> QED BY <2>2, FS_Subset, FS_CardinalityType
<1>3. \A j \in Nat : IsFiniteSet(Smaller(S, j)) /\ Cardinality(Smaller(S, j)) \in Nat
  <2>1. \A j \in Nat : Smaller(S, j) \in SUBSET S BY DEF Smaller
  <2> QED BY <1>2, <2>1, FS_Subset, FS_CardinalityType
<1> DEFINE T == {j \in Nat : Cardinality(Smaller(S, j)) >= n}
<1>4. m \in T
  <2>1. Smaller(S, m) = S BY <1>1 DEF Smaller
  <2> QED BY <1>1, <1>2, <2>1
<1>5. PICK x \in T : \A y \in T : x <= y
  <2>1. T \subseteq Nat /\ T # {} BY <1>4
  <2> HIDE DEF T
  <2> QED BY <2>1, LeastNat
<1>6. x \in Nat /\ Cardinality(Smaller(S, x)) >= n OBVIOUS
<1>7. x # 0
  <2>1. \A k \in S : ~(k < 0) BY <1>1
  <2>2. Smaller(S, 0) = {} BY <2>1 DEF Smaller
  <2> QED BY <1>6, <2>2, FS_EmptySet
<1>8. x - 1 \in Nat /\ Cardinality(Smaller(S, x - 1)) < n
  <2>1. x - 1 \in Nat /\ ~(x <= x - 1) BY <1>6, <1>7
  <2>2. x - 1 \notin T BY <1>5, <2>1
  <2> QED BY <1>3, <2>1, <2>2
<1>9. \A k \in S : k < x <=> k < x - 1 \/ k = x - 1 BY <1>1, <1>6, <1>8
<1>10. x - 1 \in S
  <2> SUFFICES ASSUME x - 1 \notin S PROVE FALSE OBVIOUS
  <2>1. Smaller(S, x) = Smaller(S, x - 1) BY <1>9 DEF Smaller
  <2> QED BY <1>3, <1>6, <1>8, <2>1
<1>11. Cardinality(Smaller(S, x)) = Cardinality(Smaller(S, x - 1)) + 1
  <2> DEFINE y == x - 1
  <2>1. y \in S /\ ~(y < y) /\ \A k \in S : k < x <=> k < y \/ k = y
    BY <1>8, <1>9, <1>10
  <2> HIDE DEF y, T
  <2>2. Smaller(S, x) = Smaller(S, y) \cup {y} BY <2>1 DEF Smaller
  <2>3. y \notin Smaller(S, y) BY <2>1 DEF Smaller
  <2>4. y \in Nat BY <1>8 DEF y
  <2>5. Cardinality(Smaller(S, x)) = Cardinality(Smaller(S, y)) + 1
    BY <1>3, <2>2, <2>3, <2>4, FS_AddElement
  <2> QED BY <2>5 DEF y
<1> HIDE DEF T
<1> QED BY <1>2, <1>3, <1>6, <1>8, <1>10, <1>11
=============================================================================
