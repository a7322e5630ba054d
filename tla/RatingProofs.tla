----------------------------- MODULE RatingProofs -----------------------------
(***************************************************************************)
(* Proofs about Rating, for every catalogue, quote and request.  The answer*)
(* is what the operations compute (RatingAnswers), so that the rest is     *)
(* about operators: rounding and remainders, which entry is taken, and what*)
(* is true of every value of the fold over the lines of a contract         *)
(* (ChargedSoFar).                                                         *)
(***************************************************************************)
EXTENDS Rating, FiniteSums, SequenceTheorems

(***************************************************************************)
(* Arithmetic                                                              *)
(***************************************************************************)

\* money(n / d) is a whole number.
LEMMA MoneyType ==
    ASSUME NEW n \in Int, NEW d \in Nat \ {0}
    PROVE  Money(n, d) \in Int
<1>1. 2 * Magnitude(n) + d \in Int /\ 2 * d \in Nat \ {0}
  BY DEF Magnitude
<1>2. (2 * Magnitude(n) + d) \div (2 * d) \in Int
  BY <1>1
<1>3. QED  BY <1>2 DEF Money

\* Rounding hundredths: to the nearest, of two as near the farther from zero.
LEMMA MoneyOfHundredths ==
    ASSUME NEW n \in Int
    PROVE  LET m == Money(n, 100)
           IN  /\ m \in Int
               /\ Magnitude(100 * m - n) <= 50
               /\ Magnitude(100 * m - n) = 50 => Magnitude(100 * m) > Magnitude(n)
               /\ \A least \in Int : n >= 100 * least => m >= least
<1> DEFINE a == Magnitude(n)
           q == (2 * a + 100) \div 200
<1>1. a \in Nat /\ (n >= 0 => a = n) /\ (n < 0 => a = -n)
  BY DEF Magnitude
<1>2. Money(n, 100) = IF n < 0 THEN -q ELSE q
  BY DEF Money
<1> HIDE DEF a
<1>3. q \in Nat /\ 200 * q <= 2 * a + 100 /\ 2 * a + 100 < 200 * q + 200
  BY <1>1
<1> HIDE DEF q
<1>4. CASE n >= 0
  BY <1>1, <1>2, <1>3, <1>4 DEF Magnitude
<1>5. CASE n < 0
  BY <1>1, <1>2, <1>3, <1>5 DEF Magnitude
<1>6. QED  BY <1>4, <1>5

LEMMA BoundedType ==
    ASSUME NEW n \in Int, NEW d \in Nat \ {0}, NEW bounds \in BoundsType
    PROVE  Bounded(n, d, bounds) \in Int
<1> DEFINE raised == IF bounds.low # NoValue THEN AtLeast(n, bounds.low * d) ELSE n
<1>1. raised \in Int
  BY DEF BoundsType, OptionalInt, AtLeast
<1>2. Money(raised, d) \in Int
  BY <1>1, MoneyType
<1>3. QED  BY <1>2 DEF Bounded, BoundsType, OptionalInt

LEMMA OptionalTypes ==
    ASSUME NEW v \in OptionalInt, NEW w \in OptionalInt
    PROVE  Dec(v) \in Int /\ Or(v, w) \in OptionalInt /\ OrElse(v, w) \in OptionalInt
BY DEF OptionalInt, Dec, Or, OrElse

(***************************************************************************)
(* Allocation                                                              *)
(***************************************************************************)

\* What rounding took off each of D, in units of 1 / total.
AreFractions(R, D, total) == \A i \in D : R[i] \in Nat /\ R[i] < total

\* As many units as are left go to those that come first.
AreUnitsOf(left, R, U, D) ==
    \A i \in D : U[i] = IF Cardinality({j \in D : Precedes(R, j, i)}) < left THEN 1 ELSE 0

\* If left is what all lost together, all of it is given, and each unit goes to
\* one that lost something.
LEMMA UnitsGiven ==
    ASSUME NEW D \in SUBSET Nat, IsFiniteSet(D), NEW R, NEW U, NEW total \in Nat \ {0}, NEW left \in Int,
           AreFractions(R, D, total), AreUnitsOf(left, R, U, D),
           SumFunctionOnSet(R, D) = total * left
    PROVE  /\ \A i \in D : U[i] \in {0, 1} /\ (U[i] = 1 => R[i] > 0)
           /\ \A i, j \in D : R[i] > R[j] /\ U[j] = 1 => U[i] = 1
           /\ SumFunctionOnSet(U, D) = left
<1> DEFINE Ahead(i) == {j \in D : Precedes(R, j, i)}
           P == {i \in D : R[i] > 0}
           size == Cardinality(P)
<1>1. /\ Cardinality(D) \in Nat
      /\ size \in Nat /\ size <= Cardinality(D)
      /\ \A i \in D : IsFiniteSet(Ahead(i)) /\ Cardinality(Ahead(i)) \in Nat
  BY FS_Subset, FS_CardinalityType
<1>2. \A i \in D : U[i] = IF Cardinality(Ahead(i)) < left THEN 1 ELSE 0
  BY DEF AreUnitsOf
<1>3. \A i \in D : i \in Nat /\ R[i] \in Nat /\ R[i] < total
  BY DEF AreFractions
<1>4. left >= 0 /\ left <= size
  <2> DEFINE I == [i \in D |-> IF R[i] > 0 THEN 1 ELSE 0]
             M == [i \in D |-> IF R[i] > 0 THEN total ELSE 0]
             zero == 0
  <2>1. \A i \in D : I[i] \in {0, 1} /\ I[i] \in Int /\ (I[i] = 1 <=> R[i] > 0)
    OBVIOUS
  <2>2. \A i \in D : R[i] \in Int /\ M[i] \in Int /\ R[i] <= M[i]
    BY <1>3
  <2>3. zero \in Int /\ total \in Int /\ \A i \in D : M[i] = total * I[i] + zero * I[i]
    <3>1. \A i \in D : total * 1 + 0 * 1 = total /\ total * 0 + 0 * 0 = 0
      OBVIOUS
    <3>2. QED  BY <3>1
  <2> HIDE DEF I, M, zero
  <2>4. SumFunctionOnSet(I, D) = size
    <3>1. {i \in D : I[i] = 1} = P
      BY <2>1
    <3>2. \A i \in D : I[i] \in {0, 1}
      BY <2>1
    <3> HIDE DEF P
    <3>3. SumFunctionOnSet(I, D) = Cardinality({i \in D : I[i] = 1})
      BY <3>2, SumCounts
    <3>4. QED  BY <3>1, <3>3
  <2>5. SumFunctionOnSet(M, D) = total * SumFunctionOnSet(I, D) + zero * SumFunctionOnSet(I, D)
    <3>1. IsLinear(M, total, I, zero, I, D)
      BY <2>1, <2>3 DEF IsLinear
    <3>2. zero \in Int /\ total \in Int
      BY <2>3
    <3>3. QED  BY <3>1, <3>2, SumLinear
  <2>6. SumFunctionOnSet(R, D) <= SumFunctionOnSet(M, D)
    BY <2>2, SumMonotone
  <2>7. SumFunctionOnSet(R, D) \in Nat
    BY <1>3, SumNat
  <2> HIDE DEF size
  <2>8. total * left >= 0 /\ total * left <= total * size
    BY <1>1, <2>4, <2>5, <2>6, <2>7 DEF zero
  <2>9. total > 0 => left >= 0 /\ left <= size
    <3>1. total > 0 => left >= 0
      BY <2>8
    <3>2. total > 0 => left <= size
      BY <1>1, <2>8
    <3>3. QED  BY <3>1, <3>2
  <2>10. QED  BY <2>9
<1>5. \A i \in D : U[i] \in {0, 1}
  BY <1>2
<1>6. ASSUME NEW i \in D, U[i] = 1 PROVE R[i] > 0
  <2> SUFFICES ASSUME ~(R[i] > 0) PROVE FALSE
    OBVIOUS
  <2>1. Cardinality(Ahead(i)) < left
    BY <1>2, <1>6
  <2>2. P \subseteq Ahead(i)
    BY <1>3 DEF Precedes
  <2> HIDE DEF P, Ahead
  <2>3. size <= Cardinality(Ahead(i))
    BY <1>1, <2>2, FS_Subset
  <2> HIDE DEF size
  <2>4. QED  BY <1>1, <1>4, <2>1, <2>3
<1>7. ASSUME NEW i \in D, NEW j \in D, R[i] > R[j], U[j] = 1 PROVE U[i] = 1
  <2>1. Ahead(i) \subseteq Ahead(j)
    <3>1. \A k \in D : R[k] \in Nat /\ R[i] \in Nat /\ R[j] \in Nat
      BY <1>3
    <3>2. \A k \in D : Precedes(R, k, i) => Precedes(R, k, j)
      BY <1>7, <3>1 DEF Precedes
    <3>3. QED  BY <3>2
  <2>2. Cardinality(Ahead(j)) < left
    BY <1>2, <1>7
  <2> HIDE DEF Ahead
  <2>3. Cardinality(Ahead(i)) <= Cardinality(Ahead(j))
    BY <1>1, <2>1, FS_Subset
  <2>4. Cardinality(Ahead(i)) < left
    BY <1>1, <2>2, <2>3
  <2>5. QED  BY <1>2, <2>4
<1>8. SumFunctionOnSet(U, D) = left
  <2> DEFINE Before == {p \in D \X D : Precedes(R, p[1], p[2])}
  <2>1. \A i, j \in D : <<i, j>> \in Before <=> Precedes(R, i, j)
    OBVIOUS
  <2> HIDE DEF Before
  <2>2. \A i \in D : ElementsBefore(Before, D, i) = Ahead(i)
    BY <2>1 DEF ElementsBefore
  <2>3. IsStrictOrder(Before, D)
    <3>1. \A x, y \in D : x # y => <<x, y>> \in Before \/ <<y, x>> \in Before
      BY <1>3, <2>1 DEF Precedes
    <3>2. \A x, y, z \in D : <<x, y>> \in Before /\ <<y, z>> \in Before => <<x, z>> \in Before
      BY <1>3, <2>1 DEF Precedes
    <3>3. \A x \in D : <<x, x>> \notin Before
      BY <1>3, <2>1 DEF Precedes
    <3>4. QED  BY <3>1, <3>2, <3>3 DEF IsStrictOrder
  <2>4. left \in 0 .. Cardinality(D)
    <3> HIDE DEF size
    <3>1. QED  BY <1>1, <1>4
  <2>5. Cardinality(FirstOnes(Before, D, left)) = left
    BY <2>3, <2>4, FirstElements
  <2> HIDE DEF Ahead
  <2>6. {i \in D : U[i] = 1} = FirstOnes(Before, D, left)
    <3>1. \A i \in D : U[i] = 1 <=> Cardinality(ElementsBefore(Before, D, i)) < left
      BY <1>2, <2>2
    <3>2. QED  BY <3>1 DEF FirstOnes
  <2>7. QED  BY <1>5, <2>5, <2>6, SumCounts
<1>9. QED  BY <1>5, <1>6, <1>7, <1>8

LEMMA Quotient ==
    ASSUME NEW x \in Nat, NEW t \in Nat \ {0}
    PROVE  x \div t \in Nat /\ x % t \in Nat /\ x % t < t /\ x = t * (x \div t) + (x % t)
OBVIOUS

\* A share of d in whole, in units of 1 / t of it: f whole ones, r over, u more.
IsShare(whole, t, d, f, r, u) ==
    /\ f \in Nat /\ r \in Nat /\ r < t /\ u \in {0, 1} /\ (u = 1 => r > 0)
    /\ whole * d = t * f + r

\* Largest remainders: what rounding down leaves over is given, a unit each, to
\* those that lost the most, and never to one that lost nothing.
LEMMA LargestRemainders ==
    ASSUME NEW n \in Nat, NEW drivers \in [1 .. n -> Nat], Total(drivers) > 0, NEW whole \in Nat
    PROVE  LET F == Floors(whole, drivers)
               R == Fractions(whole, drivers)
               U == Remainders(whole, drivers)
               T == Total(drivers)
           IN  /\ T \in Nat
               /\ \A i \in 1 .. n : IsShare(whole, T, drivers[i], F[i], R[i], U[i])
               /\ \A i, j \in 1 .. n : R[i] > R[j] /\ U[j] = 1 => U[i] = 1
               /\ SumFunctionOnSet(F, 1 .. n) \in Nat
               /\ SumFunctionOnSet(F, 1 .. n) + SumFunctionOnSet(U, 1 .. n) = whole
<1> DEFINE D == 1 .. n
           F == Floors(whole, drivers)
           R == Fractions(whole, drivers)
           U == Remainders(whole, drivers)
           T == Total(drivers)
           Sum(f) == SumFunctionOnSet(f, D)
           left == whole - Sum(F)
<1>1. IsFiniteSet(D) /\ D \in SUBSET Nat
  BY FS_Interval
<1>2. DOMAIN drivers = D /\ \A i \in D : drivers[i] \in Nat /\ drivers[i] \in Int
  OBVIOUS
<1> HIDE DEF D
<1>3. T = Sum(drivers) /\ T \in Nat /\ T > 0
  BY <1>1, <1>2, SumNat DEF Total
<1>4. \A i \in D : F[i] = (whole * drivers[i]) \div T /\ R[i] = (whole * drivers[i]) % T
  BY <1>2 DEF Floors, Fractions
<1>5. Total(Floors(whole, drivers)) = Sum(F)
  BY <1>2 DEF Floors, Total
<1>6. \A i \in D : U[i] = IF Cardinality({j \in D : Precedes(R, j, i)}) < left THEN 1 ELSE 0
  BY <1>2, <1>5 DEF Remainders
<1> HIDE DEF F, R, U, T
<1>7. \A i \in D : /\ F[i] \in Nat /\ R[i] \in Nat /\ R[i] < T
                   /\ whole * drivers[i] = T * F[i] + R[i]
  <2>1. \A i \in D : whole * drivers[i] \in Nat
    BY <1>2
  <2>2. T \in Nat \ {0}
    BY <1>3
  <2>3. \A x \in Nat : /\ x \div T \in Nat /\ x % T \in Nat /\ x % T < T
                        /\ x = T * (x \div T) + (x % T)
    BY <2>2, Quotient
  <2>4. QED  BY <1>4, <2>1, <2>3
<1> HIDE DEF Sum
<1>8. Sum(F) \in Nat /\ Sum(R) \in Nat
  BY <1>1, <1>7, SumNat DEF Sum
<1>9. Sum(R) = T * left
  <2> DEFINE W == [i \in D |-> whole * drivers[i]]
             zero == 0
             one == 1
  <2>1. \A i \in D : F[i] \in Int /\ R[i] \in Int /\ W[i] = T * F[i] + one * R[i]
    BY <1>3, <1>7
  <2>2. \A i \in D : drivers[i] \in Int /\ drivers[i] \in Int
                     /\ W[i] = whole * drivers[i] + zero * drivers[i]
    BY <1>2
  <2>3. T \in Int /\ one \in Int /\ zero \in Int /\ whole \in Int
    BY <1>3
  <2> HIDE DEF W, one, zero
  <2>4. Sum(W) = T * Sum(F) + one * Sum(R)
    <3>1. IsLinear(W, T, F, one, R, D)
      BY <2>1 DEF IsLinear
    <3>2. QED  BY <1>1, <2>3, <3>1, SumLinear DEF Sum
  <2>5. Sum(W) = whole * Sum(drivers) + zero * Sum(drivers)
    <3>1. IsLinear(W, whole, drivers, zero, drivers, D)
      BY <2>2 DEF IsLinear
    <3>2. QED  BY <1>1, <2>3, <3>1, SumLinear DEF Sum
  <2>6. T * Sum(F) + Sum(R) = whole * T
    BY <1>3, <1>8, <2>4, <2>5 DEF one, zero
  <2>7. \A s, r \in Nat : T * s + r = whole * T => r = T * (whole - s)
    BY <1>3
  <2>8. QED  BY <1>8, <2>6, <2>7
<1>10. left \in Int
  BY <1>8
<1>11. Sum(F) + left = whole
  BY <1>8
<1> HIDE DEF left
<1>12. /\ \A i \in D : U[i] \in {0, 1} /\ (U[i] = 1 => R[i] > 0)
       /\ \A i, j \in D : R[i] > R[j] /\ U[j] = 1 => U[i] = 1
       /\ Sum(U) = left
  <2>1. AreFractions(R, D, T) /\ AreUnitsOf(left, R, U, D)
    BY <1>6, <1>7 DEF AreFractions, AreUnitsOf
  <2>2. SumFunctionOnSet(R, D) = T * left /\ T \in Nat \ {0}
    BY <1>3, <1>9 DEF Sum
  <2>3. QED  BY <1>1, <1>10, <2>1, <2>2, UnitsGiven DEF Sum
<1>13. \A i \in D : IsShare(whole, T, drivers[i], F[i], R[i], U[i])
  BY <1>7, <1>12 DEF IsShare
<1>14. QED  BY <1>3, <1>8, <1>11, <1>12, <1>13 DEF D, F, R, U, T, Sum

\* A part is within one unit of its exact share.
IsPartOfShare(sign, whole, t, d, f, u) ==
    /\ Magnitude((sign * (f + u)) * t - (sign * whole) * d) < t
    /\ d = 0 => sign * (f + u) = 0
    /\ Magnitude(sign * (f + u)) = f + u

LEMMA PartOfShare ==
    ASSUME NEW sign, sign = 1 \/ sign = -1, NEW whole \in Nat, NEW t \in Nat, NEW d \in Nat,
           NEW f \in Nat, NEW r \in Nat, NEW u \in {0, 1}, IsShare(whole, t, d, f, r, u)
    PROVE  IsPartOfShare(sign, whole, t, d, f, u)
<1> USE DEF IsShare
<1>1. (f + u) * t - whole * d = t * u - r
  <2>1. (f + u) * t = t * f + t * u
    BY SMTT(30)
  <2>2. t * f \in Int /\ t * u \in Int /\ whole * d \in Int /\ (f + u) * t \in Int
    OBVIOUS
  <2>3. QED  BY <2>1, <2>2
<1>2. (t * u - r) \in Int /\ t * u - r < t /\ t * u - r > -t
  <2>1. CASE u = 0
    BY <2>1
  <2>2. CASE u = 1
    BY <2>2
  <2>3. QED  BY <2>1, <2>2
<1>3. (sign * (f + u)) * t - (sign * whole) * d = sign * (t * u - r)
  <2>1. CASE sign = 1
    BY <1>1, <2>1
  <2>2. CASE sign = -1
    <3>1. /\ (sign * (f + u)) * t = -((f + u) * t) /\ (sign * whole) * d = -(whole * d)
          /\ (f + u) * t \in Int /\ whole * d \in Int
      BY <2>2
    <3>2. \A x, y \in Int : (-x) - (-y) = (-1) * (x - y)
      OBVIOUS
    <3>3. QED  BY <1>1, <2>2, <3>1, <3>2
  <2>3. QED  BY <2>1, <2>2
<1>4. \A e \in Int : e < t /\ e > -t => Magnitude(sign * e) < t
  BY DEF Magnitude
<1>5. d = 0 => f + u = 0
  <2>1. d = 0 => t * f + r = 0
    OBVIOUS
  <2>2. t * f >= 0 /\ (f > 0 => t * f >= t)
    OBVIOUS
  <2>3. QED  BY <2>1, <2>2
<1>6. Magnitude(sign * (f + u)) = f + u /\ (f + u = 0 => sign * (f + u) = 0)
  BY DEF Magnitude
<1>7. Magnitude((sign * (f + u)) * t - (sign * whole) * d) < t
  <2> DEFINE e == t * u - r
  <2>1. e \in Int /\ e < t /\ e > -t
    BY <1>2
  <2> HIDE DEF e
  <2>2. Magnitude(sign * e) < t
    BY <1>4, <2>1
  <2>3. QED  BY <1>3, <2>2 DEF e
<1> HIDE DEF IsShare
<1>8. QED  BY <1>5, <1>6, <1>7 DEF IsPartOfShare

\* More of a driver is never less of the whole.
LEMMA LargerPart ==
    ASSUME NEW whole \in Nat, NEW t \in Nat,
           NEW d1 \in Nat, NEW f1, NEW r1, NEW u1, IsShare(whole, t, d1, f1, r1, u1),
           NEW d2 \in Nat, NEW f2, NEW r2, NEW u2, IsShare(whole, t, d2, f2, r2, u2),
           r1 > r2 /\ u2 = 1 => u1 = 1, d1 > d2
    PROVE  f1 + u1 >= f2 + u2
<1> USE DEF IsShare
<1>1. whole * d1 >= whole * d2
  OBVIOUS
<1>2. f1 >= f2
  <2> SUFFICES ASSUME f2 >= f1 + 1 PROVE FALSE
    OBVIOUS
  <2>1. t * f2 >= t * f1 + t
    OBVIOUS
  <2>2. t * f1 \in Int /\ t * f2 \in Int
    OBVIOUS
  <2>3. QED  BY <1>1, <2>1, <2>2
<1>3. CASE f1 > f2
  BY <1>3
<1>4. CASE f1 = f2
  <2> SUFFICES ASSUME u2 = 1, r1 <= r2 PROVE FALSE
    BY <1>4
  <2>1. t * f1 = t * f2 /\ t * f1 \in Nat
    BY <1>4
  <2>2. r1 = r2 /\ whole * d1 = whole * d2
    BY <1>1, <2>1
  <2>3. whole = 0
    <3>1. whole * (d1 - d2) = 0
      BY <2>2
    <3>2. QED  BY <3>1
  <2>4. t * f2 + r2 = 0
    BY <2>3
  <2>5. QED  BY <2>1, <2>4
<1>5. QED  BY <1>2, <1>3, <1>4

LEMMA SumOfTwo ==
    ASSUME NEW D, IsFiniteSet(D), NEW F, NEW U, NEW parts, NEW sign \in Int,
           \A i \in D : F[i] \in Int /\ U[i] \in Int /\ parts[i] = sign * (F[i] + U[i])
    PROVE  SumFunctionOnSet(parts, D) = sign * (SumFunctionOnSet(F, D) + SumFunctionOnSet(U, D))
<1>1. IsLinear(parts, sign, F, sign, U, D)
  BY DEF IsLinear
<1>2. SumFunctionOnSet(parts, D) = sign * SumFunctionOnSet(F, D) + sign * SumFunctionOnSet(U, D)
  BY <1>1, SumLinear
<1>3. SumFunctionOnSet(F, D) \in Int /\ SumFunctionOnSet(U, D) \in Int
  BY SumTakeOut
<1>4. QED  BY <1>2, <1>3

LEMMA DriversType ==
    ASSUME NEW targets \in Seq(Nat), NEW policy
    PROVE  LET drivers == Drivers(targets, policy)
           IN  drivers \in [1 .. Len(targets) -> Nat] /\ Total(drivers) \in Nat
<1> DEFINE D == 1 .. Len(targets)
           drivers == Drivers(targets, policy)
<1>1. drivers \in [D -> Nat]
  <2>1. targets \in [D -> Nat] /\ [i \in DOMAIN targets |-> 1] \in [D -> Nat]
    OBVIOUS
  <2>2. QED  BY <2>1 DEF Drivers
<1>2. IsFiniteSet(D)
  BY FS_Interval
<1> HIDE DEF D, drivers
<1>3. Total(drivers) \in Nat
  BY <1>1, <1>2, SumNat DEF Total
<1>4. QED  BY <1>1, <1>3 DEF D, drivers

LEMMA AllocationsShare ==
    ASSUME NEW amount \in Int, NEW targets \in Seq(Nat), targets # << >>, NEW policy,
           Allocations(amount, targets, policy) # NoValue
    PROVE  LET drivers == Drivers(targets, policy)
               parts == Allocations(amount, targets, policy)
           IN  /\ Total(parts) = amount
               /\ \A i \in DOMAIN drivers :
                    /\ Magnitude(parts[i] * Total(drivers) - amount * drivers[i]) < Total(drivers)
                    /\ drivers[i] = 0 => parts[i] = 0
               /\ \A i, j \in DOMAIN drivers :
                    drivers[i] > drivers[j] => Magnitude(parts[i]) >= Magnitude(parts[j])
<1> DEFINE n == Len(targets)
           D == 1 .. n
           drivers == Drivers(targets, policy)
           T == Total(drivers)
           whole == Magnitude(amount)
           sign == IF amount < 0 THEN -1 ELSE 1
           F == Floors(whole, drivers)
           R == Fractions(whole, drivers)
           U == Remainders(whole, drivers)
           parts == Allocations(amount, targets, policy)
<1>1. n \in Nat /\ drivers \in [D -> Nat] /\ DOMAIN drivers = D /\ T \in Nat
  BY DriversType
<1>2. whole \in Nat /\ sign \in {1, -1} /\ sign \in Int /\ amount = sign * whole
  BY DEF Magnitude
<1>3. T > 0 /\ parts = [i \in D |-> sign * (F[i] + U[i])]
  BY <1>1 DEF Allocations
<1>4. IsFiniteSet(D)
  BY FS_Interval
<1> HIDE DEF whole, sign, parts, F, R, U, T, n, drivers
<1>5. /\ \A i \in D : IsShare(whole, T, drivers[i], F[i], R[i], U[i])
      /\ \A i, j \in D : R[i] > R[j] /\ U[j] = 1 => U[i] = 1
      /\ SumFunctionOnSet(F, D) + SumFunctionOnSet(U, D) = whole
  BY <1>1, <1>2, <1>3, LargestRemainders DEF F, R, U, T
<1> HIDE DEF D
<1>6. \A i \in D : parts[i] = sign * (F[i] + U[i]) /\ drivers[i] \in Nat
  BY <1>1, <1>3
<1>7. Total(parts) = amount
  <2>1. DOMAIN parts = D
    BY <1>3
  <2>2. \A i \in D : F[i] \in Int /\ U[i] \in Int /\ parts[i] = sign * (F[i] + U[i])
    BY <1>5, <1>6 DEF IsShare
  <2>3. SumFunctionOnSet(parts, D) = sign * (SumFunctionOnSet(F, D) + SumFunctionOnSet(U, D))
    BY <1>2, <1>4, <2>2, SumOfTwo
  <2>4. QED  BY <1>2, <1>5, <2>1, <2>3 DEF Total
<1>8. ASSUME NEW i \in D
      PROVE  /\ Magnitude(parts[i] * T - amount * drivers[i]) < T
             /\ drivers[i] = 0 => parts[i] = 0
             /\ Magnitude(parts[i]) = F[i] + U[i]
  <2>1. /\ IsShare(whole, T, drivers[i], F[i], R[i], U[i])
        /\ drivers[i] \in Nat /\ F[i] \in Nat /\ R[i] \in Nat /\ U[i] \in {0, 1}
    BY <1>5, <1>6 DEF IsShare
  <2>2. IsPartOfShare(sign, whole, T, drivers[i], F[i], U[i])
    <3>1. sign = 1 \/ sign = -1
      BY <1>2
    <3>2. whole \in Nat /\ T \in Nat
      BY <1>1, <1>2
    <3>3. QED  BY <2>1, <3>1, <3>2, PartOfShare
  <2>3. parts[i] = sign * (F[i] + U[i]) /\ amount = sign * whole
    BY <1>2, <1>6
  <2>4. QED  BY <2>2, <2>3 DEF IsPartOfShare
<1>9. ASSUME NEW i \in D, NEW j \in D, drivers[i] > drivers[j]
      PROVE  F[i] + U[i] >= F[j] + U[j]
  BY <1>1, <1>2, <1>5, <1>6, <1>9, LargerPart
<1>10. \A i, j \in D : drivers[i] > drivers[j] => Magnitude(parts[i]) >= Magnitude(parts[j])
  BY <1>8, <1>9
<1>11. QED  BY <1>1, <1>7, <1>8, <1>10 DEF T, parts, drivers

(***************************************************************************)
(* Day tariffs                                                             *)
(***************************************************************************)

AreBands(bands) ==
    /\ IsList(bands)
    /\ \A i \in DOMAIN bands : bands[i].start \in Int /\ bands[i].end \in OptionalInt /\ bands[i].rate \in Int

\* s has the bands of another list, in the order of their first days.
IsSorting(p, s, bands) ==
    /\ DOMAIN s = DOMAIN bands
    /\ \A k \in DOMAIN s : p[k] \in DOMAIN bands /\ s[k] = bands[p[k]]
    /\ \A k, l \in DOMAIN s : p[k] = p[l] => k = l
    /\ \A i \in DOMAIN bands : \E k \in DOMAIN s : p[k] = i
    /\ \A k, l \in DOMAIN s : k < l => s[k].start <= s[l].start

\* Sorting changes the order of bands and nothing else.
LEMMA SortedByStart ==
    ASSUME NEW bands, AreBands(bands)
    PROVE  \E p : IsSorting(p, ByStart(bands), bands)
<1> DEFINE D == DOMAIN bands
           n == Len(bands)
           s == ByStart(bands)
           Before == {x \in D \X D : StartsBefore(bands, x[1], x[2])}
           rank(i) == Cardinality(ElementsBefore(Before, D, i))
           p == [k \in D |-> CHOOSE i \in D : rank(i) = k - 1]
<1>1. n \in Nat /\ D = 1 .. n /\ IsFiniteSet(D) /\ Cardinality(D) = n
  BY FS_Interval DEF AreBands, IsList
<1>2. \A i, j \in D : <<i, j>> \in Before <=> StartsBefore(bands, i, j)
  OBVIOUS
<1>3. \A i \in D : i \in Int /\ bands[i].start \in Int
  BY <1>1 DEF AreBands
<1> HIDE DEF Before, D
<1>4. IsStrictOrder(Before, D)
  <2>1. \A x, y \in D : x # y => <<x, y>> \in Before \/ <<y, x>> \in Before
    BY <1>2, <1>3 DEF StartsBefore
  <2>2. \A x, y, z \in D : <<x, y>> \in Before /\ <<y, z>> \in Before => <<x, z>> \in Before
    BY <1>2, <1>3 DEF StartsBefore
  <2>3. \A x \in D : <<x, x>> \notin Before
    BY <1>2, <1>3 DEF StartsBefore
  <2>4. QED  BY <2>1, <2>2, <2>3 DEF IsStrictOrder
<1>5. s = [k \in D |-> bands[p[k]]]
  <2>1. \A i \in D : {j \in DOMAIN bands : StartsBefore(bands, j, i)} = ElementsBefore(Before, D, i)
    BY <1>2 DEF ElementsBefore, D
  <2> DEFINE before(i) == Cardinality({j \in DOMAIN bands : StartsBefore(bands, j, i)})
  <2>2. \A i \in D : before(i) = rank(i)
    BY <2>1
  <2>3. s = [k \in D |-> bands[CHOOSE i \in D : before(i) = k - 1]]
    BY DEF ByStart, D
  <2> HIDE DEF before, rank
  <2>4. \A k \in D : (CHOOSE i \in D : before(i) = k - 1) = (CHOOSE i \in D : rank(i) = k - 1)
    BY <2>2
  <2>5. QED  BY <2>3, <2>4
<1>6. /\ \A x \in D : rank(x) \in 0 .. n - 1
      /\ \A x, y \in D : <<x, y>> \in Before => rank(x) < rank(y)
      /\ \A m \in 0 .. n - 1 : \E x \in D : rank(x) = m
  BY <1>1, <1>4, Ranks
<1> HIDE DEF rank
<1>7. \A k \in D : p[k] \in D /\ rank(p[k]) = k - 1
  <2>1. \A k \in D : k - 1 \in 0 .. n - 1
    BY <1>1
  <2>2. QED  BY <1>6, <2>1
<1> HIDE DEF p
<1>8. \A i, j \in D : rank(i) = rank(j) => i = j
  <2> SUFFICES ASSUME NEW i \in D, NEW j \in D, rank(i) = rank(j), i # j PROVE FALSE
    OBVIOUS
  <2>1. <<i, j>> \in Before \/ <<j, i>> \in Before
    BY <1>4 DEF IsStrictOrder
  <2>2. rank(i) < rank(j) \/ rank(j) < rank(i)
    BY <1>6, <2>1
  <2>3. rank(i) \in Int
    BY <1>6
  <2>4. QED  BY <2>2, <2>3
<1>9. \A k, l \in D : p[k] = p[l] => k = l
  BY <1>1, <1>7
<1>10. \A i \in D : \E k \in D : p[k] = i
  <2> SUFFICES ASSUME NEW i \in D PROVE \E k \in D : p[k] = i
    OBVIOUS
  <2>1. rank(i) + 1 \in D /\ rank(i) \in Int
    BY <1>1, <1>6
  <2>2. rank(p[rank(i) + 1]) = rank(i) /\ p[rank(i) + 1] \in D
    BY <1>7, <2>1
  <2>3. QED  BY <1>8, <2>1, <2>2
<1>11. ASSUME NEW k \in D, NEW l \in D, k < l PROVE bands[p[k]].start <= bands[p[l]].start
  <2>1. p[k] \in D /\ p[l] \in D /\ rank(p[k]) < rank(p[l]) /\ rank(p[k]) \in Int
    BY <1>1, <1>7, <1>11
  <2>2. <<p[l], p[k]>> \notin Before
    <3>1. ~(rank(p[l]) < rank(p[k])) /\ rank(p[l]) \in Int
      BY <1>6, <2>1
    <3>2. QED  BY <1>6, <2>1, <3>1
  <2>3. QED  BY <1>2, <1>3, <2>1, <2>2 DEF StartsBefore
<1>12. DOMAIN s = D /\ \A k \in D : s[k] = bands[p[k]]
  BY <1>5
<1> HIDE DEF s
<1>13. IsSorting(p, s, bands)
  <2>1. D = DOMAIN bands
    BY DEF D
  <2>2. \A k, l \in D : k < l => s[k].start <= s[l].start
    BY <1>11, <1>12
  <2>3. \A k \in D : p[k] \in D /\ s[k] = bands[p[k]]
    BY <1>7, <1>12
  <2>4. QED  BY <1>9, <1>10, <1>12, <2>1, <2>2, <2>3 DEF IsSorting
<1>14. QED  BY <1>13 DEF s

\* Bands that follow on from one another start on day 1 and never overlap.
LEMMA BandsFollowOn ==
    ASSUME NEW s, AreBands(s), Contiguous(s), \A i \in 1 .. Len(s) - 1 : s[i].end # NoValue
    PROVE  /\ \A i \in DOMAIN s : s[i].start >= 1 /\ s[i].rate > 0
                                  /\ (s[i].end # NoValue => s[i].start <= s[i].end)
           /\ \A i, j \in DOMAIN s : i < j => s[i].end # NoValue /\ s[i].end < s[j].start
           /\ \A i \in DOMAIN s : i # 1 => i - 1 \in DOMAIN s /\ s[i].start = s[i - 1].end + 1
           /\ 1 \in DOMAIN s => s[1].start = 1
<1> DEFINE D == DOMAIN s
           n == Len(s)
           Bad == {j \in D : ~ /\ s[j].start >= 1
                               /\ \A i \in D : i < j => s[i].end < s[j].start}
<1>1. n \in Nat /\ D = 1 .. n /\ \A i \in D : s[i].start \in Int /\ s[i].end \in OptionalInt
  BY DEF AreBands, IsList
<1>2. \A i \in D : i # n => s[i].end # NoValue /\ s[i].end \in Int
  BY <1>1 DEF OptionalInt
<1>3. \A i \in D : /\ i = 1 => s[i].start = 1
                   /\ i # 1 => i - 1 \in D /\ i - 1 # n /\ s[i].start = s[i - 1].end + 1
                   /\ s[i].rate > 0
                   /\ s[i].end # NoValue => s[i].start <= s[i].end
  <2>1. \A i \in D : i # 1 => i - 1 \in D /\ i - 1 # n
    BY <1>1
  <2>2. \A i \in D : s[i].end # NoValue => s[i].end \in Int
    BY <1>1 DEF OptionalInt
  <2>3. \A i \in D : s[i].end # NoValue => s[i].start <= s[i].end
    BY <1>1, <2>2 DEF Contiguous
  <2>4. QED  BY <2>1, <2>3 DEF Contiguous
<1>4. Bad = {}
  <2> SUFFICES ASSUME Bad # {} PROVE FALSE
    OBVIOUS
  <2>1. PICK j \in Bad : \A i \in Bad : j <= i
    <3>1. Bad \in SUBSET Nat
      BY <1>1
    <3> HIDE DEF Bad
    <3>2. QED  BY <3>1, LeastExists
  <2>2. j \in D /\ j \in Int
    BY <1>1
  <2>3. CASE j = 1
    <3>1. \A i \in D : ~(i < 1)
      BY <1>1
    <3>2. QED  BY <1>3, <2>2, <2>3, <3>1
  <2>4. CASE j # 1
    <3> DEFINE h == j - 1
    <3>1. h \in D /\ h # n /\ s[j].start = s[h].end + 1
      BY <1>3, <2>2, <2>4
    <3>2. h \notin Bad
      <4>1. ~(j <= h)
        BY <2>2
      <4> HIDE DEF Bad, h
      <4>2. QED  BY <2>1, <4>1
    <3>3. s[h].start >= 1 /\ \A i \in D : i < h => s[i].end < s[h].start
      BY <3>1, <3>2
    <3>4. s[h].end \in Int /\ s[h].start \in Int /\ s[h].start <= s[h].end
      BY <1>1, <1>2, <1>3, <3>1
    <3>5. s[j].start >= 1
      BY <3>1, <3>3, <3>4
    <3>6. \A i \in D : i < j => i = h \/ i < h
      BY <1>1, <2>2
    <3>7. \A i \in D : i < h => s[i].end \in Int
      BY <1>1, <1>2, <3>1
    <3> HIDE DEF h
    <3>8. \A i \in D : i < j => s[i].end < s[j].start
      BY <3>1, <3>3, <3>4, <3>6, <3>7
    <3>9. QED  BY <2>1, <3>5, <3>8
  <2>5. QED  BY <2>3, <2>4
<1>5. \A i, j \in D : i < j => s[i].end # NoValue /\ s[i].end < s[j].start
  <2>1. \A i, j \in D : i < j => i # n
    BY <1>1
  <2>2. QED  BY <1>2, <1>4, <2>1
<1>6. QED  BY <1>3, <1>4, <1>5

\* Nothing is left out between bands that follow on, and nothing priced twice.
LEMMA FollowOnPricesOnce ==
    ASSUME NEW s, AreBands(s), Contiguous(s), \A i \in 1 .. Len(s) - 1 : s[i].end # NoValue
    PROVE  \A d \in Int : /\ \A i, j \in PricedBy(s, d) : i = j
                          /\ d >= 2 /\ PricedBy(s, d) # {} => PricedBy(s, d - 1) # {}
<1> DEFINE D == DOMAIN s
<1>1. \A i \in D : /\ i \in Int /\ s[i].start \in Int /\ s[i].end \in OptionalInt
                   /\ s[i].end # NoValue => s[i].end \in Int
  BY DEF AreBands, IsList, OptionalInt
<1>2. /\ \A i \in D : s[i].start >= 1 /\ (s[i].end # NoValue => s[i].start <= s[i].end)
      /\ \A i, j \in D : i < j => s[i].end # NoValue /\ s[i].end < s[j].start
      /\ \A i \in D : i # 1 => i - 1 \in D /\ s[i].start = s[i - 1].end + 1
      /\ 1 \in D => s[1].start = 1
  BY BandsFollowOn
<1>3. ASSUME NEW d \in Int, NEW i \in PricedBy(s, d), NEW j \in PricedBy(s, d) PROVE i = j
  <2>1. i \in D /\ j \in D /\ InBand(s[i], d) /\ InBand(s[j], d)
    BY DEF PricedBy
  <2>2. ~(i < j) /\ ~(j < i)
    BY <1>1, <1>2, <2>1 DEF InBand
  <2>3. QED  BY <1>1, <2>1, <2>2
<1>4. ASSUME NEW d \in Int, d >= 2, NEW i \in PricedBy(s, d) PROVE PricedBy(s, d - 1) # {}
  <2>1. i \in D /\ InBand(s[i], d)
    BY DEF PricedBy
  <2>2. CASE s[i].start < d
    <3>1. InBand(s[i], d - 1)
      BY <1>1, <2>1, <2>2 DEF InBand
    <3>2. QED  BY <2>1, <3>1 DEF PricedBy
  <2>3. CASE s[i].start = d
    <3>1. i # 1
      BY <1>2, <1>4, <2>1, <2>3
    <3> DEFINE h == i - 1
    <3>2. h \in D /\ s[i].start = s[h].end + 1 /\ h < i
      BY <1>1, <1>2, <2>1, <3>1
    <3> HIDE DEF h
    <3>3. s[h].end \in Int /\ s[h].start \in Int /\ s[h].start <= s[h].end
      BY <1>1, <1>2, <2>1, <3>2
    <3>4. InBand(s[h], d - 1)
      BY <2>3, <3>2, <3>3 DEF InBand
    <3>5. QED  BY <3>2, <3>4 DEF PricedBy
  <2>4. QED  BY <1>1, <2>1, <2>2, <2>3 DEF InBand
<1>5. QED  BY <1>3, <1>4

\* Bands in their order that never overlap and leave nothing out follow on.
LEMMA OncePricedFollowsOn ==
    ASSUME NEW s, AreBands(s), NEW days \in SUBSET Int,
           \A i, j \in DOMAIN s : i < j => s[i].start <= s[j].start,
           \A i \in DOMAIN s : /\ s[i].rate > 0 /\ s[i].start > 0
                               /\ s[i].end # NoValue => s[i].start <= s[i].end
                               /\ s[i].start \in days,
           \A d \in days : \A i, j \in PricedBy(s, d) : i = j,
           \A d \in days \ {1} : PricedBy(s, d) # {} => PricedBy(s, d - 1) # {}
    PROVE  Contiguous(s) /\ \A i \in 1 .. Len(s) - 1 : s[i].end # NoValue
<1> DEFINE D == DOMAIN s
           n == Len(s)
<1>1. /\ n \in Nat /\ D = 1 .. n
      /\ \A i \in D : /\ i \in Int /\ s[i].start \in Int
                      /\ s[i].end # NoValue => s[i].end \in Int
  BY DEF AreBands, IsList, OptionalInt
<1>2. \A i, j \in D : i < j => s[i].start <= s[j].start
  OBVIOUS
<1>3. \A i \in D : /\ s[i].rate > 0 /\ s[i].start > 0
                   /\ s[i].end # NoValue => s[i].start <= s[i].end
  OBVIOUS
<1>4. ASSUME NEW i \in D, NEW j \in D, i < j PROVE s[i].end # NoValue /\ s[i].end < s[j].start
  <2> DEFINE d == s[j].start
  <2>1. d \in days /\ d \in Int
    BY <1>1
  <2>2. j \in PricedBy(s, d)
    BY <1>1, <1>3 DEF PricedBy, InBand
  <2>3. i \notin PricedBy(s, d)
    <3>1. i # j
      BY <1>1, <1>4
    <3> HIDE DEF d
    <3>2. QED  BY <2>1, <2>2, <3>1
  <2>4. ~InBand(s[i], d)
    BY <2>3 DEF PricedBy
  <2>5. QED  BY <1>1, <1>2, <1>4, <2>1, <2>4 DEF InBand
<1>5. ASSUME NEW i \in D, s[i].start # 1 PROVE \E c \in D : c < i /\ InBand(s[c], s[i].start - 1)
  <2> DEFINE d == s[i].start
  <2>1. d \in days \ {1} /\ d \in Int
    BY <1>1, <1>5
  <2>2. i \in PricedBy(s, d)
    BY <1>1, <1>3 DEF PricedBy, InBand
  <2>3. PricedBy(s, d - 1) # {}
    <3> HIDE DEF d
    <3>1. QED  BY <2>1, <2>2
  <2>4. PICK c \in D : InBand(s[c], d - 1)
    BY <2>3 DEF PricedBy
  <2>5. ~(i < c) /\ i # c
    BY <1>1, <1>2, <2>4 DEF InBand
  <2>6. QED  BY <1>1, <2>4, <2>5
<1>6. ASSUME 1 \in D PROVE s[1].start = 1
  <2>1. \A c \in D : ~(c < 1)
    BY <1>1
  <2>2. QED  BY <1>5, <1>6, <2>1
<1>7. ASSUME NEW i \in D, i # 1 PROVE i - 1 \in D /\ s[i].start = s[i - 1].end + 1
  <2> DEFINE h == i - 1
  <2>1. h \in D /\ h < i /\ h \in Int
    BY <1>1, <1>7
  <2>2. \A c \in D : c < i => c = h \/ c < h
    BY <1>1
  <2> HIDE DEF h
  <2>3. s[h].end # NoValue /\ s[h].end \in Int /\ s[h].end < s[i].start /\ s[h].start <= s[h].end
    BY <1>1, <1>3, <1>4, <2>1
  <2>4. ~(s[h].end + 1 < s[i].start)
    <3> SUFFICES ASSUME s[h].end + 1 < s[i].start PROVE FALSE
      OBVIOUS
    <3>1. s[i].start # 1
      BY <1>1, <1>3, <2>1, <2>3
    <3>2. PICK c \in D : c < i /\ InBand(s[c], s[i].start - 1)
      BY <1>5, <3>1
    <3>3. c # h
      BY <1>1, <2>1, <2>3, <3>2 DEF InBand
    <3>4. s[c].end # NoValue /\ s[c].end < s[h].start
      BY <1>4, <2>1, <2>2, <3>2, <3>3
    <3>5. QED  BY <1>1, <2>1, <2>3, <3>2, <3>4 DEF InBand
  <2>5. QED  BY <1>1, <2>1, <2>3, <2>4 DEF h
<1>8. ASSUME NEW i \in 1 .. n - 1 PROVE s[i].end # NoValue
  <2>1. i \in D /\ i + 1 \in D /\ i < i + 1
    BY <1>1
  <2>2. QED  BY <1>4, <2>1
<1>9. Contiguous(s)
  <2> SUFFICES ASSUME NEW i \in D
               PROVE  /\ s[i].start = IF i = 1 THEN 1 ELSE s[i - 1].end + 1
                      /\ s[i].rate > 0
                      /\ IF s[i].end = NoValue THEN i = n ELSE s[i].end >= s[i].start
    BY DEF Contiguous
  <2>1. s[i].start = IF i = 1 THEN 1 ELSE s[i - 1].end + 1
    BY <1>6, <1>7
  <2>2. s[i].end = NoValue => i = n
    BY <1>1, <1>8
  <2>3. s[i].end # NoValue => s[i].end >= s[i].start
    BY <1>1, <1>3
  <2>4. QED  BY <1>3, <2>1, <2>2, <2>3
<1>10. QED  BY <1>8, <1>9

\* The bands in their order are a list of bands too, and as long.
LEMMA SortedBands ==
    ASSUME NEW bands, AreBands(bands)
    PROVE  /\ \E p : IsSorting(p, ByStart(bands), bands)
           /\ AreBands(ByStart(bands))
           /\ Len(ByStart(bands)) = Len(bands)
           /\ ByStart(bands) = << >> <=> Len(bands) = 0
<1> DEFINE s == ByStart(bands)
           n == Len(bands)
           T == {bands[i] : i \in 1 .. n}
<1>1. n \in Nat /\ DOMAIN bands = 1 .. n
  BY DEF AreBands, IsList
<1>2. PICK p : IsSorting(p, s, bands)
  BY SortedByStart
<1>3. s = [k \in 1 .. n |-> s[k]]
  BY <1>1 DEF ByStart
<1>4. \A k \in 1 .. n : p[k] \in 1 .. n /\ s[k] = bands[p[k]]
  BY <1>1, <1>2 DEF IsSorting
<1> HIDE DEF s, n
<1>5. s \in [1 .. n -> T]
  BY <1>3, <1>4
<1>6. s \in Seq(T) /\ Len(s) = n
  BY <1>1, <1>5
<1>7. s = << >> <=> n = 0
  BY <1>6
<1>8. IsList(s) /\ DOMAIN s = 1 .. n
  BY <1>1, <1>6 DEF IsList
<1>9. AreBands(s)
  BY <1>1, <1>4, <1>8 DEF AreBands
<1>10. QED  BY <1>2, <1>6, <1>7, <1>9 DEF s, n

\* A day is priced by the same bands, whatever their order.
LEMMA SortingPrices ==
    ASSUME NEW p, NEW s, NEW bands, IsSorting(p, s, bands), NEW d
    PROVE  /\ PricedBy(s, d) = {} <=> PricedBy(bands, d) = {}
           /\ (\A i, j \in PricedBy(s, d) : i = j) <=> (\A i, j \in PricedBy(bands, d) : i = j)
           /\ PricedBy(s, d) # {} /\ (\A i, j \in PricedBy(s, d) : i = j)
                => RateOf(s, d) = RateOf(bands, d)
<1> DEFINE P == PricedBy(s, d)
           Q == PricedBy(bands, d)
<1>1. \A k \in P : p[k] \in Q
  BY DEF IsSorting, PricedBy
<1>2. \A i \in Q : \E k \in P : p[k] = i
  BY DEF IsSorting, PricedBy
<1>3. \A k, l \in P : p[k] = p[l] => k = l
  BY DEF IsSorting, PricedBy
<1>4. \A k \in P : s[k] = bands[p[k]]
  BY DEF IsSorting, PricedBy
<1>5. RateOf(s, d) = s[CHOOSE i \in P : TRUE].rate /\ RateOf(bands, d) = bands[CHOOSE i \in Q : TRUE].rate
  BY DEF RateOf
<1> HIDE DEF P, Q
<1>6. (\A i, j \in P : i = j) <=> (\A i, j \in Q : i = j)
  BY <1>1, <1>2, <1>3
<1>7. ASSUME P # {}, \A i, j \in P : i = j PROVE RateOf(s, d) = RateOf(bands, d)
  <2> DEFINE k == CHOOSE i \in P : TRUE
             i == CHOOSE i \in Q : TRUE
  <2>1. k \in P /\ p[k] \in Q /\ i \in Q
    BY <1>1, <1>7
  <2>2. i = p[k]
    BY <1>6, <1>7, <2>1
  <2>3. QED  BY <1>4, <1>5, <2>1, <2>2
<1>8. QED  BY <1>1, <1>2, <1>6, <1>7 DEF P, Q

\* A day has a price if and only if a band prices it.
LEMMA RateForType ==
    ASSUME NEW s, AreBands(s), NEW d
    PROVE  /\ RateFor(s, d) = NoValue <=> PricedBy(s, d) = {}
           /\ RateFor(s, d) \in OptionalInt
<1> DEFINE I == {i \in 1 .. Len(s) : InBand(s[i], d)}
<1>1. Len(s) \in Nat /\ I = PricedBy(s, d) /\ \A i \in I : s[i].rate \in Int
  BY DEF AreBands, IsList, PricedBy
<1>2. RateFor(s, d) = IF (IF I # {} THEN Min(I) ELSE 0) = 0 THEN NoValue
                      ELSE s[IF I # {} THEN Min(I) ELSE 0].rate
  BY DEF RateFor, SelectInSeq
<1>3. I # {} => Min(I) \in I
  <2>1. I \in SUBSET Nat
    OBVIOUS
  <2> HIDE DEF I
  <2>2. QED  BY <2>1, LeastExists DEF Min
<1>4. \A i \in I : i # 0
  BY <1>1
<1> HIDE DEF I
<1>5. CASE I = {}
  BY <1>1, <1>2, <1>5 DEF OptionalInt
<1>6. CASE I # {}
  <2>1. RateFor(s, d) = s[Min(I)].rate /\ s[Min(I)].rate \in Int
    BY <1>1, <1>2, <1>3, <1>4, <1>6
  <2>2. QED  BY <1>1, <1>6, <2>1, RatingConstants DEF OptionalInt
<1>7. QED  BY <1>5, <1>6

\* A band bills one more day for each day that it prices.
LEMMA BilledDayByDay ==
    ASSUME NEW band, band.start \in Int, band.end \in OptionalInt, band.start > 0,
           band.end # NoValue => band.start <= band.end, NEW n \in Nat
    PROVE  /\ BilledDays(band, 0) = 0
           /\ BilledDays(band, n) \in Int
           /\ BilledDays(band, n + 1) = BilledDays(band, n) + (IF InBand(band, n + 1) THEN 1 ELSE 0)
<1>1. CASE band.end = NoValue
  BY <1>1 DEF BilledDays, AtLeast, InBand
<1>2. CASE band.end # NoValue
  <2>1. band.end \in Int
    BY <1>2 DEF OptionalInt
  <2>2. QED  BY <1>2, <2>1 DEF BilledDays, AtLeast, InBand
<1>3. QED  BY <1>1, <1>2

\* Day by day, all bands together bill what each day costs.
LEMMA DaysSum ==
    ASSUME NEW s, AreBands(s), NEW days \in Nat,
           \A i \in DOMAIN s : s[i].start > 0 /\ (s[i].end # NoValue => s[i].start <= s[i].end),
           \A d \in 1 .. days : PricedBy(s, d) # {} /\ \A i, j \in PricedBy(s, d) : i = j
    PROVE  LET billed == Total([i \in DOMAIN s |-> s[i].rate * BilledDays(s[i], days)])
           IN  /\ billed \in Int
               /\ billed = Total([d \in 1 .. days |-> RateOf(s, d)])
<1> DEFINE D == DOMAIN s
           F(n) == [i \in D |-> s[i].rate * BilledDays(s[i], n)]
           B(n) == SumFunctionOnSet(F(n), D)
           rates == [d \in 1 .. days |-> RateOf(s, d)]
           R(n) == SumFunctionOnSet(rates, 1 .. n)
           Bad == {n \in 0 .. days : B(n) # R(n)}
<1>1. IsFiniteSet(D) /\ \A i \in D : s[i].rate \in Int /\ s[i].start \in Int /\ s[i].end \in OptionalInt
  BY FS_Interval DEF AreBands, IsList
<1>2. \A n \in Nat : \A i \in D :
          /\ F(n)[i] = s[i].rate * BilledDays(s[i], n)
          /\ BilledDays(s[i], n) \in Int
          /\ BilledDays(s[i], 0) = 0
          /\ BilledDays(s[i], n + 1) = BilledDays(s[i], n) + (IF InBand(s[i], n + 1) THEN 1 ELSE 0)
  BY <1>1, BilledDayByDay
<1>3. \A d \in 1 .. days : /\ PricedBy(s, d) \subseteq D /\ rates[d] = RateOf(s, d)
                           /\ (CHOOSE i \in PricedBy(s, d) : TRUE) \in PricedBy(s, d)
  BY DEF PricedBy
<1>4. \A d \in 1 .. days : rates[d] \in Int
  BY <1>1, <1>3 DEF RateOf
<1> HIDE DEF D, F, rates
<1>5. \A n \in Nat : \A i \in D : F(n)[i] \in Int
  BY <1>1, <1>2
<1>6. \A n \in Nat : B(n) \in Int
  BY <1>1, <1>5, SumTakeOut
<1>7. B(0) = R(0)
  <2>1. \A i \in D : F(0)[i] = 0
    BY <1>1, <1>2
  <2>2. B(0) = 0
    BY <1>1, <2>1, SumZero
  <2>3. R(0) = 0
    <3>1. 1 .. 0 = {}
      OBVIOUS
    <3>2. QED  BY <3>1, SumEmpty
  <2>4. QED  BY <2>2, <2>3
<1>8. ASSUME NEW n \in Nat, n + 1 \in 1 .. days, B(n) = R(n) PROVE B(n + 1) = R(n + 1)
  <2> DEFINE d == n + 1
             c == CHOOSE i \in PricedBy(s, d) : TRUE
  <2>1. c \in D /\ InBand(s[c], d) /\ d \in Nat
    BY <1>3, <1>8 DEF PricedBy, D
  <2>2. \A i \in D : i # c => ~InBand(s[i], d)
    <3>1. \A i \in D : InBand(s[i], d) => i \in PricedBy(s, d)
      BY DEF PricedBy, D
    <3>2. c \in PricedBy(s, d) /\ \A i, j \in PricedBy(s, d) : i = j
      BY <1>3, <1>8
    <3> HIDE DEF c
    <3>3. QED  BY <3>1, <3>2
  <2>3. rates[d] = s[c].rate
    BY <1>3, <1>8 DEF RateOf
  <2> HIDE DEF c
  <2>4. F(d)[c] = F(n)[c] + rates[d] /\ \A i \in D \ {c} : F(d)[i] = F(n)[i]
    <3>1. \A i \in D : i # c => BilledDays(s[i], d) = BilledDays(s[i], n)
      BY <1>2, <2>2
    <3>2. BilledDays(s[c], d) = BilledDays(s[c], n) + 1
      BY <1>2, <2>1
    <3>3. \A r, b \in Int : r * (b + 1) = r * b + r
      OBVIOUS
    <3>4. F(d)[c] = s[c].rate * BilledDays(s[c], d) /\ F(n)[c] = s[c].rate * BilledDays(s[c], n)
          /\ BilledDays(s[c], n) \in Int /\ s[c].rate \in Int
      BY <1>1, <1>2, <2>1
    <3>5. F(d)[c] = F(n)[c] + rates[d]
      BY <2>3, <3>2, <3>3, <3>4
    <3>6. \A i \in D \ {c} : F(d)[i] = F(n)[i]
      BY <1>2, <2>1, <3>1
    <3>7. QED  BY <3>5, <3>6
  <2>5. B(d) = B(n) + rates[d]
    <3> DEFINE rest == D \ {c}
    <3>1. IsFiniteSet(rest)
      BY <1>1, FS_Subset
    <3>2. /\ B(d) = F(d)[c] + SumFunctionOnSet(F(d), rest)
          /\ B(n) = F(n)[c] + SumFunctionOnSet(F(n), rest)
      BY <1>1, <1>5, <2>1, SumTakeOut
    <3>3. SumFunctionOnSet(F(d), rest) = SumFunctionOnSet(F(n), rest)
      BY <2>4, <3>1, SumCongruence
    <3>4. SumFunctionOnSet(F(n), rest) \in Int
      BY <1>5, <3>1, SumTakeOut
    <3>5. F(n)[c] \in Int /\ rates[d] \in Int
      BY <1>4, <1>5, <1>8, <2>1
    <3> HIDE DEF B, rest
    <3>6. QED  BY <2>4, <3>2, <3>3, <3>4, <3>5
  <2>6. R(d) = R(n) + rates[d]
    <3>1. IsFiniteSet(1 .. n) /\ d \notin 1 .. n /\ (1 .. n) \cup {d} = 1 .. d
      BY FS_Interval
    <3>2. \A x \in (1 .. n) \cup {d} : rates[x] \in Int
      BY <1>4, <1>8
    <3>3. SumFunctionOnSet(rates, (1 .. n) \cup {d}) = rates[d] + SumFunctionOnSet(rates, 1 .. n)
      BY <3>1, <3>2, SumAdd
    <3>4. rates[d] \in Int /\ R(n) \in Int
      BY <1>6, <1>8, <3>2
    <3>5. SumFunctionOnSet(rates, (1 .. n) \cup {d}) = SumFunctionOnSet(rates, 1 .. d)
      <4> HIDE DEF d
      <4>1. QED  BY <3>1, Zenon
    <3> HIDE DEF d
    <3>6. QED  BY <3>3, <3>4, <3>5
  <2>7. QED  BY <1>8, <2>5, <2>6
<1>9. Bad = {}
  <2> SUFFICES ASSUME Bad # {} PROVE FALSE
    OBVIOUS
  <2>1. PICK m \in Bad : \A n \in Bad : m <= n
    <3>1. Bad \in SUBSET Nat
      OBVIOUS
    <3> HIDE DEF Bad
    <3>2. QED  BY <3>1, LeastExists
  <2>2. m \in 0 .. days /\ B(m) # R(m)
    OBVIOUS
  <2> DEFINE n == m - 1
  <2>3. m # 0 /\ n \in Nat /\ n \in 0 .. days /\ n + 1 = m /\ n + 1 \in 1 .. days /\ ~(m <= n)
    BY <1>7, <2>2
  <2> HIDE DEF n
  <2>4. B(n) = R(n)
    <3>1. n \notin Bad
      <4> HIDE DEF Bad
      <4>1. QED  BY <2>1, <2>3
    <3>2. QED  BY <2>3, <3>1
  <2>5. B(n + 1) = R(n + 1)
    BY <1>8, <2>3, <2>4
  <2>6. QED  BY <2>2, <2>3, <2>5
<1>10. B(days) = R(days) /\ B(days) \in Int
  BY <1>6, <1>9
<1>11. DOMAIN F(days) = D /\ DOMAIN rates = 1 .. days
  BY DEF F, rates
<1>12. Total(F(days)) = B(days) /\ Total(rates) = R(days)
  BY <1>11 DEF Total
<1> HIDE DEF B, R
<1>13. QED  BY <1>10, <1>12 DEF F, D, rates

\* If a day is priced, and no day after an unpriced one, all days up to it are.
LEMMA DaysPriced ==
    ASSUME NEW s, NEW days \in Nat, days > 0 => PricedBy(s, days) # {},
           \A d \in 2 .. days : PricedBy(s, d) # {} => PricedBy(s, d - 1) # {}
    PROVE  \A d \in 1 .. days : PricedBy(s, d) # {}
<1> DEFINE Bad == {d \in 1 .. days : PricedBy(s, d) = {}}
<1> SUFFICES ASSUME Bad # {} PROVE FALSE
  OBVIOUS
<1>1. PICK m \in Bad : \A d \in Bad : m >= d
  <2>1. Bad \in SUBSET (0 .. days)
    OBVIOUS
  <2> HIDE DEF Bad
  <2>2. QED  BY <2>1, GreatestExists
<1>2. m \in 1 .. days /\ PricedBy(s, m) = {}
  OBVIOUS
<1>3. m # days
  BY <1>2
<1> DEFINE d == m + 1
<1>4. d \in 1 .. days /\ d \in 2 .. days /\ d - 1 = m /\ ~(m >= d)
  BY <1>2, <1>3
<1> HIDE DEF d
<1>5. d \notin Bad
  <2> HIDE DEF Bad
  <2>1. QED  BY <1>1, <1>4
<1>6. PricedBy(s, d - 1) # {}
  BY <1>4, <1>5
<1>7. QED  BY <1>2, <1>4, <1>6

\* What progressive_day_amount does not refuse.
DaysAccepted(s, days, requireNext) ==
    /\ days >= 0 /\ Len(s) > 0
    /\ Contiguous(s) /\ \A i \in 1 .. Len(s) - 1 : s[i].end # NoValue
    /\ days > 0 => PricedBy(s, days) # {}
    /\ requireNext => PricedBy(s, days + 1) # {}

\* An answer is given to what is accepted, and to nothing else.
LEMMA DaysAnswered ==
    ASSUME NEW t, IsTariff(t)
    PROVE  LET s == ByStart(t.bands)
               answered == DayAmount(t.bands, t.days, t.requireNext)
           IN  /\ answered # NoValue => DaysAccepted(s, t.days, t.requireNext)
               /\ DaysAccepted(s, t.days, t.requireNext) =>
                    /\ answered.amount = Total([i \in DOMAIN s |-> s[i].rate * BilledDays(s[i], t.days)])
                    /\ answered.amount \in Int => answered # NoValue
<1> DEFINE s == ByStart(t.bands)
           days == t.days
           current == RateFor(s, AtLeast(days, 1))
           upcoming == RateFor(s, days + 1)
           amount == Total([i \in DOMAIN s |-> s[i].rate * BilledDays(s[i], days)])
           refused == \/ days < 0 \/ s = << >>
                      \/ \E i \in 1 .. Len(s) - 1 : s[i].end = NoValue
                      \/ ~Contiguous(s)
                      \/ days > 0 /\ current = NoValue
                      \/ t.requireNext /\ upcoming = NoValue
           given == [amount |-> amount, current |-> Dec(OrElse(current, upcoming)),
                     upcoming |-> upcoming]
<1>1. AreBands(t.bands) /\ days \in Int /\ t.requireNext \in BOOLEAN
  BY DEF IsTariff, AreBands, Range
<1>2. AreBands(s) /\ (s = << >> <=> ~(Len(s) > 0))
  <2>1. AreBands(s) /\ (s = << >> <=> Len(s) = 0)
    BY <1>1, SortedBands
  <2>2. Len(s) \in Nat
    BY <2>1 DEF AreBands, IsList
  <2>3. QED  BY <2>1, <2>2
<1>3. DayAmount(t.bands, t.days, t.requireNext) = IF refused THEN NoValue ELSE given
  BY DEF DayAmount
<1>4. /\ current \in OptionalInt /\ upcoming \in OptionalInt
      /\ days > 0 => (current = NoValue <=> PricedBy(s, days) = {})
      /\ upcoming = NoValue <=> PricedBy(s, days + 1) = {}
  <2>1. days > 0 => AtLeast(days, 1) = days
    BY <1>1 DEF AtLeast
  <2> HIDE DEF s, days
  <2>2. QED  BY <1>2, <2>1, RateForType
<1> HIDE DEF current, upcoming
<1>5. ~refused <=> DaysAccepted(s, days, t.requireNext)
  <2>1. ~(days < 0) <=> days >= 0
    BY <1>1
  <2> HIDE DEF s, days
  <2>2. QED  BY <1>1, <1>2, <1>4, <2>1 DEF DaysAccepted
<1>6. amount \in Int => given # NoValue
  <2>1. Dec(OrElse(current, upcoming)) \in Int
    BY <1>4 DEF OptionalInt, Dec, OrElse
  <2> HIDE DEF amount
  <2>2. amount \in Int => given \in DayAnswers
    BY <1>4, <2>1 DEF DayAnswers
  <2> HIDE DEF given
  <2>3. QED  BY <2>2, RatingConstants
<1>7. given.amount = amount
  OBVIOUS
<1> HIDE DEF refused, given, amount
<1>8. QED  BY <1>3, <1>5, <1>6, <1>7 DEF s, amount, days

\* Bands follow on from one another if and only if no day is priced twice and
\* none is left out between two that are priced.
LEMMA AcceptedPricesOnce ==
    ASSUME NEW t, IsTariff(t)
    PROVE  DaysAccepted(ByStart(t.bands), t.days, t.requireNext) <=> PricesEachDayOnce(t)
<1> DEFINE bands == t.bands
           s == ByStart(bands)
           L == DaysLookedAt(t)
           Sound(b) == b.rate > 0 /\ b.start > 0 /\ (b.end # NoValue => b.start <= b.end)
           Once(x, d) == \A i, j \in PricedBy(x, d) : i = j
           priced(x, d) == PricedBy(x, d) # {}
<1>1. /\ AreBands(bands) /\ t.days \in Int
      /\ Range(bands) = {bands[i] : i \in DOMAIN bands}
  BY DEF IsTariff, AreBands, Range
<1>2. PICK p : IsSorting(p, s, bands)
  BY <1>1, SortedBands
<1>3. AreBands(s) /\ Len(s) = Len(bands)
  BY <1>1, SortedBands
<1>4. \A d : priced(s, d) <=> priced(bands, d)
  BY <1>2, SortingPrices
<1>5. \A d : Once(s, d) <=> Once(bands, d)
  BY <1>2, SortingPrices
<1>6. \A d : Cardinality(PricedBy(bands, d)) <= 1 <=> Once(bands, d)
  <2>1. \A d : IsFiniteSet(PricedBy(bands, d))
    <3>1. \A d : PricedBy(bands, d) \in SUBSET DOMAIN bands
      BY DEF PricedBy
    <3>2. IsFiniteSet(DOMAIN bands)
      BY <1>1, FS_Interval DEF AreBands, IsList
    <3>3. QED  BY <3>1, <3>2, FS_Subset
  <2>2. QED  BY <2>1, OneAtMost
<1>7. (\A b \in Range(bands) : Sound(b)) <=> \A i \in DOMAIN s : Sound(s[i])
  <2>1. DOMAIN s = DOMAIN bands /\ \A k \in DOMAIN s : p[k] \in DOMAIN bands /\ s[k] = bands[p[k]]
    BY <1>2 DEF IsSorting
  <2>2. \A i \in DOMAIN bands : \E k \in DOMAIN s : p[k] = i
    BY <1>2 DEF IsSorting
  <2> HIDE DEF Sound, s, bands
  <2>3. QED  BY <1>1, <2>1, <2>2
<1>8. L \in SUBSET Int /\ (\A d \in L : d >= 1) /\ \A i \in DOMAIN s : Sound(s[i]) => s[i].start \in L
  <2>1. L = (1 .. t.days + 1) \cup UNION {1 .. bands[i].start : i \in DOMAIN bands}
    BY <1>1 DEF DaysLookedAt
  <2>2. \A i \in DOMAIN bands : bands[i].start \in Int
    BY <1>1 DEF AreBands
  <2>3. \A d \in L : d \in Int /\ d >= 1
    BY <1>1, <2>1, <2>2
  <2>4. ASSUME NEW i \in DOMAIN s, Sound(s[i]) PROVE s[i].start \in L
    <3>1. p[i] \in DOMAIN bands /\ s[i] = bands[p[i]]
      BY <1>2 DEF IsSorting
    <3>2. s[i].start \in 1 .. bands[p[i]].start
      BY <2>2, <2>4, <3>1
    <3>3. QED  BY <2>1, <3>1, <3>2
  <2>5. QED  BY <2>3, <2>4
<1>9. PricesEachDayOnce(t) <=>
        /\ t.days >= 0 /\ Len(bands) > 0
        /\ \A b \in Range(bands) : Sound(b)
        /\ \A d \in L : Cardinality(PricedBy(bands, d)) <= 1
        /\ \A d \in L \ {1} : priced(bands, d) => priced(bands, d - 1)
        /\ t.days > 0 => priced(bands, t.days)
        /\ t.requireNext => priced(bands, t.days + 1)
  BY DEF PricesEachDayOnce
<1> HIDE DEF bands, s, L
<1>10. ASSUME DaysAccepted(s, t.days, t.requireNext) PROVE PricesEachDayOnce(t)
  <2>1. Contiguous(s) /\ \A i \in 1 .. Len(s) - 1 : s[i].end # NoValue
    BY <1>10 DEF DaysAccepted
  <2>2. \A i \in DOMAIN s : Sound(s[i])
    <3>1. \A i \in DOMAIN s : s[i].start >= 1 /\ s[i].rate > 0
                              /\ (s[i].end # NoValue => s[i].start <= s[i].end)
      BY <1>3, <2>1, BandsFollowOn
    <3>2. \A i \in DOMAIN s : s[i].start \in Int
      BY <1>3 DEF AreBands
    <3>3. QED  BY <3>1, <3>2
  <2>3. \A d \in Int : Once(s, d) /\ (d >= 2 /\ priced(s, d) => priced(s, d - 1))
    BY <1>3, <2>1, FollowOnPricesOnce
  <2> HIDE DEF Sound, Once, priced
  <2>4. \A d \in L : Cardinality(PricedBy(bands, d)) <= 1
    BY <1>5, <1>6, <1>8, <2>3
  <2>5. \A d \in L \ {1} : priced(bands, d) => priced(bands, d - 1)
    <3>1. \A d \in L \ {1} : d \in Int /\ d >= 2
      BY <1>8
    <3>2. QED  BY <1>4, <2>3, <3>1
  <2>6. /\ t.days >= 0 /\ Len(bands) > 0
        /\ t.days > 0 => priced(bands, t.days)
        /\ t.requireNext => priced(bands, t.days + 1)
    <3>1. /\ t.days >= 0 /\ Len(s) > 0
          /\ t.days > 0 => priced(s, t.days)
          /\ t.requireNext => priced(s, t.days + 1)
      BY <1>10 DEF DaysAccepted, priced
    <3>2. QED  BY <1>3, <1>4, <3>1
  <2>7. QED  BY <1>7, <1>9, <2>2, <2>4, <2>5, <2>6
<1>11. ASSUME PricesEachDayOnce(t) PROVE DaysAccepted(s, t.days, t.requireNext)
  <2>1. \A i \in DOMAIN s : Sound(s[i]) /\ s[i].start \in L
    BY <1>7, <1>8, <1>9, <1>11
  <2>2. \A d \in L : Once(s, d)
    BY <1>5, <1>6, <1>9, <1>11
  <2>3. \A d \in L \ {1} : priced(s, d) => priced(s, d - 1)
    BY <1>4, <1>9, <1>11
  <2>4. \A i, j \in DOMAIN s : i < j => s[i].start <= s[j].start
    BY <1>2 DEF IsSorting
  <2>5. Contiguous(s) /\ \A i \in 1 .. Len(s) - 1 : s[i].end # NoValue
    BY <1>3, <1>8, <2>1, <2>2, <2>3, <2>4, OncePricedFollowsOn
  <2>6. /\ t.days >= 0 /\ Len(s) > 0
        /\ t.days > 0 => priced(s, t.days)
        /\ t.requireNext => priced(s, t.days + 1)
    BY <1>3, <1>4, <1>9, <1>11
  <2>7. QED  BY <2>5, <2>6 DEF DaysAccepted
<1>12. QED  BY <1>10, <1>11 DEF s, bands

\* What is accepted is billed for each of its days.
LEMMA AcceptedSum ==
    ASSUME NEW t, IsTariff(t), DaysAccepted(ByStart(t.bands), t.days, t.requireNext)
    PROVE  LET s == ByStart(t.bands)
               billed == Total([i \in DOMAIN s |-> s[i].rate * BilledDays(s[i], t.days)])
           IN  /\ billed \in Int
               /\ billed = Total([d \in 1 .. t.days |-> RateOf(t.bands, d)])
<1> DEFINE bands == t.bands
           s == ByStart(bands)
           days == t.days
           billed == Total([i \in DOMAIN s |-> s[i].rate * BilledDays(s[i], days)])
<1>1. AreBands(bands) /\ days \in Int
  BY DEF IsTariff, AreBands, Range
<1>2. PICK p : IsSorting(p, s, bands)
  BY <1>1, SortedBands
<1>3. AreBands(s)
  BY <1>1, SortedBands
<1>4. /\ days \in Nat /\ Contiguous(s) /\ \A i \in 1 .. Len(s) - 1 : s[i].end # NoValue
      /\ days > 0 => PricedBy(s, days) # {}
  BY <1>1 DEF DaysAccepted
<1> HIDE DEF bands, s, days
<1>5. \A i \in DOMAIN s : s[i].start > 0 /\ (s[i].end # NoValue => s[i].start <= s[i].end)
  <2>1. \A i \in DOMAIN s : s[i].start >= 1 /\ (s[i].end # NoValue => s[i].start <= s[i].end)
    BY <1>3, <1>4, BandsFollowOn
  <2>2. \A i \in DOMAIN s : s[i].start \in Int
    BY <1>3 DEF AreBands
  <2>3. QED  BY <2>1, <2>2
<1>6. \A d \in Int : \A i, j \in PricedBy(s, d) : i = j
  BY <1>3, <1>4, FollowOnPricesOnce
<1>7. \A d \in 1 .. days : PricedBy(s, d) # {}
  <2>1. \A d \in 2 .. days : PricedBy(s, d) # {} => PricedBy(s, d - 1) # {}
    <3>1. \A d \in 2 .. days : d \in Int /\ d >= 2
      OBVIOUS
    <3>2. \A d \in Int : d >= 2 /\ PricedBy(s, d) # {} => PricedBy(s, d - 1) # {}
      BY <1>3, <1>4, FollowOnPricesOnce
    <3>3. QED  BY <3>1, <3>2
  <2>2. QED  BY <1>4, <2>1, DaysPriced
<1>8. \A d \in 1 .. days : PricedBy(s, d) # {} /\ \A i, j \in PricedBy(s, d) : i = j
  <2>1. \A d \in 1 .. days : d \in Int
    OBVIOUS
  <2>2. QED  BY <1>6, <1>7, <2>1
<1>9. billed \in Int /\ billed = Total([d \in 1 .. days |-> RateOf(s, d)])
  BY <1>3, <1>4, <1>5, <1>8, DaysSum
<1>10. \A d \in 1 .. days : RateOf(s, d) = RateOf(bands, d)
  BY <1>2, <1>8, SortingPrices
<1>11. [d \in 1 .. days |-> RateOf(s, d)] = [d \in 1 .. days |-> RateOf(bands, d)]
  BY <1>10
<1> HIDE DEF billed
<1>12. billed \in Int /\ billed = Total([d \in 1 .. days |-> RateOf(bands, d)])
  BY <1>9, <1>11
<1>13. QED  BY <1>12 DEF billed, bands, s, days

(***************************************************************************)
(* Folds over lists                                                        *)
(***************************************************************************)

LEMMA Products ==
    ASSUME NEW values, IsList(values), \A i \in DOMAIN values : values[i] \in Int
    PROVE  FoldLeft(LAMBDA product, value : product * value, 1, values) \in Int
<1> DEFINE n == Len(values)
           step == [x \in Int \X (1 .. n) |-> x[1] * values[x[2]]]
           Solution(g) == g = [s \in SUBSET (1 .. n) |->
                                  IF s = {} THEN 1 ELSE g[s \ {Max(s)}] * values[Max(s)]]
           g == CHOOSE g : Solution(g)
<1>1. n \in Nat /\ DOMAIN values = 1 .. n
  BY DEF IsList
<1>2. FoldLeft(LAMBDA product, value : product * value, 1, values) = g[1 .. n]
  BY <1>1 DEF FoldLeft, MapThenFoldSet
<1>3. 1 \in Int /\ step \in [Int \X (1 .. n) -> Int]
  BY <1>1
<1>4. \E f : Solution(f)
  <2>1. PICK f : f \in [SUBSET (1 .. n) -> Int] /\ Folds(f, n, Int, 1, step)
    <3> HIDE DEF n, step
    <3>1. QED  BY <1>1, <1>3, FoldExists
  <2>2. \A s \in SUBSET (1 .. n) : s # {} => Max(s) \in 1 .. n /\ s \ {Max(s)} \in SUBSET (1 .. n)
    BY <1>1, MaxIsElement
  <2>3. \A s \in SUBSET (1 .. n) :
            f[s] = IF s = {} THEN 1 ELSE f[s \ {Max(s)}] * values[Max(s)]
    BY <2>1, <2>2 DEF Folds
  <2>4. QED  BY <2>1, <2>3
<1>5. Solution(g)
  BY <1>4
<1>6. Folds(g, n, Int, 1, step)
  <2>1. \A s \in (SUBSET (1 .. n)) \ {{}} : Max(s) \in 1 .. n
    BY <1>1, MaxIsElement
  <2>2. {} \in SUBSET (1 .. n)
    OBVIOUS
  <2> HIDE DEF g
  <2>3. QED  BY <1>5, <2>1, <2>2 DEF Folds
<1>7. Traces(g, n, Int, 1, step)
  <2> HIDE DEF n, g, step
  <2>1. QED  BY <1>1, <1>3, <1>6, FoldTrace
<1>8. QED
  <2>1. n \in 0 .. n
    BY <1>1
  <2>2. g[1 .. n] \in Int
    BY <1>7, <2>1 DEF Traces
  <2> HIDE DEF n, g
  <2>3. QED  BY <1>2, <2>2

(***************************************************************************)
(* Amounts                                                                 *)
(***************************************************************************)

LEMMA QuantityType ==
    ASSUME NEW version, IsProfile(version), NEW inputs \in Measurements, NEW measures \in Measurements
    PROVE  Quantity(version, inputs, measures) \in OptionalInt
<1> DEFINE values == [i \in DOMAIN version.factors |->
                        FactorValue(version.factors[i], inputs, measures)]
           product == FoldLeft(LAMBDA product, value : product * value, 1, values)
<1>1. \A i \in DOMAIN values : values[i] \in OptionalInt
  <2> SUFFICES ASSUME NEW i \in DOMAIN version.factors
               PROVE  FactorValue(version.factors[i], inputs, measures) \in OptionalInt
    OBVIOUS
  <2> DEFINE factor == version.factors[i]
             given == FactorGiven(factor, inputs, measures)
  <2>1. factor.key \in MeasureKeys /\ factor.default \in OptionalInt
    BY DEF IsProfile, Range
  <2>2. inputs[factor.key] \in OptionalInt /\ measures[factor.key] \in OptionalInt
    BY <2>1 DEF Measurements
  <2>3. given \in OptionalInt
    BY <2>1, <2>2 DEF FactorGiven, OrElse
  <2> HIDE DEF given
  <2>4. QED  BY <2>3 DEF FactorValue, OptionalInt, given, Dec
<1>2. IsList(values)
  <2>1. PICK n \in Nat : DOMAIN version.factors = 1 .. n
    BY DEF IsProfile, IsList
  <2>2. DOMAIN values = 1 .. n
    BY <2>1
  <2> HIDE DEF values
  <2>3. Len(values) = n
    BY <2>1, <2>2
  <2>4. QED  BY <2>1, <2>2, <2>3 DEF IsList
<1>3. CASE \E i \in DOMAIN values : values[i] = NoValue
  BY <1>3 DEF Quantity, OptionalInt
<1>4. CASE ~ \E i \in DOMAIN values : values[i] = NoValue
  <2>1. \A i \in DOMAIN values : values[i] \in Int
    BY <1>1, <1>4 DEF OptionalInt
  <2>2. product \in Int
    <3> HIDE DEF values
    <3>1. QED  BY <1>2, <2>1, Products
  <2>3. Quantity(version, inputs, measures) = product
    BY <1>4 DEF Quantity
  <2> HIDE DEF product
  <2>4. QED  BY <2>2, <2>3 DEF OptionalInt
<1>5. QED  BY <1>3, <1>4

LEMMA EvaluatedType ==
    ASSUME NEW version, IsProfile(version), NEW rate \in Int, NEW flat \in OptionalInt,
           NEW inputs \in Measurements, NEW measures \in Measurements
    PROVE  Evaluated(version, rate, flat, inputs, measures) \in OptionalInt
<1>1. version.bounds \in BoundsType /\ 1 \in Nat \ {0} /\ 100 \in Nat \ {0}
  BY DEF IsProfile
<1>2. CASE version.method = "FLAT_AMOUNT"
  <2>1. OrElse(flat, rate) \in Int
    BY DEF OrElse, OptionalInt
  <2>2. Bounded(OrElse(flat, rate), 1, version.bounds) \in Int
    BY <1>1, <2>1, BoundedType
  <2>3. QED  BY <1>2, <2>2 DEF Evaluated, OptionalInt
<1>3. CASE version.method = "PERCENT_OF_REFERENCE"
  <2> DEFINE reference == OrElse(inputs["reference"], measures["reference"])
  <2>1. reference \in OptionalInt
    BY OptionalTypes DEF Measurements, MeasureKeys
  <2> HIDE DEF reference
  <2>2. reference # NoValue => Bounded(reference * rate, 100, version.bounds) \in Int
    <3>1. reference # NoValue => reference * rate \in Int
      BY <2>1 DEF OptionalInt
    <3>2. QED  BY <1>1, <3>1, BoundedType
  <2>3. QED  BY <1>3, <2>2 DEF Evaluated, OptionalInt, reference
<1>4. CASE version.method # "FLAT_AMOUNT" /\ version.method # "PERCENT_OF_REFERENCE"
  <2> DEFINE quantity == Quantity(version, inputs, measures)
  <2>1. quantity \in OptionalInt
    BY QuantityType
  <2> HIDE DEF quantity
  <2>2. quantity # NoValue => Bounded(rate * quantity, 1, version.bounds) \in Int
    <3>1. quantity # NoValue => rate * quantity \in Int
      BY <2>1 DEF OptionalInt
    <3>2. QED  BY <1>1, <3>1, BoundedType
  <2>3. QED  BY <1>4, <2>2 DEF Evaluated, OptionalInt, quantity
<1>5. QED  BY <1>2, <1>3, <1>4

LEMMA AmountType ==
    ASSUME NEW entry, entry.rate \in Int, entry.bounds \in BoundsType,
           NEW inputs \in Measurements, NEW measures \in Measurements, NEW base \in OptionalInt
    PROVE  Amount(entry, inputs, measures, base) \in OptionalInt
<1>1. BasisQuantity(entry.basis, inputs, measures) \in Int
  <2>1. \A key \in MeasureKeys : measures[key] \in OptionalInt /\ inputs[key] \in OptionalInt
    BY DEF Measurements
  <2>2. {"chargeable", "container", "quantity", "days"} \subseteq MeasureKeys
    BY DEF MeasureKeys
  <2>3. /\ Dec(measures["chargeable"]) \in Int
        /\ Dec(Or(measures["container"], measures["quantity"])) \in Int
        /\ OrElse(measures["days"], measures["quantity"]) \in OptionalInt
    BY <2>1, <2>2, OptionalTypes DEF OptionalInt, OrElse
  <2>4. Dec(OrElse(inputs["days"], OrElse(measures["days"], measures["quantity"]))) \in Int
    BY <2>1, <2>2, <2>3, OptionalTypes
  <2>5. QED  BY <2>3, <2>4 DEF BasisQuantity
<1>2. AtLeast(BasisQuantity(entry.basis, inputs, measures), 1) \in Int
  BY <1>1 DEF AtLeast
<1>3. entry.rate * AtLeast(BasisQuantity(entry.basis, inputs, measures), 1) \in Int
  BY <1>2
<1>4. Bounded(entry.rate * AtLeast(BasisQuantity(entry.basis, inputs, measures), 1), 1, entry.bounds) \in Int
  BY <1>3, BoundedType
<1>5. base # NoValue => Bounded(base * entry.rate, 100, entry.bounds) \in Int
  <2>1. base # NoValue => base * entry.rate \in Int
    BY DEF OptionalInt
  <2>2. QED  BY <2>1, BoundedType
<1>6. QED  BY <1>4, <1>5 DEF Amount, OptionalInt

LEMMA SourceAmountType ==
    ASSUME NEW cat, NEW entry, IsEntry(cat, entry), NEW profile, OptionalProfile(profile),
           NEW quote, IsQuote(quote), NEW base \in OptionalInt
    PROVE  SourceAmount(profile, entry, quote, base) \in OptionalInt
<1>1. /\ entry.rate \in Int /\ entry.bounds \in BoundsType
      /\ quote.measures \in Measurements /\ quote.inputs \in Measurements
  BY DEF IsEntry, IsQuote
<1>2. Put(quote.inputs, "reference", base) \in Measurements
  BY <1>1 DEF Put, Measurements, MeasureKeys
<1>3. NoValue \in OptionalInt
  BY DEF OptionalInt
<1>4. Amount(entry, quote.inputs, quote.measures, base) \in OptionalInt
  BY <1>1, AmountType
<1>5. IsCalculatedBy(profile, entry) =>
          /\ Evaluated(profile, entry.rate, NoValue, quote.inputs, quote.measures) \in OptionalInt
          /\ Evaluated(profile, entry.rate, NoValue, Put(quote.inputs, "reference", base),
                       quote.measures) \in OptionalInt
  BY <1>1, <1>2, <1>3, EvaluatedType DEF IsCalculatedBy, OptionalProfile
<1>6. QED  BY <1>3, <1>4, <1>5 DEF SourceAmount

LEMMA ConvertedType ==
    ASSUME NEW cat, IsCatalogue(cat), NEW entry, IsEntry(cat, entry), NEW amount \in OptionalInt
    PROVE  Converted(cat, amount, entry) \in OptionalInt
<1> DEFINE rate == cat.fx[entry.currency]
<1>1. rate.num \in Int /\ rate.den \in Nat \ {0}
  BY DEF IsCatalogue, IsEntry, Range
<1> HIDE DEF rate
<1>2. amount # NoValue => Money(amount * rate.num, rate.den) \in Int
  <2>1. amount # NoValue => amount * rate.num \in Int
    BY <1>1 DEF OptionalInt
  <2>2. QED  BY <1>1, <2>1, MoneyType
<1>3. QED  BY <1>2 DEF Converted, OptionalInt, rate

(***************************************************************************)
(* The lines of a contract                                                 *)
(***************************************************************************)

\* The steps that are taken are steps of the template.
LEMMA StepsTakenType ==
    ASSUME NEW steps, IsList(steps), NEW role, NEW quote
    PROVE  StepsTaken(steps, role, quote) \in Seq(Range(steps))
<1> DEFINE n == Len(steps)
           T == Seq(Range(steps))
           Taken(s) == /\ role \in s.roles
                       /\ s.condition # NoValue => s.condition \in quote.conditions
           step == [x \in T \X (1 .. n) |->
                        IF Taken(steps[x[2]]) THEN Append(x[1], steps[x[2]]) ELSE x[1]]
           Solution(g) == g = [s \in SUBSET (1 .. n) |->
                                  IF s = {} THEN << >>
                                  ELSE IF Taken(steps[Max(s)])
                                       THEN Append(g[s \ {Max(s)}], steps[Max(s)])
                                       ELSE g[s \ {Max(s)}]]
           g == CHOOSE g : Solution(g)
<1>1. n \in Nat /\ DOMAIN steps = 1 .. n
  BY DEF IsList
<1>2. StepsTaken(steps, role, quote) = g[1 .. n]
  BY <1>1 DEF StepsTaken, FoldLeft, MapThenFoldSet
<1>3. << >> \in T /\ step \in [T \X (1 .. n) -> T]
  <2>1. \A i \in 1 .. n : steps[i] \in Range(steps)
    BY <1>1 DEF Range
  <2>2. QED  BY <2>1
<1>4. \E f : Solution(f)
  <2>1. PICK f : f \in [SUBSET (1 .. n) -> T] /\ Folds(f, n, T, << >>, step)
    <3> HIDE DEF n, T, step
    <3>1. QED  BY <1>1, <1>3, FoldExists
  <2>2. \A s \in SUBSET (1 .. n) : s # {} => Max(s) \in 1 .. n /\ s \ {Max(s)} \in SUBSET (1 .. n)
    BY <1>1, MaxIsElement
  <2>3. \A s \in SUBSET (1 .. n) :
            f[s] = IF s = {} THEN << >>
                   ELSE IF Taken(steps[Max(s)]) THEN Append(f[s \ {Max(s)}], steps[Max(s)])
                                               ELSE f[s \ {Max(s)}]
    <3> HIDE DEF n, T, Taken
    <3>1. QED  BY <2>1, <2>2 DEF Folds
  <2> HIDE DEF n, T, Taken
  <2>4. QED  BY <2>1, <2>3
<1>5. Solution(g)
  BY <1>4
<1>6. Folds(g, n, T, << >>, step)
  <2>1. \A s \in (SUBSET (1 .. n)) \ {{}} : Max(s) \in 1 .. n
    BY <1>1, MaxIsElement
  <2>2. {} \in SUBSET (1 .. n)
    OBVIOUS
  <2> HIDE DEF n, T, Taken, g
  <2>3. QED  BY <1>5, <2>1, <2>2 DEF Folds
<1>7. Traces(g, n, T, << >>, step)
  <2> HIDE DEF n, T, g, step
  <2>1. QED  BY <1>1, <1>3, <1>6, FoldTrace
<1>8. QED
  <2>1. n \in 0 .. n
    BY <1>1
  <2>2. g[1 .. n] \in T
    BY <1>7, <2>1 DEF Traces
  <2> HIDE DEF n, g
  <2>3. QED  BY <1>2, <2>2

\* What the expansion of a contract is made of.
Anchors(contract) ==
    Range(contract.lines) \cup {Anchor(contract, << >>, NoWindow)}
    \cup {Anchor(contract, route.scope, route.window) : route \in Range(contract.routes)}

AllSteps(cat) == UNION {Range(template.steps) : template \in Range(cat.templates)}

Items(cat, contract) ==
    {StepLine(contract, anchor, step) : anchor \in Anchors(contract), step \in AllSteps(cat)}
    \cup {[line |-> line, step |-> NoValue] : line \in Range(contract.lines)}

LEMMA ItemsAreLines ==
    ASSUME NEW cat, IsCatalogue(cat), NEW contract, IsContract(cat, contract),
           NEW item \in Items(cat, contract)
    PROVE  item.line.book \in Ref(cat.books) /\ OptionalProfile(item.line.profile)
<1>1. \A anchor \in Anchors(contract) :
          /\ {"component", "book", "profile"} \subseteq DOMAIN anchor
          /\ anchor.book \in Ref(cat.books) /\ OptionalProfile(anchor.profile)
  <2>1. \A line \in Range(contract.lines) : IsContractLine(cat, line)
    BY DEF IsContract
  <2>2. \A scope, window :
            LET anchor == Anchor(contract, scope, window)
            IN  /\ {"component", "book", "profile"} \subseteq DOMAIN anchor
                /\ anchor.book \in Ref(cat.books) /\ OptionalProfile(anchor.profile)
    BY DEF Anchor, IsContract, OptionalProfile
  <2>3. QED  BY <2>1, <2>2 DEF Anchors, IsContractLine
<1>2. \A step \in AllSteps(cat) : step.book \in Ref(cat.books)
  BY DEF AllSteps, IsCatalogue
<1>3. ASSUME NEW anchor \in Anchors(contract), NEW step \in AllSteps(cat),
             item = StepLine(contract, anchor, step)
      PROVE  item.line.book \in Ref(cat.books) /\ OptionalProfile(item.line.profile)
  <2>1. item.line.profile = anchor.profile
    BY <1>1, <1>3 DEF StepLine
  <2>2. item.line.book = OrElse(step.book, OrElse(anchor.book, contract.book))
    BY <1>1, <1>3 DEF StepLine
  <2>3. QED  BY <1>1, <1>2, <2>1, <2>2 DEF OrElse, IsContract
<1>4. CASE \E line \in Range(contract.lines) : item = [line |-> line, step |-> NoValue]
  BY <1>1, <1>4 DEF Anchors
<1>5. QED  BY <1>3, <1>4 DEF Items

LEMMA ExpandedType ==
    ASSUME NEW cat, IsCatalogue(cat), NEW contract, NEW anchor \in Anchors(contract),
           NEW template \in DOMAIN cat.templates, NEW role, NEW quote
    PROVE  Expanded(cat, contract, anchor, template, role, quote) \in Seq(Items(cat, contract))
<1> DEFINE all == cat.templates[template].steps
           steps == StepsTaken(all, role, quote)
<1>1. all \in {t.steps : t \in Range(cat.templates)} /\ IsList(all)
  BY DEF IsCatalogue, Range
<1>2. Range(all) \subseteq AllSteps(cat)
  BY <1>1 DEF AllSteps
<1>3. steps \in Seq(Range(all))
  BY <1>1, StepsTakenType
<1> HIDE DEF steps
<1>4. Len(steps) \in Nat /\ DOMAIN steps = 1 .. Len(steps)
      /\ \A i \in DOMAIN steps : steps[i] \in AllSteps(cat)
  BY <1>2, <1>3
<1>5. [i \in DOMAIN steps |-> StepLine(contract, anchor, steps[i])] \in Seq(Items(cat, contract))
  <2>1. \A i \in DOMAIN steps : StepLine(contract, anchor, steps[i]) \in Items(cat, contract)
    BY <1>4 DEF Items
  <2>2. QED  BY <1>4, <2>1
<1>6. << >> \in Seq(Items(cat, contract))
  OBVIOUS
<1>7. QED  BY <1>5, <1>6 DEF Expanded, steps

LEMMA LinesAreItems ==
    ASSUME NEW cat, NEW contract, NEW own \in Range(contract.lines)
    PROVE  [line |-> own, step |-> NoValue] \in Items(cat, contract)
<1> DEFINE Own == {[line |-> line, step |-> NoValue] : line \in Range(contract.lines)}
<1>1. [line |-> own, step |-> NoValue] \in Own
  OBVIOUS
<1>2. Own \subseteq Items(cat, contract)
  BY DEF Items
<1>3. QED  BY <1>1, <1>2

\* The lines a contract consists of for a quote.
LEMMA ContractLinesType ==
    ASSUME NEW cat, IsCatalogue(cat), NEW contract, IsContract(cat, contract),
           NEW role, NEW quote, NEW date
    PROVE  ContractLines(cat, contract, role, quote, date) \in Seq(Items(cat, contract))
<1> DEFINE T == Seq(Items(cat, contract))
           lines == contract.lines
           n == Len(lines)
           TemplateOf(line) == OrElse(line.template, contract.template)
           OfLine(line) == IF TemplateOf(line) = NoValue THEN <<[line |-> line, step |-> NoValue]>>
                           ELSE Expanded(cat, contract, line, TemplateOf(line), role, quote)
           step == [x \in T \X (1 .. n) |-> x[1] \o OfLine(lines[x[2]])]
           Solution(g) == g = [s \in SUBSET (1 .. n) |->
                                  IF s = {} THEN << >> ELSE g[s \ {Max(s)}] \o OfLine(lines[Max(s)])]
           g == CHOOSE g : Solution(g)
           route == Routes(contract, quote, date)
           chosen == contract.routes[CHOOSE i \in route : TRUE]
<1>1. n \in Nat /\ DOMAIN lines = 1 .. n
  BY DEF IsList, IsContract
<1>2. \A line \in Range(lines) : OfLine(line) \in T
  <2> SUFFICES ASSUME NEW line \in Range(lines) PROVE OfLine(line) \in T
    OBVIOUS
  <2>1. TemplateOf(line) \in Ref(cat.templates)
    BY DEF IsContract, IsContractLine, OrElse
  <2>2. CASE TemplateOf(line) = NoValue
    <3>1. [line |-> line, step |-> NoValue] \in Items(cat, contract)
      BY LinesAreItems
    <3>2. QED  BY <2>2, <3>1
  <2>3. CASE TemplateOf(line) # NoValue
    <3>1. TemplateOf(line) \in DOMAIN cat.templates /\ line \in Anchors(contract)
      BY <2>1, <2>3 DEF Ref, Anchors
    <3>2. QED  BY <2>3, <3>1, ExpandedType
  <2>4. QED  BY <2>2, <2>3
<1>3. << >> \in T /\ step \in [T \X (1 .. n) -> T]
  <2>1. \A i \in 1 .. n : OfLine(lines[i]) \in T
    BY <1>1, <1>2 DEF Range
  <2>2. \A s, t \in T : s \o t \in T
    OBVIOUS
  <2>3. << >> \in T
    OBVIOUS
  <2> HIDE DEF n, T, OfLine
  <2>4. QED  BY <2>1, <2>2, <2>3
<1>4. \E f : Solution(f)
  <2>1. PICK f : f \in [SUBSET (1 .. n) -> T] /\ Folds(f, n, T, << >>, step)
    <3> HIDE DEF n, T, step
    <3>1. QED  BY <1>1, <1>3, FoldExists
  <2>2. \A s \in SUBSET (1 .. n) : s # {} => Max(s) \in 1 .. n /\ s \ {Max(s)} \in SUBSET (1 .. n)
    BY <1>1, MaxIsElement
  <2> HIDE DEF n, T, OfLine
  <2>3. \A s \in SUBSET (1 .. n) :
            f[s] = IF s = {} THEN << >> ELSE f[s \ {Max(s)}] \o OfLine(lines[Max(s)])
    BY <2>1, <2>2 DEF Folds
  <2>4. QED  BY <2>1, <2>3
<1>5. Solution(g)
  BY <1>4
<1>6. Folds(g, n, T, << >>, step)
  <2>1. \A s \in (SUBSET (1 .. n)) \ {{}} : Max(s) \in 1 .. n
    BY <1>1, MaxIsElement
  <2>2. {} \in SUBSET (1 .. n)
    OBVIOUS
  <2> HIDE DEF n, T, OfLine, g
  <2>3. QED  BY <1>5, <2>1, <2>2 DEF Folds
<1>7. Traces(g, n, T, << >>, step)
  <2> HIDE DEF n, T, g, step
  <2>1. QED  BY <1>1, <1>3, <1>6, FoldTrace
<1>8. g[1 .. n] \in T
  <2>1. n \in 0 .. n
    BY <1>1
  <2> HIDE DEF n, T, g, step
  <2>2. QED  BY <1>7, <2>1 DEF Traces
<1>9. CASE contract.routes # << >> /\ route # {}
  <2>1. chosen \in Range(contract.routes)
    BY <1>9 DEF Routes, Foremost, Range
  <2>2. chosen.template \in DOMAIN cat.templates
        /\ Anchor(contract, chosen.scope, chosen.window) \in Anchors(contract)
    BY <2>1 DEF IsContract, Anchors
  <2>3. Expanded(cat, contract, Anchor(contract, chosen.scope, chosen.window), chosen.template,
                 role, quote) \in T
    BY <2>2, ExpandedType
  <2> HIDE DEF T, route
  <2>4. QED  BY <1>9, <2>3 DEF ContractLines, T, route
<1>10. CASE ~(contract.routes # << >> /\ route # {})
  <2>1. contract.template # NoValue =>
            Expanded(cat, contract, Anchor(contract, << >>, NoWindow), contract.template, role, quote)
                \in T
    BY ExpandedType DEF IsContract, Ref, Anchors
  <2>2. << >> \in T
    OBVIOUS
  <2>3. CASE contract.routes # << >> \/ (contract.lines = << >> /\ contract.template # NoValue)
    BY <1>10, <2>1, <2>2, <2>3 DEF ContractLines
  <2>4. CASE ~(contract.routes # << >> \/ (contract.lines = << >> /\ contract.template # NoValue))
    <3>1. ContractLines(cat, contract, role, quote, date)
              = FoldLeft(LAMBDA soFar, line : soFar \o OfLine(line), << >>, lines)
      BY <1>10, <2>4 DEF ContractLines
    <3>2. FoldLeft(LAMBDA soFar, line : soFar \o OfLine(line), << >>, lines) = g[1 .. n]
      BY <1>1 DEF FoldLeft, MapThenFoldSet
    <3>3. QED  BY <3>1, <3>2, <1>8
  <2>5. QED  BY <2>3, <2>4
<1>11. QED  BY <1>9, <1>10

(***************************************************************************)
(* The winners                                                             *)
(***************************************************************************)

LEMMA EntryKeys ==
    ASSUME NEW cat, NEW book, IsList(book.entries),
           \A entry \in Range(book.entries) : IsEntry(cat, entry), NEW e \in DOMAIN book.entries
    PROVE  /\ e \in Int /\ book.entries[e].priority \in Int
           /\ EntrySpecificity(book.entries[e]) \in Int
           /\ Dec(book.entries[e].low) \in Int
<1> DEFINE entry == book.entries[e]
<1>1. e \in Int /\ IsEntry(cat, entry)
  BY DEF IsList, Range
<1>2. IsFiniteSet(DOMAIN entry.scope \ {"charge_context"})
  BY <1>1, FS_Subset DEF IsEntry
<1>3. IsFiniteSet({bound \in {"low", "high"} : entry[bound] # NoValue})
  <2>1. {"low", "high"} = {"low"} \cup {"high"}
    OBVIOUS
  <2>2. IsFiniteSet({"low"}) /\ IsFiniteSet({"high"})
    BY FS_Singleton
  <2>3. IsFiniteSet({"low", "high"})
    BY <2>1, <2>2, FS_Union
  <2>4. QED  BY <2>3, FS_Subset
<1>4. EntrySpecificity(entry) \in Int
  <2>1. /\ Cardinality(DOMAIN entry.scope \ {"charge_context"}) \in Nat
        /\ Cardinality({bound \in {"low", "high"} : entry[bound] # NoValue}) \in Nat
    BY <1>2, <1>3, FS_CardinalityType
  <2>2. QED  BY <2>1 DEF EntrySpecificity
<1>5. QED  BY <1>1, <1>4, OptionalTypes DEF IsEntry, OptionalInt, Dec

\* The entry that prices a line comes before all others that apply.
LEMMA BestEntryIsFirst ==
    ASSUME NEW cat, NEW book, IsList(book.entries),
           \A entry \in Range(book.entries) : IsEntry(cat, entry),
           NEW component, NEW quote, NEW date, NEW best,
           best = BestEntry(book, component, quote, date), best # NoValue
    PROVE  /\ best \in DOMAIN book.entries
           /\ EntryApplies(book.entries[best], component, quote, date)
           /\ \A e \in DOMAIN book.entries \ {best} :
                  EntryApplies(book.entries[e], component, quote, date) => EntryBefore(book, best, e)
<1> DEFINE S == {e \in DOMAIN book.entries : EntryApplies(book.entries[e], component, quote, date)}
           Before == {p \in S \X S : EntryBefore(book, p[1], p[2])}
           Least(e) == \A f \in S \ {e} : EntryBefore(book, e, f)
<1>1. S # {} /\ best = CHOOSE e \in S : Least(e)
  BY DEF BestEntry
<1>2. \A e \in S : /\ e \in Int /\ book.entries[e].priority \in Int
                    /\ EntrySpecificity(book.entries[e]) \in Int
                    /\ Dec(book.entries[e].low) \in Int
  BY EntryKeys
<1>3. IsFiniteSet(S)
  <2>1. IsFiniteSet(DOMAIN book.entries)
    BY FS_Interval DEF IsList
  <2>2. QED  BY <2>1, FS_Subset
<1>4. \A x, y \in S : x # y => <<x, y>> \in Before \/ <<y, x>> \in Before
  <2> HIDE DEF S
  <2>1. QED  BY <1>2 DEF EntryBefore
<1>5. \A x, y, z \in S : <<x, y>> \in Before /\ <<y, z>> \in Before => <<x, z>> \in Before
  <2> HIDE DEF S
  <2>1. QED  BY <1>2 DEF EntryBefore
<1>6. \E e \in S : Least(e)
  <2>1. \E e \in S : \A f \in S \ {e} : <<e, f>> \in Before
    <3> HIDE DEF S, Before
    <3>1. QED  BY <1>1, <1>3, <1>4, <1>5, FirstExists
  <2>2. QED  BY <2>1
<1>7. best \in S /\ Least(best)
  <2> HIDE DEF S, Least
  <2>1. QED  BY <1>1, <1>6
<1>8. QED  BY <1>7

\* Of the rules that match, the one that is taken comes before all others.
LEMMA FreeTimeRuleIsFirst ==
    ASSUME NEW rules, AreFreeTimeRules(rules), NEW asked, NEW first,
           first = FreeTimeRule(rules, asked), first # NoValue
    PROVE  /\ first \in rules
           /\ \A rule \in rules :
                  /\ RuleSpecificity(rule) \in Int /\ rule.priority \in Int /\ rule.sequence \in Int
                  /\ RuleMatches(rule, asked) /\ rule # first => RuleBefore(first, rule)
<1> DEFINE S == {rule \in rules : RuleMatches(rule, asked)}
           Before == {p \in S \X S : RuleBefore(p[1], p[2])}
           Least(rule) == \A other \in S \ {rule} : RuleBefore(rule, other)
<1>1. S # {} /\ first = CHOOSE rule \in S : Least(rule)
  BY DEF FreeTimeRule
<1>2. \A rule \in rules :
          RuleSpecificity(rule) \in Int /\ rule.priority \in Int /\ rule.sequence \in Int
  <2>1. \A rule \in rules : Cardinality(rule.facts) \in Nat
    BY FS_CardinalityType DEF AreFreeTimeRules
  <2>2. QED  BY <2>1 DEF AreFreeTimeRules, RuleSpecificity
<1>3. IsFiniteSet(S)
  BY FS_Subset DEF AreFreeTimeRules
<1>4. \A x, y \in S : x # y => x.sequence # y.sequence
  BY DEF AreFreeTimeRules
<1>5. \A x, y \in S : x # y => <<x, y>> \in Before \/ <<y, x>> \in Before
  <2>1. S \subseteq rules
    OBVIOUS
  <2> HIDE DEF S
  <2>2. QED  BY <1>2, <1>4, <2>1 DEF RuleBefore
<1>6. \A x, y, z \in S : <<x, y>> \in Before /\ <<y, z>> \in Before => <<x, z>> \in Before
  <2>1. S \subseteq rules
    OBVIOUS
  <2> HIDE DEF S
  <2>2. QED  BY <1>2, <2>1 DEF RuleBefore
<1>7. \E rule \in S : Least(rule)
  <2>1. \E rule \in S : \A other \in S \ {rule} : <<rule, other>> \in Before
    <3> HIDE DEF S, Before
    <3>1. QED  BY <1>1, <1>3, <1>5, <1>6, FirstExists
  <2>2. QED  BY <2>1
<1>8. first \in S /\ Least(first)
  <2> HIDE DEF S, Least
  <2>1. QED  BY <1>1, <1>7
<1>9. QED  BY <1>2, <1>8

(***************************************************************************)
(* Subtotals                                                               *)
(***************************************************************************)

\* The lines that were added to the subtotal of a key, and all subtotals.
AddedTo(lines, key) ==
    {j \in DOMAIN lines : Accumulates(lines[j].step) /\ lines[j].step.key = key}

KeysOf(lines) == {lines[j].step.key : j \in {j \in DOMAIN lines : Accumulates(lines[j].step)}}

SubtotalsOf(lines) ==
    [key \in KeysOf(lines) |-> SumFunctionOnSet(AmountsOf(lines), AddedTo(lines, key))]

LEMMA AppendedLine ==
    ASSUME NEW L, NEW lines \in Seq(L), NEW line
    PROVE  /\ Len(lines) \in Nat /\ DOMAIN lines = 1 .. Len(lines)
           /\ DOMAIN Append(lines, line) = 1 .. (Len(lines) + 1)
           /\ \A i \in DOMAIN lines : Append(lines, line)[i] = lines[i]
           /\ Append(lines, line)[Len(lines) + 1] = line
<1> DEFINE M == L \cup {line}
<1>1. lines \in Seq(M) /\ line \in M
  OBVIOUS
<1> HIDE DEF M
<1>2. QED  BY <1>1

\* A line is added to the subtotal of its step.
LEMMA SubtotalsAppended ==
    ASSUME NEW L, \A x \in L : x.amount \in Int, NEW lines \in Seq(L), NEW line \in L
    PROVE  LET key == line.step.key
               old == SubtotalsOf(lines)
           IN  SubtotalsOf(Append(lines, line)) =
                   IF ~Accumulates(line.step) THEN old
                   ELSE Put(old, key, (IF key \in DOMAIN old THEN old[key] ELSE 0) + line.amount)
<1> DEFINE more == Append(lines, line)
           n == Len(lines) + 1
           key == line.step.key
           old == SubtotalsOf(lines)
           A == AmountsOf(lines)
           B == AmountsOf(more)
           Sum(f, S) == SumFunctionOnSet(f, S)
<1>1. /\ Len(lines) \in Nat /\ DOMAIN lines = 1 .. Len(lines) /\ DOMAIN more = 1 .. n
      /\ n \in DOMAIN more /\ n \notin DOMAIN lines /\ DOMAIN more = DOMAIN lines \cup {n}
      /\ (\A i \in DOMAIN lines : more[i] = lines[i]) /\ more[n] = line
  BY AppendedLine
<1> HIDE DEF more, n
<1>2. /\ \A i \in DOMAIN lines : A[i] = lines[i].amount /\ B[i] = A[i] /\ A[i] \in Int
      /\ B[n] = line.amount /\ B[n] \in Int
  BY <1>1 DEF AmountsOf
<1>3. \A k : /\ IsFiniteSet(AddedTo(lines, k)) /\ AddedTo(lines, k) \subseteq DOMAIN lines
             /\ n \notin AddedTo(lines, k)
  <2>1. IsFiniteSet(DOMAIN lines)
    BY <1>1, FS_Interval
  <2>2. QED  BY <1>1, <2>1, FS_Subset DEF AddedTo
<1>4. \A k : AddedTo(more, k) = IF Accumulates(line.step) /\ key = k THEN AddedTo(lines, k) \cup {n}
                                                                   ELSE AddedTo(lines, k)
  BY <1>1 DEF AddedTo
<1>5. \A k : Sum(B, AddedTo(lines, k)) = Sum(A, AddedTo(lines, k))
  BY <1>2, <1>3, SumCongruence
<1>6. \A k : Sum(B, AddedTo(lines, k) \cup {n}) = Sum(A, AddedTo(lines, k)) + line.amount
  BY <1>2, <1>3, SumWith
<1>7. \A k : k \in KeysOf(lines) <=> AddedTo(lines, k) # {}
  BY DEF KeysOf, AddedTo
<1>8. \A k : k \in KeysOf(more) <=> AddedTo(more, k) # {}
  BY DEF KeysOf, AddedTo
<1>9. CASE ~Accumulates(line.step)
  <2>1. KeysOf(more) = KeysOf(lines)
    BY <1>4, <1>7, <1>8, <1>9
  <2>2. \A k \in KeysOf(lines) : Sum(B, AddedTo(more, k)) = Sum(A, AddedTo(lines, k))
    BY <1>4, <1>5, <1>9
  <2>3. SubtotalsOf(more) = SubtotalsOf(lines)
    BY <2>1, <2>2 DEF SubtotalsOf
  <2>4. QED  BY <1>9, <2>3 DEF more
<1>10. CASE Accumulates(line.step)
  <2> DEFINE new == Put(old, key, (IF key \in DOMAIN old THEN old[key] ELSE 0) + line.amount)
  <2>1. KeysOf(more) = KeysOf(lines) \cup {key}
    BY <1>4, <1>7, <1>8, <1>10
  <2>2. DOMAIN old = KeysOf(lines) /\ \A k \in KeysOf(lines) : old[k] = Sum(A, AddedTo(lines, k))
    BY DEF SubtotalsOf
  <2>3. \A k \in KeysOf(more) \ {key} : Sum(B, AddedTo(more, k)) = old[k]
    BY <1>4, <1>5, <2>1, <2>2
  <2>4. Sum(B, AddedTo(more, key)) = (IF key \in DOMAIN old THEN old[key] ELSE 0) + line.amount
    <3>1. Sum(B, AddedTo(more, key)) = Sum(A, AddedTo(lines, key)) + line.amount
      BY <1>4, <1>6, <1>10
    <3>2. key \notin DOMAIN old => Sum(A, AddedTo(lines, key)) = 0
      BY <1>7, <2>2, SumEmpty
    <3>3. QED  BY <2>2, <3>1, <3>2
  <2> HIDE DEF old, Sum, A, B, key
  <2>5. SubtotalsOf(more) = [k \in KeysOf(more) |-> Sum(B, AddedTo(more, k))]
    BY DEF SubtotalsOf, Sum, B
  <2>6. SubtotalsOf(more) = new
    BY <2>1, <2>2, <2>3, <2>4, <2>5 DEF Put
  <2>7. QED  BY <1>10, <2>6 DEF more, old, key
<1>11. QED  BY <1>9, <1>10

(***************************************************************************)
(* Percentages                                                             *)
(***************************************************************************)

\* A percentage is one of its base, in the bounds that are in effect.
LEMMA PercentageAmount ==
    ASSUME NEW cat, NEW entry, IsEntry(cat, entry), entry.basis = "PERCENT",
           NEW profile, OptionalProfile(profile), NEW quote, IsQuote(quote),
           NEW base \in Int, base # NoValue, SourceAmount(profile, entry, quote, base) # NoValue
    PROVE  SourceAmount(profile, entry, quote, base)
               = Bounded(entry.rate * base, 100, BoundsInEffect(profile, entry))
<1> DEFINE inputs == Put(quote.inputs, "reference", base)
<1>1. entry.rate \in Int /\ entry.rate * base = base * entry.rate
  BY DEF IsEntry
<1>2. CASE ~IsCalculatedBy(profile, entry)
  <2>1. SourceAmount(profile, entry, quote, base) = Bounded(base * entry.rate, 100, entry.bounds)
    BY <1>2 DEF SourceAmount, Amount
  <2>2. BoundsInEffect(profile, entry) = entry.bounds
    BY <1>2 DEF IsCalculatedBy, BoundsInEffect
  <2>3. QED  BY <1>1, <2>1, <2>2
<1>3. CASE IsCalculatedBy(profile, entry)
  <2>1. profile # NoValue /\ profile.method = "PERCENT_OF_REFERENCE"
    BY <1>3 DEF IsCalculatedBy
  <2>2. SourceAmount(profile, entry, quote, base)
            = Evaluated(profile, entry.rate, NoValue, inputs, quote.measures)
    BY <1>3 DEF SourceAmount
  <2>3. inputs["reference"] = base
    BY DEF Put
  <2>4. OrElse(inputs["reference"], quote.measures["reference"]) = base
    BY <2>3 DEF OrElse
  <2> HIDE DEF inputs
  <2>5. SourceAmount(profile, entry, quote, base) = Bounded(base * entry.rate, 100, profile.bounds)
    BY <2>1, <2>2, <2>4 DEF Evaluated
  <2>6. BoundsInEffect(profile, entry) = profile.bounds
    BY <2>1 DEF BoundsInEffect
  <2>7. QED  BY <1>1, <2>5, <2>6
<1>4. QED  BY <1>2, <1>3

\* A percentage that was charged stays one of the steps before it.
LEMMA PercentagesStay ==
    ASSUME NEW cat, NEW L, NEW lines \in Seq(L), NEW line, NEW i \in DOMAIN lines,
           IsPercentageOfSteps(cat, lines, i)
    PROVE  IsPercentageOfSteps(cat, Append(lines, line), i)
<1> DEFINE more == Append(lines, line)
<1>1. /\ Len(lines) \in Nat /\ DOMAIN lines = 1 .. Len(lines)
      /\ DOMAIN more = 1 .. (Len(lines) + 1) /\ \A j \in DOMAIN lines : more[j] = lines[j]
  BY AppendedLine
<1> HIDE DEF more
<1>2. AddedBefore(more, i) = AddedBefore(lines, i)
  BY <1>1 DEF AddedBefore, Keyed
<1>3. AddedBefore(lines, i) \subseteq DOMAIN lines
  BY DEF AddedBefore, Keyed
<1>4. SumFunctionOnSet(AmountsOf(more), AddedBefore(lines, i))
          = SumFunctionOnSet(AmountsOf(lines), AddedBefore(lines, i))
  <2>1. IsFiniteSet(DOMAIN lines)
    BY <1>1, FS_Interval
  <2>2. IsFiniteSet(AddedBefore(lines, i))
    BY <1>3, <2>1, FS_Subset
  <2>3. \A j \in AddedBefore(lines, i) : AmountsOf(more)[j] = AmountsOf(lines)[j]
    BY <1>1, <1>3 DEF AmountsOf
  <2>4. QED  BY <2>2, <2>3, SumCongruence
<1>5. more[i] = lines[i]
  BY <1>1
<1>6. QED  BY <1>2, <1>4, <1>5 DEF IsPercentageOfSteps, more

(***************************************************************************)
(* What a contract charges                                                 *)
(***************************************************************************)

\* What may price the lines of a contract, and the lines it may charge.
PricedLines(cat, contract, quote) ==
    {Priced(cat, contract, quote, item) : item \in Items(cat, contract)} \ {NoValue}

ChargedLines(cat, contract, quote) ==
    {[line EXCEPT !.amount = amount] : line \in PricedLines(cat, contract, quote), amount \in Int}

\* What has been charged is the lines, and the subtotals they amount to.
ChargedSoFar(cat, contract, quote) ==
    {NoValue} \cup
    {[lines |-> lines, subtotals |-> SubtotalsOf(lines)] :
        lines \in {lines \in Seq(ChargedLines(cat, contract, quote)) :
                    \A i \in Keyed(lines) : IsPercentageOfSteps(cat, lines, i)}}

\* What prices a line: the best entry of a rate book that is there.
LEMMA PricedLine ==
    ASSUME NEW cat, IsCatalogue(cat), NEW contract, IsContract(cat, contract), NEW quote,
           NEW line \in PricedLines(cat, contract, quote)
    PROVE  /\ line.book \in DOMAIN cat.books
           /\ line.entry = BestEntry(cat.books[line.book], line.component, quote, line.date)
           /\ line.entry # NoValue
           /\ line.entry \in DOMAIN cat.books[line.book].entries
           /\ IsEntry(cat, cat.books[line.book].entries[line.entry])
           /\ OptionalProfile(line.profile)
           /\ DOMAIN line = {"component", "book", "entry", "date", "step", "amount", "profile"}
<1>1. PICK item \in Items(cat, contract) : line = Priced(cat, contract, quote, item) /\ line # NoValue
  BY DEF PricedLines
<1> DEFINE own == item.line
           b == OrElse(own.book, contract.book)
           date == PricingDate(cat, quote, own.component)
           e == BestEntry(cat.books[b], own.component, quote, date)
           profile == EffectiveProfile(cat, own, cat.books[b].entries[e])
<1>2. /\ b # NoValue /\ e # NoValue
      /\ line = [component |-> own.component, book |-> b, entry |-> e, date |-> date,
                 step |-> item.step, amount |-> NoValue, profile |-> profile]
  BY <1>1 DEF Priced
<1>3. b \in DOMAIN cat.books
  BY <1>2, ItemsAreLines DEF OrElse, IsContract, Ref
<1>4. IsList(cat.books[b].entries) /\ \A entry \in Range(cat.books[b].entries) : IsEntry(cat, entry)
  BY <1>3 DEF IsCatalogue, Range
<1>5. e \in DOMAIN cat.books[b].entries
  <2> HIDE DEF b, date
  <2>1. QED  BY <1>2, <1>4, BestEntryIsFirst
<1>6. IsEntry(cat, cat.books[b].entries[e])
  BY <1>4, <1>5 DEF Range
<1>7. OptionalProfile(profile)
  <2>1. OptionalProfile(own.profile) /\ OptionalProfile(cat.books[b].entries[e].profile)
    BY <1>6, ItemsAreLines DEF IsEntry
  <2>2. OptionalProfile(cat.components[cat.books[b].entries[e].component].profile)
    BY <1>6 DEF IsEntry, IsCatalogue, Range
  <2> HIDE DEF e, b
  <2>3. QED  BY <2>1, <2>2 DEF EffectiveProfile, OrElse
<1> HIDE DEF own, b, date, e, profile
<1>8. QED  BY <1>2, <1>3, <1>5, <1>6, <1>7 DEF e

LEMMA ChargedLine ==
    ASSUME NEW cat, IsCatalogue(cat), NEW contract, IsContract(cat, contract), NEW quote,
           NEW line \in PricedLines(cat, contract, quote), NEW amount \in Int
    PROVE  LET charged == [line EXCEPT !.amount = amount]
           IN  /\ charged \in ChargedLines(cat, contract, quote) /\ charged.amount = amount
               /\ charged.component = line.component /\ charged.book = line.book
               /\ charged.entry = line.entry /\ charged.date = line.date
               /\ charged.step = line.step /\ charged.profile = line.profile
<1>1. DOMAIN line = {"component", "book", "entry", "date", "step", "amount", "profile"}
  BY PricedLine
<1>2. [line EXCEPT !.amount = amount] \in ChargedLines(cat, contract, quote)
  BY DEF ChargedLines
<1>3. QED  BY <1>1, <1>2

LEMMA ChargedLineAmounts ==
    ASSUME NEW cat, IsCatalogue(cat), NEW contract, IsContract(cat, contract), NEW quote,
           NEW charged \in ChargedLines(cat, contract, quote)
    PROVE  charged.amount \in Int /\ charged.entry # NoValue
<1>1. PICK line \in PricedLines(cat, contract, quote), amount \in Int :
           charged = [line EXCEPT !.amount = amount]
  BY DEF ChargedLines
<1>2. QED  BY <1>1, ChargedLine, PricedLine

LEMMA SubtotalsType ==
    ASSUME NEW L, \A x \in L : x.amount \in Int, NEW lines \in Seq(L), NEW key \in KeysOf(lines)
    PROVE  /\ SubtotalsOf(lines)[key] = SumFunctionOnSet(AmountsOf(lines), AddedTo(lines, key))
           /\ SubtotalsOf(lines)[key] \in Int
           /\ AddedTo(lines, key) # {}
<1>1. SubtotalsOf(lines)[key] = SumFunctionOnSet(AmountsOf(lines), AddedTo(lines, key))
  BY DEF SubtotalsOf
<1>2. IsFiniteSet(AddedTo(lines, key))
  <2>1. IsFiniteSet(DOMAIN lines)
    BY FS_Interval
  <2>2. QED  BY <2>1, FS_Subset DEF AddedTo
<1>3. \A j \in AddedTo(lines, key) : AmountsOf(lines)[j] \in Int
  <2>1. \A j \in DOMAIN lines : lines[j] \in L
    OBVIOUS
  <2>2. QED  BY <2>1 DEF AddedTo, AmountsOf
<1>4. SumFunctionOnSet(AmountsOf(lines), AddedTo(lines, key)) \in Int
  BY <1>2, <1>3, SumTakeOut
<1>5. AddedTo(lines, key) # {}
  BY DEF KeysOf, AddedTo
<1>6. QED  BY <1>1, <1>4, <1>5

\* An amount is refused or a whole number; that of a percentage step is its
\* percentage of the subtotal it names.
LEMMA ChargedAmountType ==
    ASSUME NEW cat, IsCatalogue(cat), NEW contract, IsContract(cat, contract),
           NEW quote, IsQuote(quote), NEW lines \in Seq(ChargedLines(cat, contract, quote)),
           NEW line \in PricedLines(cat, contract, quote)
    PROVE  LET entry == cat.books[line.book].entries[line.entry]
               subtotals == SubtotalsOf(lines)
               amount == ChargedAmount(cat, quote, subtotals, line)
           IN  /\ amount \in OptionalInt
               /\ /\ amount # NoValue /\ entry.basis = "PERCENT"
                  /\ line.step # NoValue /\ line.step.key # NoValue
                  => /\ line.step.key \in KeysOf(lines)
                     /\ amount = Bounded(entry.rate * subtotals[line.step.key], 100,
                                         BoundsInEffect(line.profile, entry))
<1> DEFINE entry == cat.books[line.book].entries[line.entry]
           subtotals == SubtotalsOf(lines)
           key == line.step.key
           base == IF entry.basis = "PERCENT" THEN PercentageBase(line.step, quote, subtotals)
                                             ELSE NoValue
           source == SourceAmount(line.profile, entry, quote, base)
           amount == ChargedAmount(cat, quote, subtotals, line)
<1>1. IsEntry(cat, entry) /\ OptionalProfile(line.profile)
  BY PricedLine
<1>2. \A k \in KeysOf(lines) : subtotals[k] \in Int
  BY ChargedLineAmounts, SubtotalsType
<1>3. DOMAIN subtotals = KeysOf(lines)
  BY DEF SubtotalsOf
<1> HIDE DEF entry, subtotals
<1>4. base \in OptionalInt
  BY <1>2, <1>3 DEF PercentageBase, IsQuote, OptionalInt
<1>5. amount = Converted(cat, source, entry)
  BY DEF ChargedAmount, entry
<1> HIDE DEF base, amount
<1>6. source \in OptionalInt
  BY <1>1, <1>4, SourceAmountType
<1>7. amount \in OptionalInt
  BY <1>1, <1>5, <1>6, ConvertedType
<1>8. ASSUME amount # NoValue, entry.basis = "PERCENT", line.step # NoValue, key # NoValue
      PROVE  /\ key \in KeysOf(lines)
             /\ amount = Bounded(entry.rate * subtotals[key], 100, BoundsInEffect(line.profile, entry))
  <2>1. amount = source /\ source # NoValue
    BY <1>5, <1>8 DEF Converted
  <2>2. base # NoValue
    BY <1>8, <2>1 DEF SourceAmount
  <2>3. base = IF key \in DOMAIN subtotals THEN subtotals[key] ELSE NoValue
    BY <1>8 DEF base, PercentageBase
  <2>4. key \in KeysOf(lines) /\ base = subtotals[key] /\ base \in Int
    BY <1>2, <1>3, <2>2, <2>3
  <2>5. source = Bounded(entry.rate * base, 100, BoundsInEffect(line.profile, entry))
    BY <1>1, <1>8, <2>1, <2>2, <2>4, PercentageAmount
  <2>6. QED  BY <2>1, <2>4, <2>5
<1>9. QED  BY <1>7, <1>8 DEF entry, subtotals, amount

\* One turn of the loop keeps subtotals what they are and percentages those of
\* the steps before them.
LEMMA ChargeKeeps ==
    ASSUME NEW cat, IsCatalogue(cat), NEW contract, IsContract(cat, contract),
           NEW quote, IsQuote(quote), NEW item \in Items(cat, contract),
           NEW charged \in ChargedSoFar(cat, contract, quote)
    PROVE  Charge(cat, contract, quote, charged, item) \in ChargedSoFar(cat, contract, quote)
<1> DEFINE L == ChargedLines(cat, contract, quote)
           line == Priced(cat, contract, quote, item)
           amount == ChargedAmount(cat, quote, charged.subtotals, line)
           new == [line EXCEPT !.amount = amount]
           next == Charge(cat, contract, quote, charged, item)
<1>1. CASE charged = NoValue
  BY <1>1 DEF Charge, ChargedSoFar
<1>2. CASE charged # NoValue /\ line = NoValue
  BY <1>2 DEF Charge
<1>3. CASE charged # NoValue /\ line # NoValue /\ amount = NoValue
  BY <1>3 DEF Charge, WithLine, ChargedSoFar
<1>4. CASE charged # NoValue /\ line # NoValue /\ amount # NoValue
  <2>1. PICK lines \in Seq(L) :
            /\ charged = [lines |-> lines, subtotals |-> SubtotalsOf(lines)]
            /\ \A i \in Keyed(lines) : IsPercentageOfSteps(cat, lines, i)
    BY <1>4 DEF ChargedSoFar
  <2> DEFINE more == Append(lines, new)
             entry == cat.books[line.book].entries[line.entry]
             key == line.step.key
             n == Len(lines) + 1
  <2>2. line \in PricedLines(cat, contract, quote)
    BY <1>4 DEF PricedLines
  <2>3. charged.lines = lines /\ charged.subtotals = SubtotalsOf(lines)
    BY <2>1
  <2> HIDE DEF line
  <2>4. /\ amount \in Int
        /\ entry.basis = "PERCENT" /\ line.step # NoValue /\ key # NoValue
           => /\ key \in KeysOf(lines)
              /\ amount = Bounded(entry.rate * SubtotalsOf(lines)[key], 100,
                                  BoundsInEffect(line.profile, entry))
    BY <1>4, <2>1, <2>2, <2>3, ChargedAmountType DEF OptionalInt
  <2> HIDE DEF amount
  <2>5. /\ new \in L /\ new.amount = amount /\ new.step = line.step /\ new.profile = line.profile
        /\ new.book = line.book /\ new.entry = line.entry
    BY <2>2, <2>4, ChargedLine
  <2> HIDE DEF new
  <2>6. \A x \in L : x.amount \in Int
    BY ChargedLineAmounts
  <2> HIDE DEF L
  <2>7. next = [lines |-> more, subtotals |-> SubtotalsOf(more)]
    <3> DEFINE soFar == IF key \in DOMAIN SubtotalsOf(lines) THEN SubtotalsOf(lines)[key] ELSE 0
    <3>1. next = [lines |-> more,
                  subtotals |-> IF ~Accumulates(line.step) THEN SubtotalsOf(lines)
                                ELSE Put(SubtotalsOf(lines), key, soFar + amount)]
      BY <1>4, <2>3 DEF Charge, WithLine, new, amount, line
    <3>2. SubtotalsOf(more) = IF ~Accumulates(line.step) THEN SubtotalsOf(lines)
                              ELSE Put(SubtotalsOf(lines), key, soFar + amount)
      BY <2>1, <2>5, <2>6, SubtotalsAppended
    <3>3. QED  BY <3>1, <3>2
  <2>8. more \in Seq(L)
    BY <2>1, <2>5
  <2>9. /\ Len(lines) \in Nat /\ DOMAIN lines = 1 .. Len(lines) /\ DOMAIN more = 1 .. n
        /\ (\A i \in DOMAIN lines : more[i] = lines[i]) /\ more[n] = new
    BY <2>1, AppendedLine
  <2>10. \A i \in Keyed(more) : IsPercentageOfSteps(cat, more, i)
    <3> SUFFICES ASSUME NEW i \in Keyed(more) PROVE IsPercentageOfSteps(cat, more, i)
      OBVIOUS
    <3>1. CASE i # n
      <4>1. i \in DOMAIN lines /\ i \in Keyed(lines)
        <5> HIDE DEF more
        <5>1. QED  BY <2>9, <3>1 DEF Keyed
      <4>2. QED  BY <2>1, <4>1, PercentagesStay
    <3>2. CASE i = n
      <4> HIDE DEF more, n
      <4>1. line.step # NoValue /\ key # NoValue
        BY <2>5, <2>9, <3>2 DEF Keyed
      <4>2. AddedBefore(more, n) = AddedTo(lines, key)
        BY <2>5, <2>9, <4>1 DEF AddedBefore, AddedTo, Keyed, Accumulates, n
      <4>3. \A j \in AddedTo(lines, key) : AmountsOf(more)[j] = AmountsOf(lines)[j]
        BY <2>9 DEF AddedTo, AmountsOf, n
      <4>4. IsFiniteSet(AddedTo(lines, key))
        <5>1. IsFiniteSet(DOMAIN lines)
          BY <2>9, FS_Interval
        <5>2. QED  BY <5>1, FS_Subset DEF AddedTo
      <4>5. SumFunctionOnSet(AmountsOf(more), AddedTo(lines, key))
                = SumFunctionOnSet(AmountsOf(lines), AddedTo(lines, key))
        BY <4>3, <4>4, SumCongruence
      <4>6. ASSUME entry.basis = "PERCENT"
            PROVE  /\ AddedTo(lines, key) # {}
                   /\ amount = Bounded(entry.rate * SumFunctionOnSet(AmountsOf(more), AddedTo(lines, key)),
                                       100, BoundsInEffect(line.profile, entry))
        <5>1. key \in KeysOf(lines) /\ amount = Bounded(entry.rate * SubtotalsOf(lines)[key], 100,
                                                        BoundsInEffect(line.profile, entry))
          BY <2>4, <4>1, <4>6
        <5>2. AddedTo(lines, key) # {}
              /\ SubtotalsOf(lines)[key] = SumFunctionOnSet(AmountsOf(lines), AddedTo(lines, key))
          BY <2>1, <2>6, <5>1, SubtotalsType
        <5>3. QED  BY <4>5, <5>1, <5>2
      <4>7. QED  BY <2>5, <2>9, <3>2, <4>2, <4>6 DEF IsPercentageOfSteps
    <3>3. QED  BY <3>1, <3>2
  <2> HIDE DEF more, next
  <2>11. next \in ChargedSoFar(cat, contract, quote)
    BY <2>7, <2>8, <2>10 DEF ChargedSoFar, L
  <2>12. QED  BY <2>11 DEF next
<1>5. QED  BY <1>1, <1>2, <1>3, <1>4

\* The loop over the lines of a contract.
LEMMA RatedLinesType ==
    ASSUME NEW cat, IsCatalogue(cat), NEW contract, IsContract(cat, contract),
           NEW quote, IsQuote(quote), NEW role, NEW date,
           RatedLines(cat, contract, role, quote, date) # NoValue
    PROVE  LET lines == RatedLines(cat, contract, role, quote, date)
           IN  /\ lines \in Seq(ChargedLines(cat, contract, quote))
               /\ \A i \in Keyed(lines) : IsPercentageOfSteps(cat, lines, i)
<1> DEFINE T == ChargedSoFar(cat, contract, quote)
           items == ContractLines(cat, contract, role, quote, date)
           n == Len(items)
           none == [lines |-> << >>, subtotals |-> << >>]
           Turn(charged, item) == Charge(cat, contract, quote, charged, item)
           step == [x \in T \X (1 .. n) |-> Turn(x[1], items[x[2]])]
           Solution(g) == g = [s \in SUBSET (1 .. n) |->
                                  IF s = {} THEN none ELSE Turn(g[s \ {Max(s)}], items[Max(s)])]
           g == CHOOSE g : Solution(g)
<1>1. n \in Nat /\ DOMAIN items = 1 .. n /\ \A i \in 1 .. n : items[i] \in Items(cat, contract)
  BY ContractLinesType, LenProperties, ElementOfSeq
<1>2. RatedLines(cat, contract, role, quote, date) = LinesOf(g[1 .. n])
  <2> HIDE DEF items
  <2>1. FoldLeft(LAMBDA soFar, expanded : Turn(soFar, expanded), none, items) = g[DOMAIN items]
    BY <1>1 DEF FoldLeft, MapThenFoldSet
  <2>2. RatedLines(cat, contract, role, quote, date)
            = LinesOf(FoldLeft(LAMBDA soFar, expanded : Turn(soFar, expanded), none, items))
    BY DEF RatedLines, items
  <2>3. QED  BY <1>1, <2>1, <2>2
<1> HIDE DEF items
<1>3. none \in T /\ step \in [T \X (1 .. n) -> T]
  <2>1. << >> \in Seq(ChargedLines(cat, contract, quote)) /\ Keyed(<< >>) = {}
    BY DEF Keyed
  <2>2. SubtotalsOf(<< >>) = << >>
    <3>1. KeysOf(<< >>) = {}
      BY DEF KeysOf
    <3>2. QED  BY <3>1 DEF SubtotalsOf
  <2>3. none \in T
    BY <2>1, <2>2 DEF ChargedSoFar
  <2>4. \A charged \in T, i \in 1 .. n : Turn(charged, items[i]) \in T
    BY <1>1, ChargeKeeps
  <2> HIDE DEF n, T, Turn, none
  <2>5. QED  BY <2>3, <2>4
<1>4. \E f : Solution(f)
  <2>1. PICK f : f \in [SUBSET (1 .. n) -> T] /\ Folds(f, n, T, none, step)
    <3> HIDE DEF n, T, step, none
    <3>1. QED  BY <1>1, <1>3, FoldExists
  <2>2. \A s \in SUBSET (1 .. n) : s # {} => Max(s) \in 1 .. n /\ s \ {Max(s)} \in SUBSET (1 .. n)
    BY <1>1, MaxIsElement
  <2> HIDE DEF n, T, Turn, none
  <2>3. \A s \in SUBSET (1 .. n) :
            f[s] = IF s = {} THEN none ELSE Turn(f[s \ {Max(s)}], items[Max(s)])
    BY <2>1, <2>2 DEF Folds
  <2>4. QED  BY <2>1, <2>3
<1>5. Solution(g)
  BY <1>4
<1>6. Folds(g, n, T, none, step)
  <2>1. \A s \in (SUBSET (1 .. n)) \ {{}} : Max(s) \in 1 .. n
    BY <1>1, MaxIsElement
  <2>2. {} \in SUBSET (1 .. n)
    OBVIOUS
  <2> HIDE DEF n, T, Turn, none, g
  <2>3. QED  BY <1>5, <2>1, <2>2 DEF Folds
<1>7. Traces(g, n, T, none, step)
  <2> HIDE DEF n, T, none, g, step
  <2>1. QED  BY <1>1, <1>3, <1>6, FoldTrace
<1>8. g[1 .. n] \in T
  <2>1. n \in 0 .. n
    BY <1>1
  <2> HIDE DEF n, T, none, g, step
  <2>2. QED  BY <1>7, <2>1 DEF Traces
<1> DEFINE last == g[1 .. n]
<1> HIDE DEF n, g
<1>9. last # NoValue /\ RatedLines(cat, contract, role, quote, date) = last.lines
  BY <1>2 DEF LinesOf
<1>10. \E lines \in Seq(ChargedLines(cat, contract, quote)) :
           /\ last = [lines |-> lines, subtotals |-> SubtotalsOf(lines)]
           /\ \A i \in Keyed(lines) : IsPercentageOfSteps(cat, lines, i)
  BY <1>8, <1>9 DEF ChargedSoFar
<1>11. QED  BY <1>9, <1>10

(***************************************************************************)
(* The option                                                              *)
(***************************************************************************)

\* What one of the contracts charges a quote.
AreCharged(cat, quote, lines) ==
    /\ \E contract \in Range(cat.contracts) : lines \in Seq(ChargedLines(cat, contract, quote))
    /\ \A i \in Keyed(lines) : IsPercentageOfSteps(cat, lines, i)

\* A role has at most one contract, unless the quote is refused.
LEMMA OneContractCharges ==
    ASSUME NEW cat, IsCatalogue(cat), NEW quote, IsQuote(quote), NEW role, NEW date,
           ~Ambiguous(cat, role, quote, date), ContractCharges(cat, role, quote, date) # {}
    PROVE  LET charges == ContractCharges(cat, role, quote, date)
           IN  /\ charges = {TheOne(charges)}
               /\ TheOne(charges) # NoValue => AreCharged(cat, quote, TheOne(charges))
<1> DEFINE matching == MatchingContracts(cat, role, quote, date)
           charges == ContractCharges(cat, role, quote, date)
           Lines(c) == RatedLines(cat, cat.contracts[c], role, quote, date)
<1>1. matching \subseteq DOMAIN cat.contracts
  BY DEF MatchingContracts, Foremost, Valid
<1>2. IsFiniteSet(matching)
  <2>1. IsFiniteSet(DOMAIN cat.contracts)
    BY FS_Interval DEF IsCatalogue, IsList
  <2>2. QED  BY <1>1, <2>1, FS_Subset
<1>3. Cardinality(matching) \in Nat /\ ~(Cardinality(matching) > 1)
  BY <1>2, FS_CardinalityType DEF Ambiguous
<1>4. charges = {Lines(c) : c \in matching}
  BY DEF ContractCharges
<1> HIDE DEF matching
<1>5. matching # {}
  BY <1>4
<1>6. Cardinality(matching) = 1
  BY <1>2, <1>3, <1>5, FS_EmptySet
<1>7. PICK c : matching = {c}
  BY <1>2, <1>6, FS_Singleton
<1>8. charges = {Lines(c)}
  BY <1>4, <1>7
<1>9. TheOne(charges) = Lines(c)
  BY <1>8 DEF TheOne
<1>10. cat.contracts[c] \in Range(cat.contracts) /\ IsContract(cat, cat.contracts[c])
  BY <1>1, <1>7 DEF IsCatalogue, Range
<1>11. Lines(c) # NoValue => AreCharged(cat, quote, Lines(c))
  BY <1>10, RatedLinesType DEF AreCharged
<1>12. QED  BY <1>8, <1>9, <1>11

\* What an option is made of.
LEMMA OptionMade ==
    ASSUME NEW cat, IsCatalogue(cat), NEW quote, IsQuote(quote), NEW providerCost,
           NEW option, option = Rated(cat, quote, providerCost), option # NoValue
    PROVE  /\ option.payer = << >> \/ AreCharged(cat, quote, option.payer)
           /\ option.cost = LineTotal(option.payer) /\ option.price = LineTotal(option.payee)
           /\ IF option.derived
              THEN /\ AreCharged(cat, quote, option.payer)
                   /\ option.payee = WithMargin(quote, option.payer)
              ELSE AreCharged(cat, quote, option.payee)
<1> DEFINE date == PricingDate(cat, quote, NoValue)
           payers == ContractCharges(cat, "PAYER", quote, date)
           payees == ContractCharges(cat, "PAYEE", quote, date)
           payer == TheOne(payers)
           payee == TheOne(payees)
<1>1. /\ ~Ambiguous(cat, "PAYER", quote, date) /\ ~Ambiguous(cat, "PAYEE", quote, date)
      /\ option = Offered(quote, payers, payees, providerCost)
  BY DEF Rated, RatedOn
<1>2. payers # {} => payers = {payer} /\ (payer # NoValue => AreCharged(cat, quote, payer))
  BY <1>1, OneContractCharges
<1>3. payees # {} => payees = {payee} /\ (payee # NoValue => AreCharged(cat, quote, payee))
  BY <1>1, OneContractCharges
<1> HIDE DEF date, payers, payees
<1>4. CASE ~providerCost
  <2>1. option = Option(<< >>, payee, FALSE) /\ payee # NoValue /\ payees # {}
    BY <1>1, <1>3, <1>4 DEF Offered
  <2> HIDE DEF payee
  <2>2. QED  BY <1>3, <2>1 DEF Option
<1>5. CASE providerCost
  <2>1. payers # {} /\ payer # NoValue
    BY <1>1, <1>2, <1>5 DEF Offered
  <2>2. CASE payees = {}
    <3>1. option = Option(payer, WithMargin(quote, payer), TRUE)
      BY <1>1, <1>5, <2>2 DEF Offered
    <3> HIDE DEF payer, payee
    <3>2. QED  BY <1>2, <2>1, <3>1 DEF Option
  <2>3. CASE payees # {}
    <3>1. option = Option(payer, payee, FALSE) /\ payee # NoValue
      BY <1>1, <1>3, <1>5, <2>3 DEF Offered
    <3> HIDE DEF payer, payee
    <3>2. QED  BY <1>2, <1>3, <2>1, <2>3, <3>1 DEF Option
  <2>4. QED  BY <2>2, <2>3
<1>6. QED  BY <1>4, <1>5

\* The entry that prices a line is unbeaten.
LEMMA EntriesUnbeaten ==
    ASSUME NEW cat, IsCatalogue(cat), NEW contract, IsContract(cat, contract), NEW quote,
           NEW charged \in ChargedLines(cat, contract, quote)
    PROVE  EntryUnbeaten(cat, quote, charged)
<1>1. PICK line \in PricedLines(cat, contract, quote), amount \in Int :
           charged = [line EXCEPT !.amount = amount]
  BY DEF ChargedLines
<1> DEFINE book == cat.books[charged.book]
           best == charged.entry
           entry(e) == book.entries[e]
           key(e) == <<-EntrySpecificity(entry(e)), entry(e).priority, -Dec(entry(e).low), e>>
           Applying(e) == EntryApplies(entry(e), charged.component, quote, charged.date)
<1>2. /\ charged.book = line.book /\ charged.entry = line.entry
      /\ charged.component = line.component /\ charged.date = line.date
  BY <1>1, ChargedLine
<1>3. /\ charged.book \in DOMAIN cat.books /\ best # NoValue
      /\ best = BestEntry(book, charged.component, quote, charged.date)
  BY <1>2, PricedLine
<1>4. IsList(book.entries) /\ \A e \in Range(book.entries) : IsEntry(cat, e)
  BY <1>3 DEF IsCatalogue, Range
<1> HIDE DEF book, best
<1>5. /\ best \in DOMAIN book.entries /\ Applying(best)
      /\ \A e \in DOMAIN book.entries \ {best} : Applying(e) => EntryBefore(book, best, e)
  BY <1>3, <1>4, BestEntryIsFirst
<1>6. ASSUME NEW e \in DOMAIN book.entries \ {best}, Applying(e)
      PROVE  \E k \in 1 .. 4 : key(best)[k] < key(e)[k] /\ \A l \in 1 .. k - 1 : key(best)[l] = key(e)[l]
  <2> DEFINE s(f) == EntrySpecificity(entry(f))
             p(f) == entry(f).priority
             d(f) == Dec(entry(f).low)
  <2>1. \A f \in {best, e} : s(f) \in Int /\ p(f) \in Int /\ d(f) \in Int /\ f \in Int
    BY <1>4, <1>5, EntryKeys
  <2>2. \/ s(best) > s(e)
        \/ s(best) = s(e) /\ p(best) < p(e)
        \/ s(best) = s(e) /\ p(best) = p(e) /\ d(best) > d(e)
        \/ s(best) = s(e) /\ p(best) = p(e) /\ d(best) = d(e) /\ best < e
    BY <1>5, <1>6 DEF EntryBefore
  <2> DEFINE Less(k) == key(best)[k] < key(e)[k] /\ \A l \in 1 .. k - 1 : key(best)[l] = key(e)[l]
  <2>3. \A f : /\ key(f)[1] = -s(f) /\ key(f)[2] = p(f) /\ key(f)[3] = -d(f) /\ key(f)[4] = f
    OBVIOUS
  <2> HIDE DEF key, s, p, d
  <2>4. s(best) > s(e) => Less(1)
    BY <2>1, <2>3
  <2>5. s(best) = s(e) /\ p(best) < p(e) => Less(2)
    BY <2>1, <2>3
  <2>6. s(best) = s(e) /\ p(best) = p(e) /\ d(best) > d(e) => Less(3)
    <3>1. \A l \in 1 .. 3 - 1 : l = 1 \/ l = 2
      OBVIOUS
    <3>2. QED  BY <2>1, <2>3, <3>1
  <2>7. s(best) = s(e) /\ p(best) = p(e) /\ d(best) = d(e) /\ best < e => Less(4)
    <3>1. \A l \in 1 .. 4 - 1 : l = 1 \/ l = 2 \/ l = 3
      OBVIOUS
    <3>2. QED  BY <2>1, <2>3, <3>1
  <2> HIDE DEF Less
  <2>8. \E k \in 1 .. 4 : Less(k)
    <3>1. 1 \in 1 .. 4 /\ 2 \in 1 .. 4 /\ 3 \in 1 .. 4 /\ 4 \in 1 .. 4
      OBVIOUS
    <3>2. QED  BY <2>2, <2>4, <2>5, <2>6, <2>7, <3>1
  <2>9. QED  BY <2>8 DEF Less
<1>7. QED  BY <1>5, <1>6 DEF EntryUnbeaten, book, best

(***************************************************************************)
(* The answer is that to the request                                       *)
(***************************************************************************)

AnswersQuote ==
    \E cat \in Catalogues, quote \in Quotes, providerCost \in BOOLEAN :
        /\ request = [kind |-> "quote", cat |-> cat, quote |-> quote, providerCost |-> providerCost]
        /\ answer = Rated(cat, quote, providerCost)

AnswersCalculation ==
    \E r \in CalculationRequests :
        request = [kind |-> "calculation", of |-> r] /\ answer = Calculated(r)

AnswersDays ==
    \E t \in Tariffs :
        request = [kind |-> "days", of |-> t] /\ answer = DayAmount(t.bands, t.days, t.requireNext)

AnswersFreeTime ==
    \E rules \in FreeTimeRules, r \in FreeTimeRequests :
        request = [kind |-> "freeTime", rules |-> rules, of |-> r] /\ answer = FreeTime(rules, r)

RatingInv ==
    request = NoValue \/ AnswersQuote \/ AnswersCalculation \/ AnswersDays \/ AnswersFreeTime

\* Nothing but what the operations compute is ever answered: the inductive
\* invariant of all of this.
THEOREM RatingAnswers == RatingSpec => []RatingInv
<1>1. RatingInit => RatingInv
  BY DEF RatingInit, RatingInv
<1>2. RatingInv /\ [RatingNext]_ratingVars => RatingInv'
  <2> SUFFICES ASSUME RatingInv, [RatingNext]_ratingVars PROVE RatingInv'
    OBVIOUS
  <2>1. ASSUME NEW cat \in Catalogues, NEW quote \in Quotes, NEW providerCost \in BOOLEAN,
               RateQuoteRequest(cat, quote, providerCost)
        PROVE  AnswersQuote'
    BY <2>1 DEF RateQuoteRequest, AnswersQuote
  <2>2. ASSUME NEW r \in CalculationRequests, PreviewCalculation(r) PROVE AnswersCalculation'
    BY <2>2 DEF PreviewCalculation, AnswersCalculation
  <2>3. ASSUME NEW t \in Tariffs, PriceDays(t) PROVE AnswersDays'
    BY <2>3 DEF PriceDays, AnswersDays
  <2>4. ASSUME NEW rules \in FreeTimeRules, NEW r \in FreeTimeRequests, PreviewFreeTime(rules, r)
        PROVE  AnswersFreeTime'
    BY <2>4 DEF PreviewFreeTime, AnswersFreeTime
  <2>5. CASE UNCHANGED ratingVars
    BY <2>5 DEF ratingVars, RatingInv, AnswersQuote, AnswersCalculation, AnswersDays, AnswersFreeTime
  <2>6. QED  BY <2>1, <2>2, <2>3, <2>4, <2>5 DEF RatingNext, RatingInv
<1>3. QED  BY <1>1, <1>2, PTL DEF RatingSpec

LEMMA QuoteAnswer ==
    ASSUME RatingInv, Answered("quote")
    PROVE  /\ IsCatalogue(request.cat) /\ IsQuote(request.quote)
           /\ \E providerCost \in BOOLEAN : answer = Rated(request.cat, request.quote, providerCost)
           /\ answer # NoValue
<1>1. request # NoValue /\ request.kind = "quote" /\ answer # NoValue
  BY DEF Answered, Asked
<1>2. AnswersQuote
  BY <1>1 DEF RatingInv, AnswersCalculation, AnswersDays, AnswersFreeTime
<1>3. QED  BY <1>1, <1>2, RatingConstants DEF AnswersQuote

(***************************************************************************)
(* The theorems                                                            *)
(***************************************************************************)

\* The lines of an option: what a contract charged, or a margin of no entry.
LEMMA AnsweredLines ==
    ASSUME RatingInv, Answered("quote"), NEW lines \in {answer.payer, answer.payee}
    PROVE  /\ \A line \in Range(lines) :
                  line.entry # NoValue => EntryUnbeaten(request.cat, request.quote, line)
           /\ \A i \in Keyed(lines) : IsPercentageOfSteps(request.cat, lines, i)
<1> DEFINE cat == request.cat
           quote == request.quote
           Good(l) == /\ \A line \in Range(l) : line.entry # NoValue => EntryUnbeaten(cat, quote, line)
                      /\ \A i \in Keyed(l) : IsPercentageOfSteps(cat, l, i)
<1>1. PICK providerCost \in BOOLEAN : answer = Rated(cat, quote, providerCost)
  BY QuoteAnswer
<1>2. IsCatalogue(cat) /\ IsQuote(quote) /\ answer # NoValue
  BY QuoteAnswer
<1> HIDE DEF cat, quote
<1>3. /\ answer.payer = << >> \/ AreCharged(cat, quote, answer.payer)
      /\ IF answer.derived
         THEN AreCharged(cat, quote, answer.payer) /\ answer.payee = WithMargin(quote, answer.payer)
         ELSE AreCharged(cat, quote, answer.payee)
  BY <1>1, <1>2, OptionMade
<1>4. Good(<< >>)
  BY DEF Range, Keyed
<1>5. ASSUME NEW l, AreCharged(cat, quote, l) PROVE Good(l)
  <2>1. PICK contract \in Range(cat.contracts) : l \in Seq(ChargedLines(cat, contract, quote))
    BY <1>5 DEF AreCharged
  <2>2. IsContract(cat, contract)
    BY <1>2 DEF IsCatalogue
  <2>3. \A line \in Range(l) : line \in ChargedLines(cat, contract, quote)
    BY <2>1 DEF Range
  <2>4. QED  BY <1>2, <1>5, <2>2, <2>3, EntriesUnbeaten DEF AreCharged
<1>6. ASSUME NEW l, AreCharged(cat, quote, l) PROVE Good(WithMargin(quote, l))
  <2>1. PICK L : l \in Seq(L)
    BY <1>6 DEF AreCharged
  <2>2. Good(l)
    BY <1>5, <1>6
  <2>3. ASSUME NEW amount PROVE Good(Append(l, MarginLine(amount)))
    <3> DEFINE margin == MarginLine(amount)
               more == Append(l, margin)
    <3>1. /\ Len(l) \in Nat /\ DOMAIN l = 1 .. Len(l) /\ DOMAIN more = 1 .. (Len(l) + 1)
          /\ (\A i \in DOMAIN l : more[i] = l[i]) /\ more[Len(l) + 1] = margin
      BY <2>1, AppendedLine
    <3>2. margin.entry = NoValue /\ margin.step = NoValue
      BY DEF MarginLine
    <3> HIDE DEF margin, more
    <3>3. \A line \in Range(more) : line \in Range(l) \/ line = margin
      BY <3>1 DEF Range
    <3>4. \A i \in Keyed(more) : i \in Keyed(l) /\ i \in DOMAIN l
      BY <3>1, <3>2 DEF Keyed
    <3>5. \A i \in Keyed(more) : IsPercentageOfSteps(cat, more, i)
      BY <2>1, <2>2, <3>4, PercentagesStay DEF more
    <3>6. QED  BY <2>2, <3>2, <3>3, <3>5 DEF more, margin
  <2> HIDE DEF Good
  <2>4. QED  BY <2>2, <2>3 DEF WithMargin
<1> HIDE DEF Good
<1>7. Good(lines)
  BY <1>3, <1>4, <1>5, <1>6
<1>8. QED  BY <1>7 DEF Good, cat, quote

\* For every catalogue and quote, and all rules: no entry and no rule that
\* applies comes before the one that is taken.
THEOREM BestEntryWins == RatingSpec => []WinnersUnbeaten
<1>1. ASSUME RatingInv PROVE WinnersUnbeaten
  <2>1. ASSUME Answered("quote")
        PROVE  \A line \in Range(answer.payer) \cup Range(answer.payee) : line.entry # NoValue =>
                   EntryUnbeaten(request.cat, request.quote, line)
    BY <1>1, <2>1, AnsweredLines
  <2>2. ASSUME Answered("freeTime") PROVE RuleUnbeaten(request.rules, request.of, answer.rule)
    <3>1. request # NoValue /\ request.kind = "freeTime" /\ answer # NoValue
      BY <2>2 DEF Answered, Asked
    <3>2. AnswersFreeTime
      BY <1>1, <3>1 DEF RatingInv, AnswersQuote, AnswersCalculation, AnswersDays
    <3>3. PICK rules \in FreeTimeRules, r \in FreeTimeRequests :
              request = [kind |-> "freeTime", rules |-> rules, of |-> r] /\ answer = FreeTime(rules, r)
      BY <3>2 DEF AnswersFreeTime
    <3> DEFINE first == FreeTimeRule(rules, r)
    <3>4. first # NoValue /\ answer.rule = first
      BY <3>1, <3>3 DEF FreeTime
    <3>5. AreFreeTimeRules(rules)
      BY RatingConstants
    <3> HIDE DEF first
    <3>6. /\ first \in rules
          /\ \A rule \in rules :
                 /\ RuleSpecificity(rule) \in Int /\ rule.priority \in Int /\ rule.sequence \in Int
                 /\ RuleMatches(rule, r) /\ rule # first => RuleBefore(first, rule)
      BY <3>4, <3>5, FreeTimeRuleIsFirst DEF first
    <3>7. RuleUnbeaten(rules, r, first)
      BY <3>6 DEF RuleUnbeaten, RuleBefore
    <3>8. QED  BY <3>3, <3>4, <3>7
  <2>3. QED  BY <2>1, <2>2 DEF WinnersUnbeaten
<1>2. QED  BY <1>1, RatingAnswers, PTL

\* A percentage step is never of a step after it, of a statistical one or of
\* nothing, however a template is put together.
THEOREM PercentagesAreOfSteps == RatingSpec => []PercentagesOfChargedSteps
<1>1. ASSUME RatingInv PROVE PercentagesOfChargedSteps
  BY <1>1, AnsweredLines DEF PercentagesOfChargedSteps
<1>2. QED  BY <1>1, RatingAnswers, PTL

\* The total of lines to which one is added that counts.
LEMMA LineTotalAppended ==
    ASSUME NEW L, \A x \in L : x.amount \in Int, NEW lines \in Seq(L),
           NEW line, line.amount \in Int, ~IsStatistical(line.step)
    PROVE  /\ LineTotal(lines) \in Int
           /\ LineTotal(Append(lines, line)) = LineTotal(lines) + line.amount
<1> DEFINE more == Append(lines, line)
           n == Len(lines) + 1
           Counted(l) == {i \in DOMAIN l : ~IsStatistical(l[i].step)}
<1>1. /\ Len(lines) \in Nat /\ DOMAIN lines = 1 .. Len(lines) /\ DOMAIN more = 1 .. n
      /\ (\A i \in DOMAIN lines : more[i] = lines[i]) /\ more[n] = line
      /\ n \notin DOMAIN lines /\ DOMAIN more = DOMAIN lines \cup {n}
  BY AppendedLine
<1> HIDE DEF more, n
<1>2. \A i \in DOMAIN lines : AmountsOf(lines)[i] \in Int
  <2>1. \A i \in DOMAIN lines : lines[i] \in L
    OBVIOUS
  <2>2. QED  BY <2>1 DEF AmountsOf
<1>3. IsFiniteSet(Counted(lines)) /\ n \notin Counted(lines)
  <2>1. IsFiniteSet(DOMAIN lines)
    BY <1>1, FS_Interval
  <2>2. QED  BY <1>1, <2>1, FS_Subset
<1>4. Counted(more) = Counted(lines) \cup {n}
  BY <1>1
<1>5. /\ AmountsOf(more)[n] = line.amount
      /\ \A i \in DOMAIN lines : AmountsOf(more)[i] = AmountsOf(lines)[i]
  BY <1>1 DEF AmountsOf
<1>6. SumFunctionOnSet(AmountsOf(more), Counted(lines) \cup {n})
          = SumFunctionOnSet(AmountsOf(lines), Counted(lines)) + AmountsOf(more)[n]
  BY <1>2, <1>3, <1>5, SumWith
<1>7. SumFunctionOnSet(AmountsOf(lines), Counted(lines)) \in Int
  BY <1>2, <1>3, SumTakeOut
<1>8. QED  BY <1>4, <1>5, <1>6, <1>7 DEF LineTotal, more

\* Whatever the cost and the rules, also where they are negative.
THEOREM MarginIsKept == RatingSpec => []MarginKept
<1>1. ASSUME RatingInv PROVE MarginKept
  <2> SUFFICES ASSUME Answered("quote"), answer.derived
               PROVE  LET rules == request.quote.margin
                          containers == Dec(request.quote.measures["container"])
                          hundredths == AtLeast(100 * rules.fixed + 100 * rules.perContainer * containers
                                                + rules.percent * answer.cost, 100 * rules.minimum)
                          margin == answer.price - answer.cost
                      IN  /\ margin >= rules.minimum
                          /\ Magnitude(100 * margin - hundredths) <= 50
                          /\ Magnitude(100 * margin - hundredths) = 50
                              => Magnitude(100 * margin) > Magnitude(hundredths)
    BY DEF MarginKept
  <2> DEFINE cat == request.cat
             quote == request.quote
             rules == quote.margin
             lines == answer.payer
             containers == Dec(quote.measures["container"])
             agreed == 100 * rules.fixed + rules.percent * CostOf(lines)
                       + 100 * rules.perContainer * containers
             hundredths == AtLeast(agreed, 100 * rules.minimum)
             margin == answer.price - answer.cost
  <2>1. PICK providerCost \in BOOLEAN : answer = Rated(cat, quote, providerCost)
    BY <1>1, QuoteAnswer
  <2>2. IsCatalogue(cat) /\ IsQuote(quote) /\ answer # NoValue
    BY <1>1, QuoteAnswer
  <2>3. /\ AreCharged(cat, quote, lines) /\ answer.payee = WithMargin(quote, lines)
        /\ answer.cost = LineTotal(lines) /\ answer.price = LineTotal(answer.payee)
    BY <2>1, <2>2, OptionMade
  <2>4. PICK contract \in Range(cat.contracts) : lines \in Seq(ChargedLines(cat, contract, quote))
    BY <2>3 DEF AreCharged
  <2>5. IsContract(cat, contract)
    BY <2>2 DEF IsCatalogue
  <2>6. ASSUME NEW amount \in Int
        PROVE  /\ LineTotal(lines) \in Int
               /\ LineTotal(Append(lines, MarginLine(amount))) = LineTotal(lines) + amount
    <3>1. MarginLine(amount).amount = amount /\ ~IsStatistical(MarginLine(amount).step)
      BY DEF MarginLine, IsStatistical
    <3>2. \A x \in ChargedLines(cat, contract, quote) : x.amount \in Int
      BY <2>2, <2>5, ChargedLineAmounts
    <3>3. QED  BY <2>4, <3>1, <3>2, LineTotalAppended
  <2>7. /\ rules.fixed \in Int /\ rules.percent \in Int /\ rules.perContainer \in Int
        /\ rules.minimum \in Int /\ containers \in Int /\ LineTotal(lines) \in Int
    <3>1. containers \in Int
      BY <2>2, OptionalTypes DEF IsQuote, Measurements, MeasureKeys, OptionalInt, Dec
    <3>2. QED  BY <2>2, <2>6, <3>1 DEF IsQuote
  <2>8. hundredths \in Int /\ hundredths >= 100 * rules.minimum
    <3>1. agreed \in Int /\ 100 * rules.minimum \in Int
      BY <2>7 DEF CostOf
    <3> HIDE DEF agreed
    <3>2. QED  BY <3>1 DEF AtLeast
  <2>9. answer.payee = IF hundredths = 0 THEN lines
                       ELSE Append(lines, MarginLine(Money(hundredths, 100)))
    BY <2>3 DEF WithMargin
  <2> HIDE DEF hundredths
  <2>10. margin = IF hundredths = 0 THEN 0 ELSE Money(hundredths, 100)
    <3>1. Money(hundredths, 100) \in Int
      BY <2>8, MoneyOfHundredths
    <3>2. QED  BY <2>3, <2>6, <2>7, <2>9, <3>1
  <2> HIDE DEF margin
  <2>11. /\ margin >= rules.minimum
         /\ Magnitude(100 * margin - hundredths) <= 50
         /\ Magnitude(100 * margin - hundredths) = 50 => Magnitude(100 * margin) > Magnitude(hundredths)
    <3>1. CASE hundredths = 0
      BY <2>7, <2>8, <2>10, <3>1 DEF Magnitude
    <3>2. CASE hundredths # 0
      BY <2>7, <2>8, <2>10, <3>2, MoneyOfHundredths
    <3>3. QED  BY <3>1, <3>2
  <2>12. hundredths = AtLeast(100 * rules.fixed + 100 * rules.perContainer * containers
                              + rules.percent * answer.cost, 100 * rules.minimum)
    <3>1. 100 * rules.perContainer * containers \in Int /\ rules.percent * LineTotal(lines) \in Int
      BY <2>7
    <3>2. agreed = 100 * rules.fixed + 100 * rules.perContainer * containers
                   + rules.percent * answer.cost
      BY <2>3, <2>7, <3>1 DEF CostOf
    <3>3. QED  BY <3>2 DEF hundredths
  <2>13. QED  BY <2>11, <2>12 DEF margin
<1>2. QED  BY <1>1, RatingAnswers, PTL

\* For every amount, all drivers and either policy: _preview_allocations gives
\* the whole amount away, and gives each target its share.
THEOREM AllocationsComplete == RatingSpec => []AllocationsAddUp
<1>1. ASSUME RatingInv PROVE AllocationsAddUp
  <2> SUFFICES ASSUME Answered("calculation"), request.of.targets # << >>
               PROVE  LET drivers == Drivers(request.of.targets, request.of.policy)
                          part(i) == answer.parts[i]
                      IN  /\ answer.unallocated = 0
                          /\ \A i \in DOMAIN drivers :
                              /\ Magnitude(part(i) * Total(drivers) - answer.amount * drivers[i])
                                  < Total(drivers)
                              /\ drivers[i] = 0 => part(i) = 0
                          /\ \A i, j \in DOMAIN drivers :
                              drivers[i] > drivers[j] => Magnitude(part(i)) >= Magnitude(part(j))
    BY DEF AllocationsAddUp
  <2>1. request # NoValue /\ request.kind = "calculation" /\ answer # NoValue
    BY DEF Answered, Asked
  <2>2. AnswersCalculation
    BY <1>1, <2>1 DEF RatingInv, AnswersQuote, AnswersDays, AnswersFreeTime
  <2>3. PICK r \in CalculationRequests : request.of = r /\ answer = Calculated(r)
    BY <2>2 DEF AnswersCalculation
  <2>4. IsCalculationRequest(r)
    BY RatingConstants
  <2> DEFINE source == IF r.profile = NoValue THEN PreviewAmount(r)
                       ELSE Evaluated(r.profile, r.rate, r.rate, r.inputs, r.measures)
             amount == Money(source * r.fx.num, r.fx.den)
             parts == Allocations(amount, r.targets, r.policy)
  <2>5. source # NoValue /\ parts # NoValue /\ answer.amount = amount /\ answer.parts = parts
        /\ answer.unallocated = amount - Total(parts)
    BY <2>1, <2>3 DEF Calculated
  <2>6. source \in OptionalInt
    <3>1. CASE r.profile = NoValue
      <4>1. PreviewAmount(r) \in Int
        <5>1. r.base * r.rate \in Int /\ r.rate * 1 \in Int /\ r.rate * r.quantity \in Int
              /\ 1 \in Nat \ {0} /\ 100 \in Nat \ {0} /\ r.bounds \in BoundsType
          BY <2>4 DEF IsCalculationRequest
        <5>2. \A b \in Int, d \in {1, 100} : Bounded(b, d, r.bounds) \in Int
          BY <5>1, BoundedType
        <5>3. QED  BY <5>1, <5>2 DEF PreviewAmount
      <4>2. QED  BY <3>1, <4>1 DEF OptionalInt
    <3>2. CASE r.profile # NoValue
      <4>1. IsProfile(r.profile) /\ r.rate \in Int /\ r.rate \in OptionalInt
            /\ r.inputs \in Measurements /\ r.measures \in Measurements
        BY <2>4, <3>2 DEF IsCalculationRequest, OptionalProfile, OptionalInt
      <4>2. Evaluated(r.profile, r.rate, r.rate, r.inputs, r.measures) \in OptionalInt
        BY <4>1, EvaluatedType
      <4>3. QED  BY <3>2, <4>2
    <3>3. QED  BY <3>1, <3>2
  <2> HIDE DEF source
  <2>7. amount \in Int
    <3>1. source * r.fx.num \in Int /\ r.fx.den \in Nat \ {0}
      BY <2>4, <2>5, <2>6 DEF OptionalInt, IsCalculationRequest
    <3>2. QED  BY <3>1, MoneyType
  <2>8. r.targets \in Seq(Nat) /\ r.targets # << >>
    BY <2>3, <2>4 DEF IsCalculationRequest
  <2> HIDE DEF amount
  <2> DEFINE drivers == Drivers(r.targets, r.policy)
  <2>9. /\ Total(parts) = amount
        /\ \A i \in DOMAIN drivers :
              /\ Magnitude(parts[i] * Total(drivers) - amount * drivers[i]) < Total(drivers)
              /\ drivers[i] = 0 => parts[i] = 0
        /\ \A i, j \in DOMAIN drivers :
              drivers[i] > drivers[j] => Magnitude(parts[i]) >= Magnitude(parts[j])
    BY <2>5, <2>7, <2>8, AllocationsShare
  <2> HIDE DEF parts, drivers
  <2>10. QED  BY <2>3, <2>5, <2>7, <2>9 DEF drivers
<1>2. QED  BY <1>1, RatingAnswers, PTL

\* For every tariff: progressive_day_amount answers if and only if the bands price
\* each day once, and then with the sum of what the days of the stay cost.
THEOREM DaysAreChargedOnce == RatingSpec => []DaysChargedOnce
<1>1. ASSUME RatingInv PROVE DaysChargedOnce
  <2> SUFFICES ASSUME Asked("days")
               PROVE  LET rates == [d \in 1 .. request.of.days |-> RateOf(request.of.bands, d)]
                      IN  /\ answer # NoValue <=> PricesEachDayOnce(request.of)
                          /\ PricesEachDayOnce(request.of) => answer.amount = Total(rates)
    BY DEF DaysChargedOnce
  <2>1. request # NoValue /\ request.kind = "days"
    BY DEF Asked
  <2>2. AnswersDays
    BY <1>1, <2>1 DEF RatingInv, AnswersQuote, AnswersCalculation, AnswersFreeTime
  <2>3. PICK t \in Tariffs : /\ request.of = t
                             /\ answer = DayAmount(t.bands, t.days, t.requireNext)
    BY <2>2 DEF AnswersDays
  <2>4. IsTariff(t)
    BY RatingConstants
  <2> DEFINE s == ByStart(t.bands)
             billed == Total([i \in DOMAIN s |-> s[i].rate * BilledDays(s[i], t.days)])
             accepted == DaysAccepted(s, t.days, t.requireNext)
             rates == [d \in 1 .. t.days |-> RateOf(t.bands, d)]
  <2>5. /\ answer # NoValue => accepted
        /\ accepted => answer.amount = billed /\ (answer.amount \in Int => answer # NoValue)
    BY <2>3, <2>4, DaysAnswered
  <2>6. accepted <=> PricesEachDayOnce(t)
    BY <2>4, AcceptedPricesOnce
  <2>7. accepted => billed \in Int /\ billed = Total(rates)
    BY <2>4, AcceptedSum
  <2> HIDE DEF accepted, billed, rates
  <2>8. QED  BY <2>3, <2>5, <2>6, <2>7 DEF rates
<1>2. QED  BY <1>1, RatingAnswers, PTL
=============================================================================
