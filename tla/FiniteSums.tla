----------------------------- MODULE FiniteSums -----------------------------
(***************************************************************************)
(* Sums over finite sets (SumFunctionOnSet of the community modules),      *)
(* least, greatest and first elements, and folds over lists.  What totals, *)
(* balances, version numbers, latest rates and priced lines are made of.   *)
(***************************************************************************)
EXTENDS Integers, Functions, FiniteSetsExt, FiniteSetTheorems, WellFoundedInduction, TLAPS

\* Among subsets of a finite set there is a smallest one: this is how facts
\* about all finite sets are proved here.
LEMMA SmallestSubset ==
    ASSUME NEW S, IsFiniteSet(S), NEW Bad \in SUBSET (SUBSET S), Bad # {}
    PROVE  \E T \in Bad : IsFiniteSet(T) /\ \A U \in Bad : U \subseteq T => U = T
<1>1. IsWellFoundedOn(StrictSubsetOrdering(S), FiniteSubsetsOf(S))
  BY FS_StrictSubsetOrderingWellFounded
<1>2. FiniteSubsetsOf(S) = SUBSET S
  BY FS_FiniteSubsetsOfFinite
<1>3. PICK T \in Bad : \A U \in Bad : ~(<<U, T>> \in StrictSubsetOrdering(S))
  BY <1>1, <1>2, WFMin
<1>4. IsFiniteSet(T)
  BY FS_Subset
<1>5. \A U \in Bad : U \subseteq T => U = T
  BY <1>3 DEF StrictSubsetOrdering
<1>6. QED  BY <1>3, <1>4, <1>5

(***************************************************************************)
(* Sums                                                                    *)
(***************************************************************************)

\* The recursion that the sum of f is defined by: one element, and the rest.
SumStep(f, g, s) ==
    IF s = {} THEN 0
    ELSE f[CHOOSE x \in s : TRUE] + g[s \ {CHOOSE x \in s : TRUE}]

Solves(f, g, S) == g = [s \in SUBSET S |-> SumStep(f, g, s)]

\* A recursion on finite sets has a solution: one for sets of up to n elements
\* gives one for sets of up to n + 1.
LEMMA SumExists ==
    ASSUME NEW f, NEW S, IsFiniteSet(S)
    PROVE  \E g : Solves(f, g, S)
<1> DEFINE UpTo(n) == {s \in SUBSET S : Cardinality(s) <= n}
           Part(g, n) == g = [s \in UpTo(n) |-> SumStep(f, g, s)]
           Bad == {n \in Nat : ~ \E g : Part(g, n)}
<1>1. \A s \in SUBSET S : IsFiniteSet(s) /\ Cardinality(s) \in Nat /\ Cardinality(s) <= Cardinality(S)
  BY FS_Subset, FS_CardinalityType
<1>2. Cardinality(S) \in Nat
  BY FS_CardinalityType
<1>3. Bad = {}
  <2> SUFFICES ASSUME Bad # {} PROVE FALSE
    OBVIOUS
  <2>1. PICK n \in Bad : \A m \in Bad : ~(<<m, n>> \in OpToRel(<, Nat))
    <3>1. Bad \subseteq Nat  OBVIOUS
    <3> HIDE DEF Bad
    <3>2. QED  BY <3>1, NatLessThanWellFounded, WFMin
  <2>2. n \in Nat /\ ~ \E g : Part(g, n)
    OBVIOUS
  <2>3. CASE n = 0
    <3>1. UpTo(0) = {{}}
      BY <1>1, FS_EmptySet
    <3>2. Part([s \in UpTo(0) |-> 0], 0)
      BY <3>1 DEF SumStep
    <3>3. QED  BY <2>2, <2>3, <3>2
  <2>4. CASE n # 0
    <3>1. n - 1 \in Nat /\ n - 1 < n
      BY <2>2, <2>4
    <3>2. <<n - 1, n>> \in OpToRel(<, Nat)
      BY <2>2, <3>1 DEF OpToRel
    <3>3. n - 1 \notin Bad
      BY <2>1, <3>2
    <3>4. PICK g : Part(g, n - 1)
      BY <3>1, <3>3
    <3> DEFINE h == [s \in UpTo(n) |-> SumStep(f, g, s)]
    <3>5. ASSUME NEW s \in UpTo(n), s # {}
          PROVE  s \ {CHOOSE x \in s : TRUE} \in UpTo(n - 1) /\ s \ {CHOOSE x \in s : TRUE} \in UpTo(n)
      <4>1. (CHOOSE x \in s : TRUE) \in s
        BY <3>5
      <4>2. Cardinality(s \ {CHOOSE x \in s : TRUE}) = Cardinality(s) - 1
        BY <4>1, <1>1, FS_RemoveElement
      <4>3. QED  BY <4>2, <1>1, <2>2
    <3>6. \A s \in UpTo(n - 1) : s \in UpTo(n) /\ g[s] = SumStep(f, g, s)
      BY <3>4, <1>1, <2>2
    <3>7. \A s \in UpTo(n - 1) : h[s] = g[s]
      BY <3>6
    <3>8. ASSUME NEW s \in UpTo(n) PROVE SumStep(f, g, s) = SumStep(f, h, s)
      <4>1. CASE s = {}
        BY <4>1 DEF SumStep
      <4>2. CASE s # {}
        <5> DEFINE rest == s \ {CHOOSE x \in s : TRUE}
        <5>1. h[rest] = g[rest]
          BY <3>5, <3>7, <4>2
        <5> HIDE DEF h
        <5>2. QED  BY <4>2, <5>1 DEF SumStep
      <4>3. QED  BY <4>1, <4>2
    <3>9. Part(h, n)
      BY <3>8
    <3>10. QED  BY <2>2, <3>9
  <2>5. QED  BY <2>3, <2>4
<1>4. PICK g : Part(g, Cardinality(S))
  BY <1>2, <1>3
<1>5. UpTo(Cardinality(S)) = SUBSET S
  BY <1>1
<1>6. QED  BY <1>4, <1>5 DEF Solves

LEMMA SumSolves ==
    ASSUME NEW f, NEW S, IsFiniteSet(S)
    PROVE  \E g : Solves(f, g, S) /\ SumFunctionOnSet(f, S) = g[S]
<1> DEFINE g == CHOOSE g : Solves(f, g, S)
<1>1. SumFunctionOnSet(f, S) = g[S]
  BY DEF SumFunctionOnSet, FoldFunctionOnSet, MapThenFoldSet, Solves, SumStep
<1>2. Solves(f, g, S)
  BY SumExists
<1>3. QED  BY <1>1, <1>2

\* Solutions for two functions agree on the sets on which the functions agree.
LEMMA SumUnique ==
    ASSUME NEW f1, NEW f2, NEW g1, NEW g2, NEW S1, NEW S2,
           Solves(f1, g1, S1), Solves(f2, g2, S2)
    PROVE  \A T \in (SUBSET S1) \cap (SUBSET S2) :
               IsFiniteSet(T) /\ (\A x \in T : f1[x] = f2[x]) => g1[T] = g2[T]
<1> SUFFICES ASSUME NEW T \in (SUBSET S1) \cap (SUBSET S2),
                    IsFiniteSet(T), \A x \in T : f1[x] = f2[x]
             PROVE  g1[T] = g2[T]
  OBVIOUS
<1> DEFINE Bad == {U \in SUBSET T : g1[U] # g2[U]}
<1> SUFFICES ASSUME Bad # {} PROVE FALSE
  OBVIOUS
<1>2. PICK U \in Bad : \A V \in Bad : V \subseteq U => V = U
  <2>1. Bad \in SUBSET (SUBSET T)  OBVIOUS
  <2> HIDE DEF Bad
  <2>2. QED  BY <2>1, SmallestSubset
<1>3. g1[U] = SumStep(f1, g1, U) /\ g2[U] = SumStep(f2, g2, U)
  BY DEF Solves
<1>4. CASE U = {}
  BY <1>3, <1>4 DEF SumStep
<1>5. CASE U # {}
  <2> DEFINE c == CHOOSE x \in U : TRUE
  <2>1. c \in U
    BY <1>5
  <2>2. U \ {c} \notin Bad
    BY <1>2, <2>1
  <2>3. g1[U \ {c}] = g2[U \ {c}]
    BY <2>2
  <2>4. f1[c] = f2[c]
    BY <2>1
  <2>5. QED  BY <1>3, <1>5, <2>3, <2>4 DEF SumStep
<1>6. QED  BY <1>4, <1>5

\* Functions that agree on a set have the same sum on it.
LEMMA SumCongruence ==
    ASSUME NEW f1, NEW f2, NEW S, IsFiniteSet(S), \A x \in S : f1[x] = f2[x]
    PROVE  SumFunctionOnSet(f1, S) = SumFunctionOnSet(f2, S)
<1>1. PICK g1 : Solves(f1, g1, S) /\ SumFunctionOnSet(f1, S) = g1[S]
  BY SumSolves
<1>2. PICK g2 : Solves(f2, g2, S) /\ SumFunctionOnSet(f2, S) = g2[S]
  BY SumSolves
<1>3. \A T \in (SUBSET S) \cap (SUBSET S) :
           IsFiniteSet(T) /\ (\A x \in T : f1[x] = f2[x]) => g1[T] = g2[T]
  BY <1>1, <1>2, SumUnique
<1>4. g1[S] = g2[S]
  BY <1>3
<1>5. QED  BY <1>1, <1>2, <1>4

LEMMA SumEmpty ==
    ASSUME NEW f
    PROVE  SumFunctionOnSet(f, {}) = 0
<1>1. PICK g : Solves(f, g, {}) /\ SumFunctionOnSet(f, {}) = g[{}]
  BY FS_EmptySet, SumSolves
<1>2. g[{}] = SumStep(f, g, {})
  BY <1>1 DEF Solves
<1>3. QED  BY <1>1, <1>2 DEF SumStep

\* The sum is that of the element chosen first and of the others.
LEMMA SumUnfold ==
    ASSUME NEW f, NEW S, IsFiniteSet(S), S # {}
    PROVE  \E c \in S : SumFunctionOnSet(f, S) = f[c] + SumFunctionOnSet(f, S \ {c})
<1> DEFINE c == CHOOSE x \in S : TRUE
<1>1. c \in S
  OBVIOUS
<1>2. PICK g : Solves(f, g, S) /\ SumFunctionOnSet(f, S) = g[S]
  BY SumSolves
<1>3. IsFiniteSet(S \ {c})
  BY FS_RemoveElement
<1>4. PICK h : Solves(f, h, S \ {c}) /\ SumFunctionOnSet(f, S \ {c}) = h[S \ {c}]
  BY <1>3, SumSolves
<1>5. g[S \ {c}] = h[S \ {c}]
  <2>1. \A T \in (SUBSET S) \cap (SUBSET (S \ {c})) :
             IsFiniteSet(T) /\ (\A x \in T : f[x] = f[x]) => g[T] = h[T]
    BY <1>2, <1>4, SumUnique
  <2>2. QED  BY <1>3, <2>1
<1>6. g[S] = f[c] + g[S \ {c}]
  BY <1>2 DEF Solves, SumStep
<1>7. QED  BY <1>1, <1>2, <1>4, <1>5, <1>6

\* A sum of integers is an integer, and any element may be taken out of it.
LEMMA SumTakeOut ==
    ASSUME NEW f, NEW S, IsFiniteSet(S), \A x \in S : f[x] \in Int
    PROVE  /\ SumFunctionOnSet(f, S) \in Int
           /\ \A x \in S : SumFunctionOnSet(f, S) = f[x] + SumFunctionOnSet(f, S \ {x})
<1> DEFINE Sum(U) == SumFunctionOnSet(f, U)
           Good(U) == Sum(U) \in Int /\ \A x \in U : Sum(U) = f[x] + Sum(U \ {x})
           Bad == {U \in SUBSET S : ~Good(U)}
<1> SUFFICES ASSUME Bad # {} PROVE FALSE
  OBVIOUS
<1>1. PICK U \in Bad : IsFiniteSet(U) /\ \A V \in Bad : V \subseteq U => V = U
  <2>1. Bad \in SUBSET (SUBSET S)  OBVIOUS
  <2> HIDE DEF Bad
  <2>2. QED  BY <2>1, SmallestSubset
<1>2. \A x \in U : Good(U \ {x})
  BY <1>1
<1>3. U \subseteq S /\ ~Good(U)
  OBVIOUS
<1>4. CASE U = {}
  BY <1>3, <1>4, SumEmpty
<1>5. CASE U # {}
  <2>1. PICK c \in U : Sum(U) = f[c] + Sum(U \ {c})
    BY <1>1, <1>5, SumUnfold
  <2>2. f[c] \in Int /\ Sum(U \ {c}) \in Int
    BY <1>2, <1>3
  <2>3. ASSUME NEW x \in U, x # c PROVE Sum(U) = f[x] + Sum(U \ {x})
    <3>1. Sum(U \ {c}) = f[x] + Sum((U \ {c}) \ {x})
      BY <1>2, <2>3
    <3>2. Sum(U \ {x}) = f[c] + Sum((U \ {x}) \ {c})
      BY <1>2, <2>3
    <3>3. (U \ {c}) \ {x} = (U \ {x}) \ {c}
      OBVIOUS
    <3>4. f[x] \in Int /\ Sum((U \ {x}) \ {c}) \in Int
      <4>1. x \in U \ {c}
        BY <2>3
      <4>2. Good(U \ {x})
        BY <1>2
      <4>3. f[x] \in Int /\ f[c] \in Int /\ Sum(U \ {x}) \in Int
        BY <1>3, <4>2
      <4>4. QED
        <5> HIDE DEF Bad, Good
        <5>1. (U \ {x}) \ {c} \in SUBSET S /\ (U \ {x}) \ {c} \notin Bad
          BY <1>1, <1>3
        <5>2. Good((U \ {x}) \ {c})
          BY <5>1 DEF Bad
        <5>3. QED  BY <4>3, <5>2 DEF Good
    <3>5. \A s, p, q, a, b, r \in Int : s = b + p /\ p = a + r /\ q = b + r => s = a + q
      OBVIOUS
    <3>6. Sum(U) \in Int /\ Sum(U \ {x}) \in Int
      BY <2>1, <2>2, <3>2, <3>4
    <3>7. Sum(U \ {c}) = f[x] + Sum((U \ {x}) \ {c})
      BY <3>1, <3>3
    <3>8. QED  BY <2>1, <2>2, <3>2, <3>4, <3>5, <3>6, <3>7
  <2>4. Sum(U) \in Int
    BY <2>1, <2>2
  <2>5. QED  BY <1>3, <2>1, <2>3, <2>4
<1>6. QED  BY <1>4, <1>5

LEMMA SumAdd ==
    ASSUME NEW f, NEW S, IsFiniteSet(S), NEW x, x \notin S, \A y \in S \cup {x} : f[y] \in Int
    PROVE  SumFunctionOnSet(f, S \cup {x}) = f[x] + SumFunctionOnSet(f, S)
<1>1. IsFiniteSet(S \cup {x}) /\ (S \cup {x}) \ {x} = S
  BY FS_AddElement
<1>2. QED  BY <1>1, SumTakeOut

\* A sum of natural numbers is one, and no less than any of them.
LEMMA SumNat ==
    ASSUME NEW f, NEW S, IsFiniteSet(S), \A x \in S : f[x] \in Nat
    PROVE  /\ SumFunctionOnSet(f, S) \in Nat
           /\ \A x \in S : f[x] <= SumFunctionOnSet(f, S)
<1> DEFINE Sum(U) == SumFunctionOnSet(f, U)
           Bad == {U \in SUBSET S : Sum(U) \notin Nat}
<1>1. \A U \in SUBSET S : IsFiniteSet(U) /\ \A x \in U : Sum(U) = f[x] + Sum(U \ {x})
  <2>1. \A U \in SUBSET S : IsFiniteSet(U) /\ \A x \in U : f[x] \in Int
    BY FS_Subset
  <2>2. QED  BY <2>1, SumTakeOut
<1>2. Bad = {}
  <2> SUFFICES ASSUME Bad # {} PROVE FALSE
    OBVIOUS
  <2>1. PICK U \in Bad : \A V \in Bad : V \subseteq U => V = U
    <3>1. Bad \in SUBSET (SUBSET S)  OBVIOUS
    <3> HIDE DEF Bad
    <3>2. QED  BY <3>1, SmallestSubset
  <2>2. CASE U = {}
    BY <2>2, SumEmpty
  <2>3. CASE U # {}
    <3>1. PICK x \in U : TRUE  BY <2>3
    <3>2. Sum(U \ {x}) \in Nat
      BY <2>1, <3>1
    <3>3. Sum(U) = f[x] + Sum(U \ {x}) /\ f[x] \in Nat
      BY <1>1, <3>1
    <3> HIDE DEF Sum
    <3>4. QED  BY <3>2, <3>3
  <2>4. QED  BY <2>2, <2>3
<1>3. ASSUME NEW x \in S PROVE f[x] <= Sum(S)
  <2>1. Sum(S) = f[x] + Sum(S \ {x}) /\ Sum(S \ {x}) \in Nat /\ f[x] \in Nat
    BY <1>1, <1>2
  <2> HIDE DEF Sum
  <2>2. QED  BY <2>1
<1>4. QED  BY <1>2, <1>3

\* What one more element, or one less, does to a sum when the function is
\* written anew and agrees with the old one elsewhere.
LEMMA SumWith ==
    ASSUME NEW f, NEW g, NEW S, IsFiniteSet(S), NEW x, x \notin S, g[x] \in Int,
           \A y \in S : f[y] \in Int /\ g[y] = f[y]
    PROVE  SumFunctionOnSet(g, S \cup {x}) = SumFunctionOnSet(f, S) + g[x]
<1>1. SumFunctionOnSet(g, S \cup {x}) = g[x] + SumFunctionOnSet(g, S)
  BY SumAdd
<1>2. SumFunctionOnSet(g, S) = SumFunctionOnSet(f, S)
  BY SumCongruence
<1>3. SumFunctionOnSet(f, S) \in Int
  BY SumTakeOut
<1>4. QED  BY <1>1, <1>2, <1>3

LEMMA SumWithout ==
    ASSUME NEW f, NEW g, NEW S, IsFiniteSet(S), NEW x \in S,
           \A y \in S : f[y] \in Nat, \A y \in S \ {x} : g[y] = f[y]
    PROVE  /\ SumFunctionOnSet(f, S) \in Nat
           /\ SumFunctionOnSet(g, S \ {x}) = SumFunctionOnSet(f, S) - f[x]
           /\ f[x] <= SumFunctionOnSet(f, S)
<1>1. IsFiniteSet(S \ {x})
  BY FS_RemoveElement
<1>2. SumFunctionOnSet(f, S) = f[x] + SumFunctionOnSet(f, S \ {x})
  BY SumTakeOut
<1>3. SumFunctionOnSet(g, S \ {x}) = SumFunctionOnSet(f, S \ {x})
  BY <1>1, SumCongruence
<1>4. SumFunctionOnSet(f, S) \in Nat /\ f[x] <= SumFunctionOnSet(f, S)
  BY SumNat
<1>5. SumFunctionOnSet(f, S \ {x}) \in Nat
  BY <1>1, SumNat
<1>6. QED  BY <1>2, <1>3, <1>4, <1>5

LEMMA SumZero ==
    ASSUME NEW f, NEW S, IsFiniteSet(S), \A x \in S : f[x] = 0
    PROVE  SumFunctionOnSet(f, S) = 0
<1> DEFINE Bad == {U \in SUBSET S : SumFunctionOnSet(f, U) # 0}
<1> SUFFICES ASSUME Bad # {} PROVE FALSE
  OBVIOUS
<1>1. PICK U \in Bad : IsFiniteSet(U) /\ \A V \in Bad : V \subseteq U => V = U
  <2>1. Bad \in SUBSET (SUBSET S)  OBVIOUS
  <2> HIDE DEF Bad
  <2>2. QED  BY <2>1, SmallestSubset
<1>2. CASE U = {}
  BY <1>2, SumEmpty
<1>3. CASE U # {}
  <2>1. PICK x \in U : SumFunctionOnSet(f, U) = f[x] + SumFunctionOnSet(f, U \ {x})
    BY <1>1, <1>3, SumUnfold
  <2>2. SumFunctionOnSet(f, U \ {x}) = 0 /\ f[x] = 0
    BY <1>1
  <2>3. QED  BY <2>1, <2>2
<1>4. QED  BY <1>2, <1>3

IsLinear(h, a, f, b, g, S) ==
    \A x \in S : f[x] \in Int /\ g[x] \in Int /\ h[x] = a * f[x] + b * g[x]

LEMMA SumLinear ==
    ASSUME NEW f, NEW g, NEW h, NEW S, IsFiniteSet(S), NEW a \in Int, NEW b \in Int,
           IsLinear(h, a, f, b, g, S)
    PROVE  SumFunctionOnSet(h, S) = a * SumFunctionOnSet(f, S) + b * SumFunctionOnSet(g, S)
<1> USE DEF IsLinear
<1> DEFINE F(U) == SumFunctionOnSet(f, U)
           G(U) == SumFunctionOnSet(g, U)
           H(U) == SumFunctionOnSet(h, U)
           Bad == {U \in SUBSET S : H(U) # a * F(U) + b * G(U)}
<1> SUFFICES ASSUME Bad # {} PROVE FALSE
  OBVIOUS
<1>1. PICK U \in Bad : IsFiniteSet(U) /\ \A V \in Bad : V \subseteq U => V = U
  <2>1. Bad \in SUBSET (SUBSET S)  OBVIOUS
  <2> HIDE DEF Bad
  <2>2. QED  BY <2>1, SmallestSubset
<1>2. CASE U = {}
  <2>1. H(U) = 0 /\ F(U) = 0 /\ G(U) = 0
    BY <1>2, SumEmpty
  <2> HIDE DEF F, G, H
  <2>2. QED  BY <2>1
<1>3. CASE U # {}
  <2>1. PICK x \in U : TRUE  BY <1>3
  <2> DEFINE rest == U \ {x}
  <2>2. \A y \in U : f[y] \in Int /\ g[y] \in Int /\ h[y] \in Int
    OBVIOUS
  <2>3. /\ F(U) = f[x] + F(rest) /\ G(U) = g[x] + G(rest) /\ H(U) = h[x] + H(rest)
    BY <1>1, <2>1, <2>2, SumTakeOut
  <2>4. F(rest) \in Int /\ G(rest) \in Int
    <3>1. IsFiniteSet(rest) /\ \A y \in rest : y \in U
      BY <1>1, FS_RemoveElement
    <3>2. QED  BY <2>2, <3>1, SumTakeOut
  <2>5. H(rest) = a * F(rest) + b * G(rest)
    <3>1. rest \in SUBSET S /\ rest # U
      BY <2>1
    <3>2. rest \notin Bad
      <4> HIDE DEF Bad, rest
      <4>1. QED  BY <1>1, <3>1 DEF rest
    <3>3. QED  BY <3>1, <3>2
  <2>6. x \in S /\ U \in Bad
    BY <1>1, <2>1
  <2>7. f[x] \in Int /\ g[x] \in Int /\ h[x] = a * f[x] + b * g[x]
    BY <2>6
  <2>8. \A p, q, r, s \in Int : (a * p + b * q) + (a * r + b * s) = a * (p + r) + b * (q + s)
    OBVIOUS
  <2> HIDE DEF F, G, H, rest
  <2>9. H(U) = a * F(U) + b * G(U)
    BY <2>3, <2>4, <2>5, <2>7, <2>8
  <2>10. QED  BY <2>6, <2>9
<1>4. QED  BY <1>2, <1>3

LEMMA SumMonotone ==
    ASSUME NEW f, NEW g, NEW S, IsFiniteSet(S), \A x \in S : f[x] \in Int /\ g[x] \in Int /\ f[x] <= g[x]
    PROVE  SumFunctionOnSet(f, S) <= SumFunctionOnSet(g, S)
<1> DEFINE d == [x \in S |-> g[x] - f[x]]
           one == 1
<1>1. one \in Int /\ \A x \in S : d[x] \in Nat /\ d[x] \in Int /\ g[x] = one * f[x] + one * d[x]
  OBVIOUS
<1> HIDE DEF d, one
<1>2. SumFunctionOnSet(g, S) = one * SumFunctionOnSet(f, S) + one * SumFunctionOnSet(d, S)
  <2>1. IsLinear(g, one, f, one, d, S)
    BY <1>1 DEF IsLinear
  <2>2. QED  BY <1>1, <2>1, SumLinear
<1>3. SumFunctionOnSet(f, S) \in Int /\ SumFunctionOnSet(d, S) \in Nat
  BY <1>1, SumTakeOut, SumNat
<1>4. QED  BY <1>2, <1>3 DEF one

\* A sum of ones and zeros counts.
LEMMA SumCounts ==
    ASSUME NEW f, NEW S, IsFiniteSet(S), \A x \in S : f[x] \in {0, 1}
    PROVE  SumFunctionOnSet(f, S) = Cardinality({x \in S : f[x] = 1})
<1> DEFINE Ones(U) == {x \in U : f[x] = 1}
           Bad == {U \in SUBSET S : SumFunctionOnSet(f, U) # Cardinality(Ones(U))}
<1> SUFFICES ASSUME Bad # {} PROVE FALSE
  OBVIOUS
<1>1. PICK U \in Bad : IsFiniteSet(U) /\ \A V \in Bad : V \subseteq U => V = U
  <2>1. Bad \in SUBSET (SUBSET S)  OBVIOUS
  <2> HIDE DEF Bad
  <2>2. QED  BY <2>1, SmallestSubset
<1>2. U \in SUBSET S /\ SumFunctionOnSet(f, U) # Cardinality(Ones(U))
  OBVIOUS
<1>3. CASE U = {}
  <2>1. Ones(U) = {}
    BY <1>3
  <2>2. QED  BY <1>2, <1>3, <2>1, SumEmpty, FS_EmptySet
<1>4. CASE U # {}
  <2>1. PICK x \in U : TRUE  BY <1>4
  <2> DEFINE rest == U \ {x}
  <2>2. rest \in SUBSET S /\ rest # U /\ IsFiniteSet(rest)
    BY <1>1, <1>2, <2>1, FS_RemoveElement
  <2>3. rest \notin Bad
    <3> HIDE DEF Bad, rest
    <3>1. QED  BY <1>1, <2>2 DEF rest
  <2>4. SumFunctionOnSet(f, rest) = Cardinality(Ones(rest))
    BY <2>2, <2>3
  <2>5. SumFunctionOnSet(f, U) = f[x] + SumFunctionOnSet(f, rest)
    <3>1. \A y \in U : f[y] \in Int
      BY <1>2
    <3>2. QED  BY <1>1, <2>1, <3>1, SumTakeOut
  <2>6. IsFiniteSet(Ones(rest)) /\ Cardinality(Ones(rest)) \in Nat /\ x \notin Ones(rest)
    BY <2>2, FS_Subset, FS_CardinalityType
  <2>7. CASE f[x] = 1
    <3>1. Ones(U) = Ones(rest) \cup {x}
      BY <2>1, <2>7
    <3> HIDE DEF Ones, rest
    <3>2. Cardinality(Ones(U)) = Cardinality(Ones(rest)) + 1
      BY <2>6, <3>1, FS_AddElement
    <3>3. QED  BY <1>2, <2>4, <2>5, <2>6, <2>7, <3>2
  <2>8. CASE f[x] = 0
    <3>1. Ones(U) = Ones(rest)
      BY <2>1, <2>8
    <3> HIDE DEF Ones, rest
    <3>2. QED  BY <1>2, <2>4, <2>5, <2>6, <2>8, <3>1
  <2>9. QED  BY <1>2, <2>1, <2>7, <2>8
<1>5. QED  BY <1>3, <1>4

\* A set of one element at most is one in which any two are the same.
LEMMA OneAtMost ==
    ASSUME NEW S, IsFiniteSet(S)
    PROVE  Cardinality(S) <= 1 <=> \A x, y \in S : x = y
<1>1. Cardinality(S) \in Nat
  BY FS_CardinalityType
<1>2. ASSUME Cardinality(S) <= 1, NEW x \in S, NEW y \in S PROVE x = y
  <2>1. {x} \subseteq S /\ {x} \cup {y} \subseteq S /\ IsFiniteSet({x}) /\ Cardinality({x}) = 1
    BY FS_Singleton
  <2>2. Cardinality({x}) <= Cardinality(S) /\ (Cardinality(S) = Cardinality({x}) => S = {x})
    BY <2>1, FS_Subset
  <2>3. S = {x}
    BY <1>1, <1>2, <2>1, <2>2
  <2>4. QED  BY <2>3
<1>3. ASSUME \A x, y \in S : x = y PROVE Cardinality(S) <= 1
  <2>1. CASE S = {}
    BY <2>1, FS_EmptySet
  <2>2. CASE S # {}
    <3>1. PICK x \in S : S = {x}
      BY <1>3, <2>2
    <3>2. QED  BY <3>1, FS_Singleton
  <2>3. QED  BY <2>1, <2>2
<1>4. QED  BY <1>2, <1>3

(***************************************************************************)
(* Least and greatest elements                                             *)
(***************************************************************************)

\* Every non-empty set of numbers up to n has a greatest one.
LEMMA GreatestExists ==
    ASSUME NEW n \in Nat, NEW S \in SUBSET (0 .. n), S # {}
    PROVE  \E m \in S : \A x \in S : m >= x
<1> DEFINE T == {n - x : x \in S}
<1>1. T \subseteq Nat /\ T # {}
  <2>1. \A x \in S : n - x \in Nat  OBVIOUS
  <2>2. QED  BY <2>1
<1>2. PICK t \in T : \A y \in T : ~(<<y, t>> \in OpToRel(<, Nat))
  <2> HIDE DEF T
  <2>1. QED  BY <1>1, NatLessThanWellFounded, WFMin
<1>3. PICK m \in S : t = n - m  BY <1>2
<1>4. \A y \in T : ~(y < t)
  <2>1. \A y \in T : y \in Nat /\ t \in Nat  BY <1>1, <1>2
  <2>2. QED  BY <1>2, <2>1 DEF OpToRel
<1>5. \A x \in S : m >= x
  <2>1. TAKE x \in S
  <2>2. ~(n - x < n - m)  BY <1>3, <1>4
  <2>3. x \in 0 .. n /\ m \in 0 .. n  OBVIOUS
  <2> HIDE DEF T
  <2>4. QED  BY <2>2, <2>3
<1>6. QED  BY <1>3, <1>5

\* Every non-empty set of natural numbers has a least one.
LEMMA LeastExists ==
    ASSUME NEW S \in SUBSET Nat, S # {}
    PROVE  \E m \in S : \A x \in S : m <= x
<1>1. PICK m \in S : \A x \in S : ~(<<x, m>> \in OpToRel(<, Nat))
  BY NatLessThanWellFounded, WFMin
<1>2. \A x \in S : x \in Nat /\ m \in Nat
  OBVIOUS
<1>3. \A x \in S : ~(x < m)
  BY <1>1, <1>2 DEF OpToRel
<1>4. \A x \in S : m <= x
  BY <1>2, <1>3
<1>5. QED  BY <1>4

\* A finite set that is ordered strictly has a first element.
LEMMA FirstExists ==
    ASSUME NEW S, IsFiniteSet(S), S # {}, NEW Before,
           \A x, y \in S : x # y => <<x, y>> \in Before \/ <<y, x>> \in Before,
           \A x, y, z \in S : <<x, y>> \in Before /\ <<y, z>> \in Before => <<x, z>> \in Before
    PROVE  \E x \in S : \A y \in S \ {x} : <<x, y>> \in Before
<1> DEFINE First(x, U) == x \in U /\ \A y \in U \ {x} : <<x, y>> \in Before
           Bad == {U \in SUBSET S : U # {} /\ ~ \E x \in U : First(x, U)}
<1> SUFFICES ASSUME Bad # {} PROVE FALSE
  OBVIOUS
<1>1. PICK U \in Bad : \A V \in Bad : V \subseteq U => V = U
  <2>1. Bad \in SUBSET (SUBSET S)  OBVIOUS
  <2> HIDE DEF Bad
  <2>2. QED  BY <2>1, SmallestSubset
<1>2. U \in SUBSET S /\ U # {} /\ ~ \E x \in U : First(x, U)
  OBVIOUS
<1>3. PICK c \in U : TRUE  BY <1>2
<1>4. CASE U \ {c} = {}
  BY <1>2, <1>3, <1>4
<1>5. CASE U \ {c} # {}
  <2>1. PICK m \in U \ {c} : First(m, U \ {c})
    <3>1. U \ {c} \in SUBSET S /\ U \ {c} # U
      BY <1>2, <1>3
    <3>2. U \ {c} \notin Bad
      <4> HIDE DEF Bad
      <4>1. QED  BY <1>1, <3>1
    <3>3. QED  BY <1>5, <3>1, <3>2
  <2>2. <<c, m>> \in Before \/ <<m, c>> \in Before
    BY <1>2, <1>3, <2>1
  <2>3. CASE <<m, c>> \in Before
    BY <1>2, <2>1, <2>3
  <2>4. CASE <<c, m>> \in Before
    <3>1. \A y \in (U \ {c}) \ {m} : <<m, y>> \in Before
      BY <2>1
    <3>2. \A y \in U \ {c} : <<c, y>> \in Before
      BY <1>2, <1>3, <2>1, <2>4, <3>1
    <3>3. QED  BY <1>2, <1>3, <3>2
  <2>5. QED  BY <2>2, <2>3, <2>4
<1>6. QED  BY <1>4, <1>5

IsStrictOrder(Before, S) ==
    /\ \A x, y \in S : x # y => <<x, y>> \in Before \/ <<y, x>> \in Before
    /\ \A x, y, z \in S : <<x, y>> \in Before /\ <<y, z>> \in Before => <<x, z>> \in Before
    /\ \A x \in S : <<x, x>> \notin Before

ElementsBefore(Before, S, x) == {y \in S : <<y, x>> \in Before}

FirstOnes(Before, S, m) == {x \in S : Cardinality(ElementsBefore(Before, S, x)) < m}

\* In a strict order the first m elements are those with less than m before them.
LEMMA FirstElements ==
    ASSUME NEW S, IsFiniteSet(S), NEW Before, IsStrictOrder(Before, S),
           NEW m \in 0 .. Cardinality(S)
    PROVE  Cardinality(FirstOnes(Before, S, m)) = m
<1> USE DEF IsStrictOrder
<1> DEFINE Ahead(x) == ElementsBefore(Before, S, x)
           Firsts(k) == {x \in S : Cardinality(Ahead(x)) < k}
           Bad == {k \in 0 .. Cardinality(S) : Cardinality(Firsts(k)) # k}
<1>1. Cardinality(S) \in Nat /\ \A U \in SUBSET S : IsFiniteSet(U) /\ Cardinality(U) \in Nat
  BY FS_Subset, FS_CardinalityType
<1>2. \A x \in S : Ahead(x) \in SUBSET S
  BY DEF ElementsBefore
<1>3. \A x, y \in S : <<x, y>> \in Before => Ahead(x) \subseteq Ahead(y)
  BY DEF ElementsBefore
<1>4. \A U, V \in SUBSET S : U \subseteq V => Cardinality(U) <= Cardinality(V)
  BY <1>1, FS_Subset
<1> HIDE DEF Ahead
<1>5. Bad = {}
  <2> SUFFICES ASSUME Bad # {} PROVE FALSE
    OBVIOUS
  <2>1. PICK k \in Bad : \A j \in Bad : k <= j
    <3>1. Bad \in SUBSET Nat  BY <1>1
    <3> HIDE DEF Bad
    <3>2. QED  BY <3>1, LeastExists
  <2>2. k \in Nat /\ k <= Cardinality(S) /\ Cardinality(Firsts(k)) # k
    BY <1>1
  <2>3. CASE k = 0
    <3>1. Firsts(0) = {}
      BY <1>1, <1>2
    <3>2. QED  BY <2>2, <2>3, <3>1, FS_EmptySet
  <2>4. CASE k # 0
    <3> DEFINE p == k - 1
               A == Firsts(p)
    <3>1. p \in Nat /\ p < Cardinality(S) /\ k = p + 1 /\ p \in 0 .. Cardinality(S)
      BY <1>1, <2>2, <2>4
    <3>2. Cardinality(A) = p
      <4>1. ~(k <= p)
        BY <3>1
      <4>2. p \notin Bad
        BY <2>1, <4>1
      <4>3. QED  BY <3>1, <4>2
    <3> HIDE DEF p
    <3>3. A \in SUBSET S /\ IsFiniteSet(A) /\ S \ A # {} /\ IsFiniteSet(S \ A)
      <4>1. A \in SUBSET S
        OBVIOUS
      <4>2. A # S
        BY <1>1, <3>1, <3>2
      <4>3. QED  BY <1>1, <4>1, <4>2
    <3>4. PICK x \in S \ A : \A y \in (S \ A) \ {x} : <<x, y>> \in Before
      <4> DEFINE rest == S \ A
      <4>1. /\ IsFiniteSet(rest) /\ rest # {}
            /\ \A y, z \in rest : y # z => <<y, z>> \in Before \/ <<z, y>> \in Before
            /\ \A y, z, w \in rest :
                   <<y, z>> \in Before /\ <<z, w>> \in Before => <<y, w>> \in Before
        BY <3>3
      <4> HIDE DEF A, rest
      <4>2. \E y \in rest : \A z \in rest \ {y} : <<y, z>> \in Before
        BY <4>1, FirstExists
      <4>3. QED  BY <4>2 DEF rest
    <3>5. \A y \in A : <<y, x>> \in Before
      <4> SUFFICES ASSUME NEW y \in A, <<y, x>> \notin Before PROVE FALSE
        OBVIOUS
      <4>1. y \in S /\ x \in S /\ <<x, y>> \in Before /\ Cardinality(Ahead(y)) < p
        BY <3>4
      <4>2. Cardinality(Ahead(x)) <= Cardinality(Ahead(y))
        BY <1>2, <1>3, <1>4, <4>1
      <4>3. Cardinality(Ahead(x)) < p
        BY <1>1, <1>2, <3>1, <4>1, <4>2
      <4>4. QED  BY <3>4, <4>3
    <3>6. Ahead(x) = A
      <4> HIDE DEF A
      <4>1. \A y \in S : <<y, x>> \in Before => y \in A
        BY <3>4
      <4>2. QED  BY <3>3, <3>5, <4>1 DEF Ahead, ElementsBefore
    <3>7. ASSUME NEW y \in (S \ A) \ {x} PROVE ~(Cardinality(Ahead(y)) < k)
      <4> HIDE DEF A
      <4>1. A \cup {x} \in SUBSET S /\ A \cup {x} \subseteq Ahead(y)
        BY <1>3, <3>3, <3>4, <3>6 DEF Ahead, ElementsBefore
      <4>2. Cardinality(A \cup {x}) = p + 1
        BY <3>2, <3>3, <3>4, FS_AddElement
      <4>3. Cardinality(A \cup {x}) <= Cardinality(Ahead(y))
        BY <1>2, <1>4, <4>1
      <4>4. QED  BY <1>1, <1>2, <3>1, <4>2, <4>3
    <3>8. Firsts(k) = A \cup {x}
      <4>1. \A y \in A : Cardinality(Ahead(y)) < k
        BY <1>1, <1>2, <3>1
      <4>2. Cardinality(Ahead(x)) < k
        BY <3>1, <3>2, <3>6
      <4> HIDE DEF A
      <4>3. QED  BY <3>3, <3>4, <3>7, <4>1, <4>2
    <3>9. Cardinality(A \cup {x}) = k
      <4> HIDE DEF A
      <4>1. QED  BY <3>1, <3>2, <3>3, <3>4, FS_AddElement
    <3>10. QED  BY <2>2, <3>8, <3>9
  <2>5. QED  BY <2>3, <2>4
<1>6. Firsts(m) = FirstOnes(Before, S, m)
  BY DEF Ahead, FirstOnes
<1>7. QED  BY <1>5, <1>6

\* Who comes before whom tells how many come before, and each number of them is
\* that of one element.
LEMMA Ranks ==
    ASSUME NEW S, IsFiniteSet(S), NEW Before, IsStrictOrder(Before, S)
    PROVE  /\ \A x \in S : Cardinality(ElementsBefore(Before, S, x)) \in 0 .. Cardinality(S) - 1
           /\ \A x, y \in S : <<x, y>> \in Before =>
                  Cardinality(ElementsBefore(Before, S, x)) < Cardinality(ElementsBefore(Before, S, y))
           /\ \A m \in 0 .. Cardinality(S) - 1 : \E x \in S :
                  Cardinality(ElementsBefore(Before, S, x)) = m
<1> DEFINE Ahead(x) == ElementsBefore(Before, S, x)
<1>1. Cardinality(S) \in Nat /\ \A U \in SUBSET S : IsFiniteSet(U) /\ Cardinality(U) \in Nat
  BY FS_Subset, FS_CardinalityType
<1>2. \A U, V \in SUBSET S : U \subseteq V /\ U # V => Cardinality(U) < Cardinality(V)
  <2>1. \A U, V \in SUBSET S : U \subseteq V =>
            Cardinality(U) <= Cardinality(V) /\ (Cardinality(V) = Cardinality(U) => V = U)
    BY <1>1, FS_Subset
  <2>2. QED  BY <1>1, <2>1
<1>3. \A x \in S : Ahead(x) \in SUBSET S /\ x \notin Ahead(x)
  BY DEF ElementsBefore, IsStrictOrder
<1>4. \A x, y \in S : <<x, y>> \in Before => Ahead(x) \subseteq Ahead(y) /\ x \in Ahead(y)
  BY DEF ElementsBefore, IsStrictOrder
<1> HIDE DEF Ahead
<1>5. \A x \in S : Cardinality(Ahead(x)) \in 0 .. Cardinality(S) - 1
  <2>1. \A x \in S : Cardinality(Ahead(x)) < Cardinality(S)
    BY <1>2, <1>3
  <2>2. QED  BY <1>1, <1>3, <2>1
<1>6. \A x, y \in S : <<x, y>> \in Before => Cardinality(Ahead(x)) < Cardinality(Ahead(y))
  BY <1>2, <1>3, <1>4
<1>7. ASSUME NEW m \in 0 .. Cardinality(S) - 1 PROVE \E x \in S : Cardinality(Ahead(x)) = m
  <2> DEFINE A == FirstOnes(Before, S, m)
             next == m + 1
             B == FirstOnes(Before, S, next)
  <2>1. m \in 0 .. Cardinality(S) /\ next \in 0 .. Cardinality(S) /\ m \in Nat
    BY <1>1
  <2>2. A = {x \in S : Cardinality(Ahead(x)) < m} /\ B = {x \in S : Cardinality(Ahead(x)) < next}
    BY DEF FirstOnes, Ahead
  <2> HIDE DEF next
  <2>3. Cardinality(A) = m /\ Cardinality(B) = next
    BY <2>1, FirstElements
  <2>4. A \in SUBSET S /\ B \in SUBSET S
    BY <2>2
  <2>5. \E x \in B : x \notin A
    <3> SUFFICES ASSUME B \subseteq A PROVE FALSE
      OBVIOUS
    <3> HIDE DEF A, B
    <3>1. Cardinality(B) <= Cardinality(A)
      BY <1>1, <2>4, FS_Subset
    <3>2. QED  BY <2>1, <2>3, <3>1 DEF next
  <2>6. PICK x \in S : Cardinality(Ahead(x)) < next /\ ~(Cardinality(Ahead(x)) < m)
    BY <2>2, <2>5
  <2>7. QED  BY <1>1, <1>3, <2>1, <2>6 DEF next
<1>8. QED  BY <1>5, <1>6, <1>7 DEF Ahead

(***************************************************************************)
(* Folds                                                                   *)
(***************************************************************************)

\* The greatest element of an initial segment is its end.
LEMMA InitialSegments ==
    ASSUME NEW n \in Nat, NEW i \in 1 .. n
    PROVE  /\ 1 .. i \in (SUBSET (1 .. n)) \ {{}}
           /\ Max(1 .. i) = i
           /\ (1 .. i) \ {i} = 1 .. (i - 1)
<1>1. i \in 1 .. i /\ \A y \in 1 .. i : i >= y
  OBVIOUS
<1>2. Max(1 .. i) \in 1 .. i /\ Max(1 .. i) >= i
  BY <1>1 DEF Max
<1>3. Max(1 .. i) = i
  <2>1. \A m \in 1 .. i : m >= i => m = i
    OBVIOUS
  <2>2. QED  BY <1>2, <2>1
<1>4. 1 .. i \in SUBSET (1 .. n) /\ 1 .. i # {}
  BY <1>1
<1>5. (1 .. i) \ {i} = 1 .. (i - 1)
  OBVIOUS
<1>6. QED  BY <1>3, <1>4, <1>5

LEMMA MaxIsElement ==
    ASSUME NEW n \in Nat, NEW s \in SUBSET (1 .. n), s # {}
    PROVE  Max(s) \in s
<1>1. \E m \in s : \A x \in s : m >= x
  <2>1. s \in SUBSET (0 .. n)  OBVIOUS
  <2>2. QED  BY <2>1, GreatestExists
<1>2. QED  BY <1>1 DEF Max

\* What a fold over a list of n elements computes for a set of positions; step
\* takes what has been computed so far and a position.
FoldStep(base, step, g, s) ==
    IF s = {} THEN base ELSE step[<<g[s \ {Max(s)}], Max(s)>>]

\* g folds over n elements, as far as its values are in T.
Folds(g, n, T, base, step) ==
    /\ g[{}] = base
    /\ \A s \in (SUBSET (1 .. n)) \ {{}} :
        g[s \ {Max(s)}] \in T => g[s] = step[<<g[s \ {Max(s)}], Max(s)>>]

\* The values a fold goes through.
Traces(g, n, T, base, step) ==
    /\ \A i \in 0 .. n : g[1 .. i] \in T
    /\ g[1 .. 0] = base
    /\ \A i \in 1 .. n : g[1 .. i] = step[<<g[1 .. (i - 1)], i>>]

\* A fold whose steps stay in T has a solution.
LEMMA FoldExists ==
    ASSUME NEW n \in Nat, NEW T, NEW base \in T, NEW step \in [T \X (1 .. n) -> T]
    PROVE  \E g : g \in [SUBSET (1 .. n) -> T] /\ Folds(g, n, T, base, step)
<1> DEFINE S == 1 .. n
           UpTo(k) == {s \in SUBSET S : Cardinality(s) <= k}
           Part(g, k) == \A s \in UpTo(k) : g[s] = FoldStep(base, step, g, s)
           Bad == {k \in Nat : ~ \E g \in [UpTo(k) -> T] : Part(g, k)}
<1>1. /\ IsFiniteSet(S)
      /\ \A s \in SUBSET S : IsFiniteSet(s) /\ Cardinality(s) \in Nat /\ Cardinality(s) <= Cardinality(S)
  <2>1. IsFiniteSet(S)
    BY FS_Interval
  <2> HIDE DEF S
  <2>2. QED  BY <2>1, FS_Subset, FS_CardinalityType
<1>2. Cardinality(S) \in Nat
  BY <1>1, FS_CardinalityType
<1>3. \A s \in SUBSET S : s # {} => Max(s) \in s
  BY MaxIsElement
<1>4. Bad = {}
  <2> SUFFICES ASSUME Bad # {} PROVE FALSE
    OBVIOUS
  <2>1. PICK k \in Bad : \A m \in Bad : k <= m
    <3>1. Bad \in SUBSET Nat  OBVIOUS
    <3> HIDE DEF Bad
    <3>2. QED  BY <3>1, LeastExists
  <2>2. k \in Nat /\ ~ \E g \in [UpTo(k) -> T] : Part(g, k)
    OBVIOUS
  <2>3. CASE k = 0
    <3> DEFINE h == [s \in UpTo(0) |-> base]
    <3>1. UpTo(0) = {{}}
      BY <1>1, FS_EmptySet
    <3>2. h \in [UpTo(0) -> T]
      OBVIOUS
    <3>3. Part(h, 0)
      BY <3>1 DEF FoldStep
    <3>4. QED  BY <2>2, <2>3, <3>2, <3>3
  <2>4. CASE k # 0
    <3>1. k - 1 \in Nat /\ ~(k <= k - 1)
      BY <2>2, <2>4
    <3>2. k - 1 \notin Bad
      BY <2>1, <3>1
    <3>3. PICK g \in [UpTo(k - 1) -> T] : Part(g, k - 1)
      BY <3>1, <3>2
    <3> DEFINE h == [s \in UpTo(k) |-> FoldStep(base, step, g, s)]
    <3>4. ASSUME NEW s \in UpTo(k), s # {}
          PROVE  s \ {Max(s)} \in UpTo(k - 1) /\ s \ {Max(s)} \in UpTo(k) /\ Max(s) \in S
      <4>1. Max(s) \in s
        BY <3>4, <1>3
      <4>2. Cardinality(s \ {Max(s)}) = Cardinality(s) - 1
        BY <4>1, <1>1, FS_RemoveElement
      <4>3. Cardinality(s) \in Nat /\ Cardinality(s) <= k
        BY <1>1
      <4>4. Cardinality(s \ {Max(s)}) <= k - 1 /\ Cardinality(s \ {Max(s)}) <= k
        BY <2>2, <4>2, <4>3
      <4>5. s \ {Max(s)} \in SUBSET S
        OBVIOUS
      <4> HIDE DEF S
      <4>6. QED  BY <4>1, <4>4, <4>5
    <3>5. \A s \in UpTo(k - 1) : s \in UpTo(k) /\ g[s] = FoldStep(base, step, g, s)
      BY <3>3, <1>1, <2>2
    <3>6. \A s \in UpTo(k - 1) : h[s] = g[s]
      BY <3>5
    <3>7. ASSUME NEW s \in UpTo(k)
          PROVE  FoldStep(base, step, g, s) = FoldStep(base, step, h, s) /\ FoldStep(base, step, g, s) \in T
      <4>1. CASE s = {}
        BY <4>1 DEF FoldStep
      <4>2. CASE s # {}
        <5> DEFINE rest == s \ {Max(s)}
        <5>1. h[rest] = g[rest] /\ g[rest] \in T /\ Max(s) \in S
          BY <3>3, <3>4, <3>6, <4>2
        <5> HIDE DEF h
        <5>2. QED  BY <4>2, <5>1 DEF FoldStep
      <4>3. QED  BY <4>1, <4>2
    <3>8. h \in [UpTo(k) -> T]
      BY <3>7
    <3>9. Part(h, k)
      BY <3>7
    <3>10. QED  BY <2>2, <3>8, <3>9
  <2>5. QED  BY <2>3, <2>4
<1>5. PICK g \in [UpTo(Cardinality(S)) -> T] : Part(g, Cardinality(S))
  BY <1>2, <1>4
<1>6. UpTo(Cardinality(S)) = SUBSET S
  BY <1>1
<1>7. Folds(g, n, T, base, step)
  <2>1. {} \in SUBSET S /\ \A s \in SUBSET S : g[s] = FoldStep(base, step, g, s)
    BY <1>5, <1>6
  <2> HIDE DEF S
  <2>2. g[{}] = base /\ \A s \in (SUBSET S) \ {{}} : g[s] = step[<<g[s \ {Max(s)}], Max(s)>>]
    BY <2>1 DEF FoldStep
  <2> USE DEF S
  <2>3. QED  BY <2>2 DEF Folds
<1>8. QED  BY <1>5, <1>6, <1>7

\* A fold that is known to take steps from values in T has no others.
LEMMA FoldTrace ==
    ASSUME NEW n \in Nat, NEW T, NEW base \in T, NEW step \in [T \X (1 .. n) -> T],
           NEW g, Folds(g, n, T, base, step)
    PROVE  Traces(g, n, T, base, step)
<1>1. 1 .. 0 = {}
  OBVIOUS
<1>2. \A i \in 1 .. n : g[1 .. (i - 1)] \in T => g[1 .. i] = step[<<g[1 .. (i - 1)], i>>]
  BY InitialSegments DEF Folds
<1> DEFINE Bad == {i \in 0 .. n : g[1 .. i] \notin T}
<1>3. Bad = {}
  <2> SUFFICES ASSUME Bad # {} PROVE FALSE
    OBVIOUS
  <2>1. PICK i \in Bad : \A j \in Bad : i <= j
    <3>1. Bad \in SUBSET Nat  OBVIOUS
    <3> HIDE DEF Bad
    <3>2. QED  BY <3>1, LeastExists
  <2>2. i \in 0 .. n /\ g[1 .. i] \notin T
    OBVIOUS
  <2>3. i \in 1 .. n /\ i - 1 \in 0 .. n /\ ~(i <= i - 1)
    BY <1>1, <2>2 DEF Folds
  <2>4. g[1 .. (i - 1)] \in T
    BY <2>1, <2>3
  <2>5. step[<<g[1 .. (i - 1)], i>>] \in T
    BY <2>3, <2>4
  <2>6. QED  BY <1>2, <2>2, <2>3, <2>4, <2>5
<1>4. \A i \in 0 .. n : g[1 .. i] \in T
  BY <1>3
<1>5. \A i \in 1 .. n : i - 1 \in 0 .. n
  OBVIOUS
<1> HIDE DEF Bad
<1>6. \A i \in 1 .. n : g[1 .. i] = step[<<g[1 .. (i - 1)], i>>]
  BY <1>2, <1>4, <1>5
<1>7. QED  BY <1>1, <1>4, <1>6 DEF Folds, Traces
=============================================================================
