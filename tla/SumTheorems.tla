---------------------------- MODULE SumTheorems -----------------------------
(***************************************************************************)
(* Sums over finite sets.  MapThenSumSet is a fold, that is, the value at  *)
(* the whole set of a function on its subsets that is defined by recursion.*)
(* The facts about it rest on the least number of a set of numbers, and so *)
(* do those about the ends of a set of integers.  On these rest the facts  *)
(* about resampling: how the distributions of Bootstrap are mirrored, and  *)
(* that the interval of a resampled sum holds it.                          *)
(***************************************************************************)
EXTENDS Bootstrap, TLAPS, FiniteSetTheorems, WellFoundedInduction

\* A set of natural numbers that is not empty has a least element.
LEMMA LeastNumber ==
    ASSUME NEW B, B \subseteq Nat, B # {}
    PROVE  \E n \in B : \A m \in B : n <= m
<1> DEFINE R == OpToRel(<, Nat)
<1>1. IsWellFoundedOn(R, Nat)
  BY NatLessThanWellFounded
<1> HIDE DEF R
<1>2. PICK n \in B : \A m \in B : ~(<<m, n>> \in R)
  BY <1>1, WFMin
<1>3. \A m \in B : ~(m < n)
  BY <1>2 DEF R, OpToRel
<1> QED
  BY <1>3

\* The image of a finite set is finite.
LEMMA ImageFinite ==
    ASSUME NEW S, IsFiniteSet(S), NEW f
    PROVE  IsFiniteSet({f[x] : x \in S})
<1> DEFINE T == {f[x] : x \in S}
           g == [x \in S |-> f[x]]
<1>1. g \in Surjection(S, T)
  BY DEF Surjection
<1> HIDE DEF T, g
<1>2. IsFiniteSet(T)
  BY <1>1, FS_Surjection
<1> QED
  BY <1>2 DEF T

\* The element that a fold takes out of a set first.
First(s) == CHOOSE x \in s : TRUE

\* g adds up the weights w over the subsets of S.
AddsUp(g, w, S) ==
    g = [s \in SUBSET S |-> IF s = {} THEN 0 ELSE w[First(s)] + g[s \ {First(s)}]]

\* Taking one element out of a finite set.
LEMMA FirstOut ==
    ASSUME NEW S, IsFiniteSet(S), NEW s \in SUBSET S, s # {}
    PROVE  /\ First(s) \in s /\ s \ {First(s)} \in SUBSET S
           /\ Cardinality(s) \in Nat /\ Cardinality(s \ {First(s)}) = Cardinality(s) - 1
<1>1. First(s) \in s
  BY DEF First
<1>2. IsFiniteSet(s)
  BY FS_Subset
<1> QED
  BY <1>1, <1>2, FS_RemoveElement, FS_CardinalityType

\* Induction over the subsets of a finite set: a set G that holds the empty set,
\* and a subset whenever it holds all that are smaller by one element, holds
\* every subset.
LEMMA SubsetInduction ==
    ASSUME NEW S, IsFiniteSet(S), NEW G, {} \in G,
           \A s \in SUBSET S : s # {} /\ (\A x \in s : s \ {x} \in G) => s \in G
    PROVE  \A s \in SUBSET S : s \in G
<1> SUFFICES ASSUME NEW bad \in SUBSET S, bad \notin G PROVE FALSE
  OBVIOUS
<1> DEFINE sizes == {n \in Nat : \E s \in SUBSET S : s \notin G /\ Cardinality(s) = n}
<1>1. \A s \in SUBSET S : IsFiniteSet(s) /\ Cardinality(s) \in Nat
  BY FS_Subset, FS_CardinalityType
<1>2. Cardinality(bad) \in sizes
  BY <1>1
<1>3. PICK n \in sizes : \A m \in sizes : n <= m
  BY <1>2, LeastNumber
<1>4. PICK s \in SUBSET S : s \notin G /\ Cardinality(s) = n
  BY <1>3
<1>5. PICK x \in s : s \ {x} \notin G
  BY <1>4
<1>6. s \ {x} \in SUBSET S /\ Cardinality(s \ {x}) = n - 1
  BY <1>1, <1>4, <1>5, FS_RemoveElement
<1>7. n \in Nat /\ n - 1 \in Nat
  BY <1>1, <1>4, <1>6
<1>8. n - 1 \in sizes
  BY <1>5, <1>6, <1>7
<1>9. n <= n - 1
  BY <1>3, <1>8
<1> QED
  BY <1>7, <1>9

\* Whatever adds up natural numbers is a natural number.
LEMMA SumIsNatural ==
    ASSUME NEW S, NEW w, NEW g, IsFiniteSet(S), \A x \in S : w[x] \in Nat, AddsUp(g, w, S)
    PROVE  \A s \in SUBSET S : g[s] \in Nat
<1> DEFINE G == {s \in SUBSET S : g[s] \in Nat}
<1>1. {} \in G
  BY DEF AddsUp
<1>2. ASSUME NEW s \in SUBSET S, s # {}, \A x \in s : s \ {x} \in G
      PROVE  s \in G
  <2>1. First(s) \in s
    BY <1>2 DEF First
  <2>2. g[s] = w[First(s)] + g[s \ {First(s)}]
    BY <1>2 DEF AddsUp
  <2> QED
    BY <1>2, <2>1, <2>2
<1> HIDE DEF G
<1>3. \A s \in SUBSET S : s \in G
  BY <1>1, <1>2, SubsetInduction
<1> QED
  BY <1>3 DEF G

\* Whatever adds up integers is an integer.
LEMMA SumIsInteger ==
    ASSUME NEW S, NEW w, NEW g, IsFiniteSet(S), \A x \in S : w[x] \in Int, AddsUp(g, w, S)
    PROVE  \A s \in SUBSET S : g[s] \in Int
<1> DEFINE G == {s \in SUBSET S : g[s] \in Int}
<1>1. {} \in G
  BY DEF AddsUp
<1>2. ASSUME NEW s \in SUBSET S, s # {}, \A x \in s : s \ {x} \in G
      PROVE  s \in G
  <2>1. First(s) \in s
    BY <1>2 DEF First
  <2>2. g[s] = w[First(s)] + g[s \ {First(s)}]
    BY <1>2 DEF AddsUp
  <2>3. g[s \ {First(s)}] \in Int /\ w[First(s)] \in Int
    BY <1>2, <2>1
  <2>4. g[s] \in Int
    BY <2>2, <2>3
  <2> QED
    BY <2>4
<1> HIDE DEF G
<1>3. \A s \in SUBSET S : s \in G
  BY <1>1, <1>2, SubsetInduction
<1> QED
  BY <1>3 DEF G

\* The order does not matter: any element may be taken out first.
LEMMA SumAnyOrder ==
    ASSUME NEW S, NEW w, NEW g, IsFiniteSet(S), \A x \in S : w[x] \in Int, AddsUp(g, w, S)
    PROVE  \A s \in SUBSET S : \A x \in s : g[s] = w[x] + g[s \ {x}]
<1> DEFINE G == {s \in SUBSET S : \A x \in s : g[s] = w[x] + g[s \ {x}]}
<1>1. {} \in G
  OBVIOUS
<1>2. ASSUME NEW s \in SUBSET S, s # {}, \A x \in s : s \ {x} \in G
      PROVE  s \in G
  <2> DEFINE f == First(s)
  <2>1. f \in s
    BY <1>2 DEF First
  <2>2. g[s] = w[f] + g[s \ {f}]
    BY <1>2 DEF AddsUp
  <2> HIDE DEF f
  <2> SUFFICES ASSUME NEW x \in s, x # f PROVE g[s] = w[x] + g[s \ {x}]
    BY <2>2
  <2> DEFINE rest == (s \ {f}) \ {x}
  <2>3. rest = (s \ {x}) \ {f} /\ rest \in SUBSET S
    OBVIOUS
  <2>4. g[s \ {f}] = w[x] + g[rest]
    BY <1>2, <2>1
  <2>5. g[s \ {x}] = w[f] + g[rest]
    BY <1>2, <2>1, <2>3
  <2> HIDE DEF rest
  <2>6. g[rest] \in Int /\ w[x] \in Int /\ w[f] \in Int
    BY <2>1, <2>3, SumIsInteger
  <2> QED
    BY <2>2, <2>4, <2>5, <2>6
<1> HIDE DEF G
<1>3. \A s \in SUBSET S : s \in G
  BY <1>1, <1>2, SubsetInduction
<1> QED
  BY <1>3 DEF G

\* A sum is at least every number that it adds.
LEMMA SumBoundsParts ==
    ASSUME NEW S, NEW w, NEW g, IsFiniteSet(S), \A x \in S : w[x] \in Nat, AddsUp(g, w, S)
    PROVE  \A s \in SUBSET S : \A x \in s : w[x] <= g[s]
<1> SUFFICES ASSUME NEW s \in SUBSET S, NEW x \in s PROVE w[x] <= g[s]
  OBVIOUS
<1>1. g[s] = w[x] + g[s \ {x}]
  BY SumAnyOrder
<1>2. g[s \ {x}] \in Nat /\ w[x] \in Nat
  BY SumIsNatural
<1> QED
  BY <1>1, <1>2

\* Smaller weights have a smaller sum.
LEMMA SumIsMonotone ==
    ASSUME NEW S, IsFiniteSet(S), NEW w, NEW v,
           \A x \in S : w[x] \in Nat /\ v[x] \in Nat /\ w[x] <= v[x],
           NEW g, AddsUp(g, w, S), NEW h, AddsUp(h, v, S)
    PROVE  \A s \in SUBSET S : g[s] <= h[s]
<1> DEFINE G == {s \in SUBSET S : g[s] <= h[s]}
<1>1. {} \in G
  BY DEF AddsUp
<1>2. ASSUME NEW s \in SUBSET S, s # {}, \A x \in s : s \ {x} \in G
      PROVE  s \in G
  <2>1. First(s) \in s
    BY <1>2 DEF First
  <2>2. /\ g[s] = w[First(s)] + g[s \ {First(s)}]
        /\ h[s] = v[First(s)] + h[s \ {First(s)}]
    BY <1>2 DEF AddsUp
  <2>3. g[s \ {First(s)}] \in Nat /\ h[s \ {First(s)}] \in Nat
    <3>1. s \ {First(s)} \in SUBSET S
      OBVIOUS
    <3>2. g[s \ {First(s)}] \in Nat
      BY <3>1, SumIsNatural
    <3>3. h[s \ {First(s)}] \in Nat
      BY <3>1, SumIsNatural
    <3> QED
      BY <3>2, <3>3
  <2> QED
    BY <1>2, <2>1, <2>2, <2>3
<1> HIDE DEF G
<1>3. \A s \in SUBSET S : s \in G
  BY <1>1, <1>2, SubsetInduction
<1> QED
  BY <1>3 DEF G

\* Weights of at most 1000 have a mean of at most 1000.
LEMMA SumOfRates ==
    ASSUME NEW S, IsFiniteSet(S), NEW w, \A x \in S : w[x] \in Nat /\ w[x] <= 1000,
           NEW g, AddsUp(g, w, S)
    PROVE  \A s \in SUBSET S : g[s] <= 1000 * Cardinality(s)
<1> DEFINE G == {s \in SUBSET S : g[s] <= 1000 * Cardinality(s)}
<1>1. {} \in G
  <2>1. g[{}] = 0 /\ Cardinality({}) = 0
    BY FS_EmptySet DEF AddsUp
  <2> QED
    BY <2>1
<1>2. ASSUME NEW s \in SUBSET S, s # {}, \A x \in s : s \ {x} \in G
      PROVE  s \in G
  <2>1. First(s) \in s /\ Cardinality(s) \in Nat /\ Cardinality(s \ {First(s)}) = Cardinality(s) - 1
    BY ONLY IsFiniteSet(S), <1>2, FirstOut
  <2>2. g[s] = w[First(s)] + g[s \ {First(s)}]
    BY <1>2, ZenonT(60) DEF AddsUp
  <2>3. s \ {First(s)} \in G /\ g[s \ {First(s)}] \in Nat
    BY <1>2, <2>1, SumIsNatural
  <2>4. g[s \ {First(s)}] <= 1000 * (Cardinality(s) - 1)
    BY <2>1, <2>3
  <2>5. g[s] <= 1000 * Cardinality(s)
    BY <2>1, <2>2, <2>3, <2>4
  <2> QED
    BY <2>5
<1> HIDE DEF G
<1>3. \A s \in SUBSET S : s \in G
  BY <1>1, <1>2, SubsetInduction
<1> QED
  BY <1>3 DEF G

\* Such a function exists: it is built for larger and larger subsets.
LEMMA SumExists ==
    ASSUME NEW S, IsFiniteSet(S), NEW w, \A x \in S : w[x] \in Int
    PROVE  \E g : AddsUp(g, w, S)
<1> DEFINE upto(n) == {s \in SUBSET S : Cardinality(s) <= n}
           Good(g, n) == g = [s \in upto(n) |-> IF s = {} THEN 0 ELSE w[First(s)] + g[s \ {First(s)}]]
           open == {n \in Nat : ~\E g : Good(g, n)}
<1>1. \A s \in SUBSET S : IsFiniteSet(s) /\ Cardinality(s) \in Nat
  BY FS_Subset, FS_CardinalityType
<1>2. open = {}
  <2> SUFFICES ASSUME open # {} PROVE FALSE
    OBVIOUS
  <2>1. PICK n \in open : \A m \in open : n <= m
    BY LeastNumber
  <2>2. n # 0
    <3> SUFFICES ASSUME n = 0 PROVE FALSE
      OBVIOUS
    <3>1. \A s \in upto(0) : s = {}
      BY <1>1, FS_EmptySet
    <3>2. Good([s \in upto(0) |-> 0], 0)
      BY <3>1
    <3> QED
      BY <2>1, <3>2
  <2>3. n - 1 \in Nat
    BY <2>1, <2>2
  <2>4. PICK g : Good(g, n - 1)
    <3>1. ~(n <= n - 1)
      BY <2>1, <2>3
    <3>2. n - 1 \notin open
      BY <2>1, <3>1
    <3> QED
      BY <2>3, <3>2
  <2> DEFINE Value(s) == IF s = {} THEN 0 ELSE w[First(s)] + g[s \ {First(s)}]
             h == [s \in upto(n) |-> Value(s)]
  <2>5. \A s \in upto(n) : s # {} => /\ s \ {First(s)} \in upto(n - 1) /\ s \ {First(s)} \in upto(n)
    <3> SUFFICES ASSUME NEW s \in upto(n), s # {}
                 PROVE  s \ {First(s)} \in upto(n - 1) /\ s \ {First(s)} \in upto(n)
      OBVIOUS
    <3>1. /\ s \ {First(s)} \in SUBSET S /\ Cardinality(s) \in Nat
          /\ Cardinality(s \ {First(s)}) = Cardinality(s) - 1 /\ Cardinality(s) <= n /\ n \in Nat
      BY <2>1, FirstOut
    <3> QED
      BY <3>1
  <2>6. \A s \in upto(n - 1) : s \in upto(n) /\ g[s] = Value(s)
    <3> SUFFICES ASSUME NEW s \in upto(n - 1) PROVE s \in upto(n) /\ g[s] = Value(s)
      OBVIOUS
    <3>1. s \in SUBSET S /\ Cardinality(s) <= n - 1 /\ Cardinality(s) \in Nat /\ n \in Nat
      BY <1>1, <2>1
    <3>2. s \in upto(n)
      BY <3>1
    <3> HIDE DEF upto
    <3>3. g[s] = Value(s)
      BY <2>4
    <3> QED
      BY <3>2, <3>3
  <2> HIDE DEF upto
  <2>7. \A s \in upto(n) : s # {} => h[s \ {First(s)}] = g[s \ {First(s)}]
    BY <2>5, <2>6
  <2>8. Good(h, n)
    BY <2>7
  <2> HIDE DEF Good, h
  <2> QED
    BY <2>1, <2>8
<1>3. Cardinality(S) \in Nat /\ upto(Cardinality(S)) = SUBSET S
  <2>1. Cardinality(S) \in Nat
    BY FS_CardinalityType
  <2>2. \A s \in SUBSET S : Cardinality(s) <= Cardinality(S)
    BY FS_Subset
  <2> QED
    BY <2>1, <2>2
<1>4. PICK g : Good(g, Cardinality(S))
  BY <1>2, <1>3
<1>5. AddsUp(g, w, S)
  BY <1>3, <1>4, Zenon DEF AddsUp
<1> QED
  BY <1>5

\* There is only one, and it does not depend on what the elements are: a one to
\* one map that keeps the weights keeps the sum.
LEMMA SumIsCarried ==
    ASSUME NEW S, IsFiniteSet(S), NEW T, IsFiniteSet(T), NEW w, NEW v,
           \A x \in S : w[x] \in Int, \A y \in T : v[y] \in Int,
           NEW f \in Bijection(S, T), \A x \in S : w[x] = v[f[x]],
           NEW g, AddsUp(g, w, S), NEW h, AddsUp(h, v, T)
    PROVE  g[S] = h[T]
<1> DEFINE Image(s) == {f[x] : x \in s}
           G == {s \in SUBSET S : g[s] = h[Image(s)]}
<1>0. /\ f \in [S -> T]
      /\ \A x, y \in S : f[x] = f[y] => x = y
      /\ Image(S) = T
  BY DEF Bijection, Injection, Surjection, IsInjective
<1>4. ASSUME NEW t \in SUBSET T, NEW y \in t
      PROVE  h[t] = v[y] + h[t \ {y}]
  BY ONLY IsFiniteSet(T), \A z \in T : v[z] \in Int, AddsUp(h, v, T), SumAnyOrder
<1>1. {} \in G
  BY DEF AddsUp
<1>2. ASSUME NEW s \in SUBSET S, s # {}, \A x \in s : s \ {x} \in G
      PROVE  s \in G
  <2> DEFINE x == First(s)
  <2>1. x \in s /\ x \in S
    BY <1>2 DEF First
  <2>2. g[s] = w[x] + g[s \ {x}]
    BY <1>2 DEF AddsUp
  <2> HIDE DEF x
  <2>3. Image(s) \in SUBSET T /\ f[x] \in Image(s)
    BY <1>0, <2>1
  <2>4. Image(s) \ {f[x]} = Image(s \ {x})
    BY <1>0, <2>1
  <2>5. h[Image(s)] = v[f[x]] + h[Image(s) \ {f[x]}]
    <3> HIDE DEF Image
    <3> QED
      BY <1>4, <2>3
  <2>6. g[s \ {x}] = h[Image(s \ {x})]
    BY <1>2, <2>1
  <2>7. g[s] = h[Image(s)]
    BY <2>1, <2>2, <2>4, <2>5, <2>6
  <2> QED
    BY <2>7
<1> HIDE DEF G
<1>3. \A s \in SUBSET S : s \in G
  BY <1>1, <1>2, SubsetInduction
<1>5. S \in G
  BY <1>3
<1>6. g[S] = h[Image(S)]
  BY <1>5 DEF G
<1> QED
  BY <1>0, <1>6

(***************************************************************************)
(* The sum itself.                                                         *)
(***************************************************************************)
Sigma(w, S) == (CHOOSE g : AddsUp(g, w, S))[S]

\* A sum over a finite set of natural numbers exists.
LEMMA SigmaIsSum ==
    ASSUME NEW S, IsFiniteSet(S), NEW w, \A x \in S : w[x] \in Int
    PROVE  \E g : AddsUp(g, w, S) /\ Sigma(w, S) = g[S]
<1>1. \E g : AddsUp(g, w, S)
  BY SumExists
<1>2. AddsUp(CHOOSE g : AddsUp(g, w, S), w, S)
  BY <1>1, Zenon
<1> QED
  BY <1>2, Zenon DEF Sigma

\* It is a natural number, and no summand exceeds it.
LEMMA SigmaNat ==
    ASSUME NEW S, IsFiniteSet(S), NEW w, \A x \in S : w[x] \in Nat
    PROVE  Sigma(w, S) \in Nat /\ \A x \in S : w[x] <= Sigma(w, S)
<1>1. PICK g : AddsUp(g, w, S) /\ Sigma(w, S) = g[S]
  BY SigmaIsSum
<1>2. S \in SUBSET S
  OBVIOUS
<1>3. g[S] \in Nat
  BY <1>1, <1>2, SumIsNatural
<1>4. \A x \in S : w[x] <= g[S]
  BY <1>1, <1>2, SumBoundsParts
<1> QED
  BY <1>1, <1>3, <1>4

\* It grows with its summands.
LEMMA SigmaMonotone ==
    ASSUME NEW S, IsFiniteSet(S), NEW w, NEW v,
           \A x \in S : w[x] \in Nat /\ v[x] \in Nat /\ w[x] <= v[x]
    PROVE  Sigma(w, S) <= Sigma(v, S)
<1>1. PICK g : AddsUp(g, w, S) /\ Sigma(w, S) = g[S]
  BY SigmaIsSum
<1>2. PICK h : AddsUp(h, v, S) /\ Sigma(v, S) = h[S]
  BY SigmaIsSum
<1>3. \A s \in SUBSET S : g[s] <= h[s]
  BY <1>1, <1>2, SumIsMonotone
<1> QED
  BY <1>1, <1>2, <1>3

\* A sum of rates in thousandths is at most 1000 for each element.
LEMMA SigmaOfRates ==
    ASSUME NEW S, IsFiniteSet(S), NEW w, \A x \in S : w[x] \in Nat /\ w[x] <= 1000
    PROVE  Sigma(w, S) <= 1000 * Cardinality(S)
<1>1. PICK g : AddsUp(g, w, S) /\ Sigma(w, S) = g[S]
  BY SigmaIsSum
<1>2. \A s \in SUBSET S : g[s] <= 1000 * Cardinality(s)
  BY <1>1, SumOfRates
<1> QED
  BY <1>1, <1>2

\* A bijection carries a sum.
LEMMA SigmaCarried ==
    ASSUME NEW S, IsFiniteSet(S), NEW T, IsFiniteSet(T), NEW w, NEW v,
           \A x \in S : w[x] \in Int, \A y \in T : v[y] \in Int,
           NEW f \in Bijection(S, T), \A x \in S : w[x] = v[f[x]]
    PROVE  Sigma(w, S) = Sigma(v, T)
<1>1. PICK g : AddsUp(g, w, S) /\ Sigma(w, S) = g[S]
  BY SigmaIsSum
<1>2. PICK h : AddsUp(h, v, T) /\ Sigma(v, T) = h[T]
  BY SigmaIsSum
<1>3. g[S] = h[T]
  BY <1>1, <1>2, SumIsCarried
<1> QED
  BY <1>1, <1>2, <1>3

\* One function adds up one family of weights.
LEMMA SigmaUnique ==
    ASSUME NEW S, NEW w, NEW g, IsFiniteSet(S), \A x \in S : w[x] \in Int, AddsUp(g, w, S)
    PROVE  g[S] = Sigma(w, S)
<1> DEFINE i == [x \in S |-> x]
<1>1. i \in Bijection(S, S) /\ \A x \in S : w[x] = w[i[x]]
  BY DEF Bijection, Injection, Surjection, IsInjective
<1>2. PICK h : AddsUp(h, w, S) /\ Sigma(w, S) = h[S]
  BY SigmaIsSum
<1> HIDE DEF i
<1>3. g[S] = h[S]
  BY <1>1, <1>2, SumIsCarried
<1> QED
  BY <1>2, <1>3

\* The sum of one field of the elements of a set of records or tuples.
FieldOf(S, field) == [x \in S |-> x[field]]

\* The sum over a field that MapThenSumSet forms.
LEMMA SumOfField ==
    ASSUME NEW S, NEW field, IsFiniteSet(S), \A x \in S : x[field] \in Nat
    PROVE  MapThenSumSet(LAMBDA x : x[field], S) = Sigma(FieldOf(S, field), S)
<1> DEFINE w == FieldOf(S, field)
           Step(h) == [s \in SUBSET S |-> IF s = {} THEN 0
                         ELSE (CHOOSE x \in s : TRUE)[field] + h[s \ {CHOOSE x \in s : TRUE}]]
           g == CHOOSE h : h = Step(h)
<1>1. \A s \in SUBSET S : s # {} => w[First(s)] = (CHOOSE x \in s : TRUE)[field]
  BY DEF First, FieldOf
<1>2. \A h : AddsUp(h, w, S) <=> h = Step(h)
  BY <1>1 DEF AddsUp, First
<1>3. \A x \in S : w[x] \in Nat
  BY DEF FieldOf
<1>4. MapThenSumSet(LAMBDA x : x[field], S) = g[S]
  BY Zenon DEF MapThenSumSet, MapThenFoldSet
<1>5. \E h : h = Step(h)
  <2>1. PICK h : AddsUp(h, w, S)
    BY <1>3, SumExists
  <2>2. h = Step(h)
    BY <1>2, <2>1
  <2> HIDE DEF Step
  <2> QED
    BY <2>2
<1>6. AddsUp(g, w, S)
  BY <1>2, <1>5
<1> HIDE DEF g, w, Step
<1>7. g[S] = Sigma(w, S)
  BY <1>3, <1>6, SigmaUnique
<1> QED
  BY <1>4, <1>7 DEF w
\* The sum of a function over a set, as a fold.
LEMMA SumOfFunction ==
    ASSUME NEW S, NEW w, IsFiniteSet(S), \A x \in S : w[x] \in Int
    PROVE  SumFunctionOnSet(w, S) = Sigma(w, S)
<1> DEFINE Step(h) == [s \in SUBSET S |-> IF s = {} THEN 0
                         ELSE w[CHOOSE x \in s : TRUE] + h[s \ {CHOOSE x \in s : TRUE}]]
           g == CHOOSE h : h = Step(h)
<1>1. \A h : AddsUp(h, w, S) <=> h = Step(h)
  BY DEF AddsUp, First
<1>2. SumFunctionOnSet(w, S) = g[S]
  BY Zenon DEF SumFunctionOnSet, FoldFunctionOnSet, MapThenFoldSet
<1>3. \E h : h = Step(h)
  <2>1. PICK h : AddsUp(h, w, S)
    BY SumExists
  <2>2. h = Step(h)
    BY <1>1, <2>1
  <2> HIDE DEF Step
  <2> QED
    BY <2>2
<1>4. AddsUp(g, w, S)
  BY <1>1, <1>3
<1> HIDE DEF g, Step
<1> QED
  BY <1>2, <1>4, SigmaUnique

\* The number of elements of a union of disjoint sets is the sum of their numbers.
LEMMA SigmaOfSizes ==
    ASSUME NEW S, IsFiniteSet(S), NEW T, \A x \in S : IsFiniteSet(T[x]),
           \A x, y \in S : x # y => T[x] \cap T[y] = {},
           NEW w, \A x \in S : w[x] = Cardinality(T[x])
    PROVE  /\ IsFiniteSet(UNION {T[x] : x \in S})
           /\ Cardinality(UNION {T[x] : x \in S}) = Sigma(w, S)
<1> DEFINE U(s) == UNION {T[x] : x \in s}
<1>1. \A x \in S : w[x] \in Nat
  BY FS_CardinalityType
<1>2. PICK g : AddsUp(g, w, S) /\ Sigma(w, S) = g[S]
  BY <1>1, SigmaIsSum
<1> DEFINE G == {s \in SUBSET S : IsFiniteSet(U(s)) /\ Cardinality(U(s)) = g[s]}
<1>3. {} \in G
  <2>1. U({}) = {} /\ g[{}] = 0
    BY <1>2 DEF AddsUp
  <2> HIDE DEF U
  <2> QED
    BY <2>1, FS_EmptySet
<1>4. ASSUME NEW s \in SUBSET S, s # {}, \A x \in s : s \ {x} \in G
      PROVE  s \in G
  <2>1. PICK x \in s : TRUE
    BY <1>4
  <2> DEFINE rest == s \ {x}
  <2>2. U(s) = U(rest) \cup T[x] /\ U(rest) \cap T[x] = {}
    OBVIOUS
  <2>3. g[s] = w[x] + g[rest]
    BY <1>1, <1>2, SumAnyOrder
  <2>4. IsFiniteSet(U(rest)) /\ Cardinality(U(rest)) = g[rest]
    BY <1>4
  <2>5. IsFiniteSet(T[x]) /\ Cardinality(T[x]) = w[x]
    OBVIOUS
  <2> HIDE DEF U, rest
  <2>6. /\ IsFiniteSet(U(rest) \cup T[x])
        /\ Cardinality(U(rest) \cup T[x])
             = Cardinality(U(rest)) + Cardinality(T[x]) - Cardinality(U(rest) \cap T[x])
    BY <2>4, <2>5, FS_Union
  <2>7. /\ IsFiniteSet(U(s))
        /\ Cardinality(U(s)) = Cardinality(U(rest)) + Cardinality(T[x]) - Cardinality({})
    BY <2>2, <2>6
  <2>8. Cardinality({}) = 0 /\ Cardinality(U(rest)) \in Nat /\ Cardinality(T[x]) \in Nat
    BY <2>4, <2>5, FS_EmptySet, FS_CardinalityType
  <2>9. Cardinality(U(s)) = g[s]
    BY <2>3, <2>4, <2>5, <2>7, <2>8
  <2> QED
    BY <2>7, <2>9
<1>5. \A s \in SUBSET S : s \in G
  <2> HIDE DEF G
  <2> QED
    BY <1>3, <1>4, SubsetInduction
<1>6. S \in G
  BY <1>5
<1> QED
  BY <1>2, <1>6

\* The weight of one element changes, and the sum changes with it.
LEMMA SigmaUpdate ==
    ASSUME NEW S, IsFiniteSet(S), NEW w, NEW v, \A y \in S : w[y] \in Nat /\ v[y] \in Nat,
           NEW x \in S, \A y \in S : y # x => v[y] = w[y]
    PROVE  Sigma(w, S) + v[x] = Sigma(v, S) + w[x]
<1>1. PICK g : AddsUp(g, w, S) /\ Sigma(w, S) = g[S]
  BY SigmaIsSum
<1>2. PICK h : AddsUp(h, v, S) /\ Sigma(v, S) = h[S]
  BY SigmaIsSum
<1> DEFINE G == {s \in SUBSET S : /\ x \notin s => g[s] = h[s]
                                  /\ x \in s => g[s] + v[x] = h[s] + w[x]}
<1>3. {} \in G
  BY <1>1, <1>2 DEF AddsUp
<1>4. ASSUME NEW s \in SUBSET S, s # {}, \A y \in s : s \ {y} \in G
      PROVE  s \in G
  <2>1. PICK y \in s : TRUE
    BY <1>4
  <2> DEFINE rest == s \ {y}
  <2>2. g[s] = w[y] + g[rest]
    BY <1>1, SumAnyOrder
  <2>3. h[s] = v[y] + h[rest]
    BY <1>2, SumAnyOrder
  <2>4. /\ w[y] \in Nat /\ v[y] \in Nat /\ w[x] \in Nat /\ v[x] \in Nat
        /\ g[rest] \in Nat /\ h[rest] \in Nat
    <3>1. rest \in SUBSET S
      OBVIOUS
    <3> HIDE DEF rest
    <3> QED
      BY <1>1, <1>2, <3>1, SumIsNatural
  <2>5. /\ x \notin rest => g[rest] = h[rest]
        /\ x \in rest => g[rest] + v[x] = h[rest] + w[x]
    BY <1>4
  <2>6. CASE y = x
    BY <2>2, <2>3, <2>4, <2>5, <2>6
  <2>7. CASE y # x
    <3>1. v[y] = w[y] /\ (x \in rest <=> x \in s)
      BY <2>7
    <3> HIDE DEF rest
    <3> QED
      BY <2>2, <2>3, <2>4, <2>5, <3>1
  <2> QED
    BY <2>6, <2>7
<1> HIDE DEF G
<1>5. \A s \in SUBSET S : s \in G
  BY <1>3, <1>4, SubsetInduction
<1> QED
  BY <1>1, <1>2, <1>5 DEF G

\* Equal weights have equal sums, and nothing adds up to nothing.
LEMMA SigmaSame ==
    ASSUME NEW S, IsFiniteSet(S), NEW w, NEW v, \A y \in S : w[y] \in Nat, \A y \in S : v[y] = w[y]
    PROVE  Sigma(v, S) = Sigma(w, S)
<1>1. Sigma(w, S) <= Sigma(v, S) /\ Sigma(v, S) <= Sigma(w, S)
  BY SigmaMonotone
<1>2. Sigma(w, S) \in Nat /\ Sigma(v, S) \in Nat
  BY SigmaNat
<1> QED
  BY <1>1, <1>2

\* A sum of zeros.
LEMMA SigmaOfNothing ==
    ASSUME NEW S, IsFiniteSet(S), NEW w, \A y \in S : w[y] = 0
    PROVE  Sigma(w, S) = 0
<1> DEFINE T == [y \in S |-> {}]
<1>1. UNION {T[y] : y \in S} = {}
  OBVIOUS
<1>2. IsFiniteSet({}) /\ Cardinality({}) = 0
  BY FS_EmptySet
<1>3. \A y \in S : IsFiniteSet(T[y]) /\ w[y] = Cardinality(T[y])
  BY <1>2
<1>4. \A y, z \in S : T[y] \cap T[z] = {}
  OBVIOUS
<1> HIDE DEF T
<1>5. Cardinality(UNION {T[y] : y \in S}) = Sigma(w, S)
  BY <1>3, <1>4, SigmaOfSizes
<1> QED
  BY <1>1, <1>2, <1>5

\* A sum of positive numbers is positive.
LEMMA SigmaPositive ==
    ASSUME NEW S, IsFiniteSet(S), S # {}, NEW w, \A x \in S : w[x] \in Nat \ {0}
    PROVE  Sigma(w, S) \in Nat \ {0}
<1>1. Sigma(w, S) \in Nat /\ \A x \in S : w[x] <= Sigma(w, S)
  BY SigmaNat
<1> QED
  BY <1>1

\* A part of a sum adds up by itself.
LEMMA SigmaOfPart ==
    ASSUME NEW S, IsFiniteSet(S), NEW w, \A x \in S : w[x] \in Int, NEW g, AddsUp(g, w, S),
           NEW s, s \subseteq S
    PROVE  Sigma(w, s) = g[s]
<1> DEFINE h == [t \in SUBSET s |-> g[t]]
<1>1. AddsUp(h, w, s)
  <2>1. \A t \in SUBSET s : t # {} => First(t) \in t
    BY DEF First
  <2>2. \A t \in SUBSET s : h[t] = IF t = {} THEN 0 ELSE w[First(t)] + h[t \ {First(t)}]
    BY <2>1 DEF AddsUp
  <2> QED
    BY <2>2 DEF AddsUp
<1>2. IsFiniteSet(s) /\ h[s] = g[s] /\ \A x \in s : w[x] \in Int
  BY FS_Subset
<1> HIDE DEF h
<1> QED
  BY <1>1, <1>2, SigmaUnique

\* A sum splits into the sums over two parts.
LEMMA SigmaSplit ==
    ASSUME NEW S, IsFiniteSet(S), NEW w, \A x \in S : w[x] \in Int, NEW P, P \subseteq S,
           NEW R, R = S \ P
    PROVE  Sigma(w, S) = Sigma(w, P) + Sigma(w, R)
<1>1. PICK g : AddsUp(g, w, S) /\ Sigma(w, S) = g[S]
  BY SigmaIsSum
<1> DEFINE G == {s \in SUBSET S : g[s] = g[s \cap P] + g[s \ P]}
<1>0. ASSUME NEW t \in SUBSET S, NEW x \in t
      PROVE  g[t] = w[x] + g[t \ {x}] /\ g[t \ {x}] \in Int /\ w[x] \in Int
  <2>1. g[t] = w[x] + g[t \ {x}]
    BY <1>1, SumAnyOrder
  <2>2. t \ {x} \in SUBSET S
    OBVIOUS
  <2>3. g[t \ {x}] \in Int
    BY <1>1, <2>2, SumIsInteger
  <2> QED
    BY <2>1, <2>3
<1>2. {} \in G
  BY <1>1 DEF AddsUp
<1>3. ASSUME NEW s \in SUBSET S, s # {}, \A x \in s : s \ {x} \in G
      PROVE  s \in G
  <2>1. PICK x \in s : TRUE
    BY <1>3
  <2> DEFINE rest == s \ {x}
             in == s \cap P
             out == s \ P
  <2>2. g[s] = w[x] + g[rest] /\ g[rest] = g[rest \cap P] + g[rest \ P]
    BY <1>0, <1>3
  <2>3. in \in SUBSET S /\ out \in SUBSET S
    OBVIOUS
  <2>4. g[in] \in Int /\ g[out] \in Int
    <3> HIDE DEF in, out
    <3> QED
      BY <1>1, <2>3, SumIsInteger
  <2>5. g[rest \cap P] \in Int /\ g[rest \ P] \in Int
    <3>1. rest \cap P \in SUBSET S /\ rest \ P \in SUBSET S
      OBVIOUS
    <3> HIDE DEF rest
    <3> QED
      BY <1>1, <3>1, SumIsInteger
  <2>6. CASE x \in P
    <3>1. x \in in /\ in \ {x} = rest \cap P /\ out = rest \ P
      BY <2>6
    <3> HIDE DEF in, out, rest
    <3>2. g[in] = w[x] + g[in \ {x}] /\ g[in \ {x}] \in Int /\ w[x] \in Int
      BY <1>0, <2>3, <3>1
    <3>3. g[in] = w[x] + g[rest \cap P] /\ g[out] = g[rest \ P]
      BY <3>1, <3>2
    <3>4. g[s] = g[in] + g[out]
      BY ONLY <2>2, <2>5, <3>2, <3>3
    <3> QED
      BY <3>4 DEF in, out
  <2>7. CASE x \notin P
    <3>1. x \in out /\ out \ {x} = rest \ P /\ in = rest \cap P
      BY <2>7
    <3> HIDE DEF in, out, rest
    <3>2. g[out] = w[x] + g[out \ {x}] /\ g[out \ {x}] \in Int /\ w[x] \in Int
      BY <1>0, <2>3, <3>1
    <3>3. g[out] = w[x] + g[rest \ P] /\ g[in] = g[rest \cap P]
      BY <3>1, <3>2
    <3>4. g[s] = g[in] + g[out]
      BY ONLY <2>2, <2>5, <3>2, <3>3
    <3> QED
      BY <3>4 DEF in, out
  <2> QED
    BY <2>6, <2>7
<1> HIDE DEF G
<1>4. \A s \in SUBSET S : s \in G
  BY <1>2, <1>3, SubsetInduction
<1>5. g[S] = g[S \cap P] + g[S \ P]
  BY <1>4 DEF G
<1>6. S \cap P = P /\ R \subseteq S
  OBVIOUS
<1>7. Sigma(w, P) = g[P]
  BY <1>1, SigmaOfPart
<1>8. Sigma(w, R) = g[R]
  BY <1>1, <1>6, SigmaOfPart
<1> QED
  BY <1>1, <1>5, <1>6, <1>7, <1>8

\* A sum of integers is one, and the negated sum is the sum of the negatives.
LEMMA SigmaNegated ==
    ASSUME NEW S, IsFiniteSet(S), NEW w, NEW v, \A x \in S : w[x] \in Int /\ v[x] = -w[x]
    PROVE  Sigma(w, S) \in Int /\ Sigma(v, S) = -Sigma(w, S)
<1>1. PICK g : AddsUp(g, w, S) /\ Sigma(w, S) = g[S]
  BY SigmaIsSum
<1>2. \A s \in SUBSET S : g[s] \in Int
  BY <1>1, SumIsInteger
<1> DEFINE h == [s \in SUBSET S |-> 0 - g[s]]
<1>3. AddsUp(h, v, S)
  <2>1. ASSUME NEW s \in SUBSET S, s # {}
        PROVE  0 - g[s] = v[First(s)] + (0 - g[s \ {First(s)}])
    <3>1. First(s) \in s
      BY <2>1 DEF First
    <3>2. g[s] = w[First(s)] + g[s \ {First(s)}]
      BY <1>1, <2>1 DEF AddsUp
    <3>3. g[s \ {First(s)}] \in Int /\ w[First(s)] \in Int /\ v[First(s)] = -w[First(s)]
      BY <1>2, <3>1
    <3> QED
      BY <3>2, <3>3
  <2>2. 0 - g[{}] = 0
    <3>1. g[{}] = 0
      BY <1>1 DEF AddsUp
    <3> QED
      BY <3>1
  <2>3. \A s \in SUBSET S : s # {} => s \ {First(s)} \in SUBSET S
    OBVIOUS
  <2>4. \A s \in SUBSET S : h[s] = IF s = {} THEN 0 ELSE v[First(s)] + h[s \ {First(s)}]
    BY <2>1, <2>2, <2>3
  <2> QED
    BY <2>4 DEF AddsUp
<1>4. h[S] = 0 - g[S] /\ \A x \in S : v[x] \in Int
  OBVIOUS
<1> HIDE DEF h
<1>5. h[S] = Sigma(v, S)
  BY <1>3, <1>4, SigmaUnique
<1> QED
  BY <1>1, <1>2, <1>4, <1>5

-----------------------------------------------------------------------------
(***************************************************************************)
(* The ends of a finite set of integers.                                   *)
(***************************************************************************)

\* A finite set of integers has a greatest element.
LEMMA Greatest ==
    ASSUME NEW S, IsFiniteSet(S), S \subseteq Int, S # {}
    PROVE  Max(S) \in S /\ \A x \in S : x <= Max(S)
<1> DEFINE G == {s \in SUBSET S : s # {} => \E m \in s : \A x \in s : m >= x}
<1>1. {} \in G
  OBVIOUS
<1>2. ASSUME NEW s \in SUBSET S, s # {}, \A x \in s : s \ {x} \in G
      PROVE  s \in G
  <2>1. PICK x \in s : TRUE
    BY <1>2
  <2>2. CASE s \ {x} = {}
    BY <2>1, <2>2
  <2>3. CASE s \ {x} # {}
    <3>1. PICK m \in s \ {x} : \A y \in s \ {x} : m >= y
      BY <1>2, <2>3
    <3>2. m \in Int /\ x \in Int /\ \A y \in s : y \in Int
      OBVIOUS
    <3>3. CASE m >= x
      BY <3>1, <3>2, <3>3
    <3>4. CASE ~(m >= x)
      BY <3>1, <3>2, <3>4
    <3> QED
      BY <3>3, <3>4
  <2> QED
    BY <2>2, <2>3
<1> HIDE DEF G
<1>3. \A s \in SUBSET S : s \in G
  BY <1>1, <1>2, SubsetInduction
<1>4. \E m \in S : \A x \in S : m >= x
  BY <1>3 DEF G
<1>5. Max(S) \in S /\ \A x \in S : Max(S) >= x
  BY <1>4, Zenon DEF Max
<1> QED
  BY <1>5

\* A finite set of integers has a least element.
LEMMA Least ==
    ASSUME NEW S, IsFiniteSet(S), S \subseteq Int, S # {}
    PROVE  Min(S) \in S /\ \A x \in S : Min(S) <= x
<1> DEFINE G == {s \in SUBSET S : s # {} => \E m \in s : \A x \in s : m <= x}
<1>1. {} \in G
  OBVIOUS
<1>2. ASSUME NEW s \in SUBSET S, s # {}, \A x \in s : s \ {x} \in G
      PROVE  s \in G
  <2>1. PICK x \in s : TRUE
    BY <1>2
  <2>2. CASE s \ {x} = {}
    BY <2>1, <2>2
  <2>3. CASE s \ {x} # {}
    <3>1. PICK m \in s \ {x} : \A y \in s \ {x} : m <= y
      BY <1>2, <2>3
    <3>2. m \in Int /\ x \in Int /\ \A y \in s : y \in Int
      OBVIOUS
    <3>3. CASE m <= x
      BY <3>1, <3>2, <3>3
    <3>4. CASE ~(m <= x)
      BY <3>1, <3>2, <3>4
    <3> QED
      BY <3>3, <3>4
  <2> QED
    BY <2>2, <2>3
<1> HIDE DEF G
<1>3. \A s \in SUBSET S : s \in G
  BY <1>1, <1>2, SubsetInduction
<1>4. \E m \in S : \A x \in S : m <= x
  BY <1>3 DEF G
<1>5. Min(S) \in S /\ \A x \in S : Min(S) <= x
  BY <1>4, Zenon DEF Min
<1> QED
  BY <1>5

-----------------------------------------------------------------------------
(***************************************************************************)
(* Distributions: the operators of Bootstrap.                              *)
(***************************************************************************)

\* A table is the function it tabulates.
LEMMA TableIsFunction ==
    ASSUME NEW f
    PROVE  Table(f) = f
BY DEF Table

\* A distribution: finitely many values, each with a positive weight.
Dist(f) ==
    /\ f = [x \in DOMAIN f |-> f[x]]
    /\ DOMAIN f \subseteq Int /\ IsFiniteSet(DOMAIN f) /\ DOMAIN f # {}
    /\ \A x \in DOMAIN f : f[x] \in Nat \ {0}

\* Functions with the same domain and values are equal.
LEMMA SameFunction ==
    ASSUME NEW f, NEW g, f = [x \in DOMAIN f |-> f[x]], g = [x \in DOMAIN g |-> g[x]],
           DOMAIN f = DOMAIN g, \A x \in DOMAIN f : f[x] = g[x]
    PROVE  f = g
OBVIOUS

\* The total weight of a distribution is positive.
LEMMA TotalOfDist ==
    ASSUME NEW f, Dist(f)
    PROVE  TotalWeight(f) = Sigma(f, DOMAIN f) /\ TotalWeight(f) \in Nat \ {0}
<1> DEFINE S == DOMAIN f
<1>1. IsFiniteSet(S) /\ S # {} /\ \A x \in S : f[x] \in Nat \ {0}
  BY DEF Dist
<1>2. TotalWeight(f) = SumFunctionOnSet(f, S)
  BY DEF TotalWeight, SumFunction
<1> HIDE DEF S
<1>3. SumFunctionOnSet(f, S) = Sigma(f, S)
  BY <1>1, SumOfFunction
<1>4. Sigma(f, S) \in Nat \ {0}
  BY <1>1, SigmaPositive
<1> QED
  BY <1>2, <1>3, <1>4 DEF S

\* The negatives of a set.
Opposite(S) == {-x : x \in S}

\* Taking negatives is one to one.
LEMMA OppositeSet ==
    ASSUME NEW S, S \subseteq Int
    PROVE  /\ Opposite(S) \subseteq Int
           /\ \A x : x \in Opposite(S) <=> x \in Int /\ -x \in S
           /\ [x \in S |-> -x] \in Bijection(S, Opposite(S))
           /\ IsFiniteSet(S) => IsFiniteSet(Opposite(S))
<1>1. \A x : x \in Opposite(S) <=> x \in Int /\ -x \in S
  BY DEF Opposite
<1>2. [x \in S |-> -x] \in Bijection(S, Opposite(S))
  <2> DEFINE f == [x \in S |-> -x]
  <2>1. f \in [S -> Opposite(S)] /\ \A y \in Opposite(S) : \E x \in S : f[x] = y
    BY DEF Opposite
  <2>2. \A x, y \in S : f[x] = f[y] => x = y
    OBVIOUS
  <2> QED
    BY <2>1, <2>2 DEF Bijection, Injection, Surjection, IsInjective
<1>3. IsFiniteSet(S) => IsFiniteSet(Opposite(S))
  BY <1>2, FS_Bijection DEF ExistsBijection
<1> QED
  BY <1>1, <1>2, <1>3

\* Negated mirrors a distribution.
LEMMA NegatedDist ==
    ASSUME NEW f, Dist(f)
    PROVE  /\ Dist(Negated(f)) /\ DOMAIN Negated(f) = Opposite(DOMAIN f)
           /\ \A x \in DOMAIN f : -x \in DOMAIN Negated(f) /\ Negated(f)[-x] = f[x]
           /\ \A x \in DOMAIN Negated(f) : -x \in DOMAIN f /\ Negated(f)[x] = f[-x]
           /\ Negated(Negated(f)) = f
<1> DEFINE S == DOMAIN f
           T == Opposite(S)
<1>1. S \subseteq Int /\ IsFiniteSet(S) /\ S # {} /\ \A x \in S : f[x] \in Nat \ {0}
  BY DEF Dist
<1>2. Negated(f) = [x \in T |-> f[-x]]
  BY TableIsFunction DEF Negated, Opposite
<1>3. /\ T \subseteq Int /\ IsFiniteSet(T)
      /\ \A x : x \in T <=> x \in Int /\ -x \in S
  BY <1>1, OppositeSet
<1>4. \A x \in Int : -x \in Int /\ -(-x) = x
  OBVIOUS
<1>5. \A x \in S : -x \in T /\ -(-x) = x
  BY <1>1, <1>3, <1>4
<1>6. T # {}
  BY <1>1, <1>5
<1>7. \A x \in T : f[-x] \in Nat \ {0} /\ -x \in S
  BY <1>1, <1>3
<1>8. Opposite(T) = S
  <2>1. \A x : x \in Opposite(T) <=> x \in Int /\ -x \in T
    BY <1>3, OppositeSet
  <2>2. \A x : x \in Opposite(T) <=> x \in S
    BY <1>1, <1>3, <1>4, <2>1
  <2> QED
    BY <2>2
<1> HIDE DEF S, T
<1>9. Dist(Negated(f)) /\ DOMAIN Negated(f) = T
  BY <1>2, <1>3, <1>6, <1>7 DEF Dist
<1>10. Negated(Negated(f)) = [x \in S |-> Negated(f)[-x]]
  BY <1>8, <1>9, TableIsFunction DEF Negated, Opposite
<1>11. \A x \in S : Negated(f)[-x] = f[x]
  BY <1>2, <1>5
<1>12. f = [x \in S |-> f[x]]
  BY DEF Dist, S
<1>13. Negated(Negated(f)) = f
  BY <1>10, <1>11, <1>12
<1> QED
  BY <1>2, <1>5, <1>7, <1>9, <1>11, <1>13 DEF S, T

\* The first draws that a sum of s can begin with, and their weights.
Parts(f, g, s) == {a \in DOMAIN f : s - a \in DOMAIN g}
Ways(f, g, s) == [a \in Parts(f, g, s) |-> f[a] * g[s - a]]
Sums(f, g) == {a + b : a \in DOMAIN f, b \in DOMAIN g}

\* A product of positive numbers is positive.
LEMMA PositiveProduct ==
    ASSUME NEW m \in Nat \ {0}, NEW n \in Nat \ {0}
    PROVE  m * n \in Nat \ {0}
OBVIOUS

\* The parts of a sum.
LEMMA WaysOfDist ==
    ASSUME NEW f, Dist(f), NEW g, Dist(g), NEW s
    PROVE  /\ IsFiniteSet(Parts(f, g, s)) /\ DOMAIN Ways(f, g, s) = Parts(f, g, s)
           /\ \A a \in Parts(f, g, s) :
                /\ a \in DOMAIN f /\ s - a \in DOMAIN g
                /\ Ways(f, g, s)[a] = f[a] * g[s - a] /\ Ways(f, g, s)[a] \in Nat \ {0}
           /\ s \in Sums(f, g) => s \in Int /\ Parts(f, g, s) # {}
<1>1. IsFiniteSet(Parts(f, g, s))
  BY FS_Subset DEF Parts, Dist
<1>2. ASSUME NEW a \in Parts(f, g, s)
      PROVE  /\ a \in DOMAIN f /\ s - a \in DOMAIN g
             /\ Ways(f, g, s)[a] = f[a] * g[s - a] /\ Ways(f, g, s)[a] \in Nat \ {0}
  <2>1. a \in DOMAIN f /\ s - a \in DOMAIN g /\ Ways(f, g, s)[a] = f[a] * g[s - a]
    BY DEF Parts, Ways
  <2>2. f[a] \in Nat \ {0} /\ g[s - a] \in Nat \ {0}
    BY <2>1 DEF Dist
  <2> QED
    BY <2>1, <2>2, PositiveProduct
<1>3. ASSUME s \in Sums(f, g) PROVE s \in Int /\ Parts(f, g, s) # {}
  <2>1. PICK a \in DOMAIN f, b \in DOMAIN g : s = a + b
    BY <1>3 DEF Sums
  <2>2. a \in Int /\ b \in Int
    BY DEF Dist
  <2>3. s - a = b
    BY <2>1, <2>2
  <2> QED
    BY <2>1, <2>2, <2>3 DEF Parts
<1> QED
  BY <1>1, <1>2, <1>3 DEF Ways

\* The sum of two draws is a distribution.
LEMMA PlusDist ==
    ASSUME NEW f, Dist(f), NEW g, Dist(g)
    PROVE  /\ Dist(Plus(f, g)) /\ DOMAIN Plus(f, g) = Sums(f, g)
           /\ \A s \in Sums(f, g) : Plus(f, g)[s] = Sigma(Ways(f, g, s), Parts(f, g, s))
<1>1. Plus(f, g) = [s \in Sums(f, g) |-> SumFunction(Ways(f, g, s))]
  BY TableIsFunction DEF Plus, Sums, Ways, Parts
<1>2. ASSUME NEW s \in Sums(f, g)
      PROVE  /\ s \in Int /\ Plus(f, g)[s] = Sigma(Ways(f, g, s), Parts(f, g, s))
             /\ Plus(f, g)[s] \in Nat \ {0}
  <2> DEFINE P == Parts(f, g, s)
             w == Ways(f, g, s)
  <2>1. /\ IsFiniteSet(P) /\ DOMAIN w = P /\ P # {} /\ s \in Int
        /\ \A a \in P : w[a] \in Nat \ {0}
    BY WaysOfDist
  <2>2. Plus(f, g)[s] = SumFunctionOnSet(w, DOMAIN w)
    BY <1>1 DEF SumFunction
  <2> HIDE DEF P, w
  <2>3. SumFunctionOnSet(w, P) = Sigma(w, P)
    BY <2>1, SumOfFunction
  <2>4. Sigma(w, P) \in Nat \ {0}
    BY <2>1, SigmaPositive
  <2> QED
    BY <2>1, <2>2, <2>3, <2>4 DEF P, w
<1>3. IsFiniteSet(Sums(f, g))
  <2> DEFINE S == (DOMAIN f) \X (DOMAIN g)
             h == [p \in S |-> p[1] + p[2]]
  <2>1. IsFiniteSet(S)
    BY FS_Product DEF Dist
  <2>2. Sums(f, g) = {h[p] : p \in S}
    <3>1. \A a \in DOMAIN f, b \in DOMAIN g : <<a, b>> \in S /\ h[<<a, b>>] = a + b
      OBVIOUS
    <3>2. \A p \in S : p[1] \in DOMAIN f /\ p[2] \in DOMAIN g /\ h[p] = p[1] + p[2]
      OBVIOUS
    <3> HIDE DEF S, h
    <3>3. ASSUME NEW x \in Sums(f, g) PROVE x \in {h[p] : p \in S}
      <4>1. PICK a \in DOMAIN f, b \in DOMAIN g : x = a + b
        BY DEF Sums
      <4> DEFINE p == <<a, b>>
      <4>2. p \in S /\ x = h[p]
        BY <3>1, <4>1
      <4> HIDE DEF p
      <4> QED
        BY <4>2
    <3>4. \A x : x \in {h[p] : p \in S} => x \in Sums(f, g)
      BY <3>2 DEF Sums
    <3> QED
      BY <3>3, <3>4
  <2> HIDE DEF S, h
  <2> QED
    BY <2>1, <2>2, ImageFinite
<1>4. Sums(f, g) # {}
  <2>1. PICK a \in DOMAIN f, b \in DOMAIN g : TRUE
    BY DEF Dist
  <2>2. a + b \in Sums(f, g)
    BY <2>1 DEF Sums
  <2> QED
    BY <2>2
<1> QED
  BY <1>1, <1>2, <1>3, <1>4 DEF Dist

\* The mirrored sum is the sum of the mirrored draws.
LEMMA PlusNegated ==
    ASSUME NEW f, Dist(f), NEW g, Dist(g)
    PROVE  Negated(Plus(f, g)) = Plus(Negated(f), Negated(g))
<1> DEFINE nf == Negated(f)
           ng == Negated(g)
<1>1. DOMAIN f \subseteq Int /\ DOMAIN g \subseteq Int
  BY DEF Dist
<1>2. /\ Dist(nf) /\ DOMAIN nf = Opposite(DOMAIN f)
      /\ \A x \in DOMAIN nf : -x \in DOMAIN f /\ nf[x] = f[-x]
      /\ \A x \in DOMAIN f : -x \in DOMAIN nf /\ nf[-x] = f[x]
  BY NegatedDist
<1>3. /\ Dist(ng) /\ DOMAIN ng = Opposite(DOMAIN g)
      /\ \A x \in DOMAIN ng : -x \in DOMAIN g /\ ng[x] = g[-x]
      /\ \A x \in DOMAIN g : -x \in DOMAIN ng /\ ng[-x] = g[x]
  BY NegatedDist
<1>4. DOMAIN nf \subseteq Int /\ DOMAIN ng \subseteq Int
  BY <1>2, <1>3 DEF Dist
<1> HIDE DEF nf, ng
<1>5. Sums(nf, ng) = Opposite(Sums(f, g))
  <2>1. ASSUME NEW a \in DOMAIN nf, NEW b \in DOMAIN ng
        PROVE  a + b \in Opposite(Sums(f, g))
    <3>1. -a \in DOMAIN f /\ -b \in DOMAIN g /\ a + b = -((-a) + (-b))
      BY <1>2, <1>3, <1>4
    <3> QED
      BY <3>1 DEF Sums, Opposite
  <2>2. ASSUME NEW a \in DOMAIN f, NEW b \in DOMAIN g
        PROVE  -(a + b) \in Sums(nf, ng)
    <3>1. -a \in DOMAIN nf /\ -b \in DOMAIN ng /\ -(a + b) = (-a) + (-b)
      BY <1>1, <1>2, <1>3
    <3> QED
      BY <3>1 DEF Sums
  <2> QED
    BY <2>1, <2>2 DEF Sums, Opposite
<1>6. /\ Dist(Plus(f, g)) /\ DOMAIN Plus(f, g) = Sums(f, g)
      /\ \A s \in Sums(f, g) : Plus(f, g)[s] = Sigma(Ways(f, g, s), Parts(f, g, s))
  BY PlusDist
<1>7. /\ Dist(Plus(nf, ng)) /\ DOMAIN Plus(nf, ng) = Sums(nf, ng)
      /\ \A s \in Sums(nf, ng) : Plus(nf, ng)[s] = Sigma(Ways(nf, ng, s), Parts(nf, ng, s))
  BY <1>2, <1>3, PlusDist
<1>8. /\ Dist(Negated(Plus(f, g))) /\ DOMAIN Negated(Plus(f, g)) = Sums(nf, ng)
      /\ \A s \in Sums(nf, ng) : -s \in Sums(f, g) /\ Negated(Plus(f, g))[s] = Plus(f, g)[-s]
  BY <1>5, <1>6, NegatedDist
<1>9. ASSUME NEW s \in Sums(nf, ng)
      PROVE  Sigma(Ways(nf, ng, s), Parts(nf, ng, s)) = Sigma(Ways(f, g, -s), Parts(f, g, -s))
  <2> DEFINE P == Parts(nf, ng, s)
             Q == Parts(f, g, -s)
             w == Ways(nf, ng, s)
             v == Ways(f, g, -s)
             h == [a \in P |-> -a]
  <2>1. /\ IsFiniteSet(P) /\ s \in Int
        /\ \A a \in P : a \in DOMAIN nf /\ s - a \in DOMAIN ng /\ w[a] = nf[a] * ng[s - a] /\ w[a] \in Nat
    BY <1>2, <1>3, WaysOfDist
  <2>2. /\ IsFiniteSet(Q)
        /\ \A a \in Q : a \in DOMAIN f /\ -s - a \in DOMAIN g /\ v[a] = f[a] * g[-s - a] /\ v[a] \in Nat
    BY WaysOfDist
  <2>3. \A a \in P : -a \in Q /\ -(-a) = a /\ -s - (-a) = -(s - a)
    <3> SUFFICES ASSUME NEW a \in P PROVE -a \in Q /\ -(-a) = a /\ -s - (-a) = -(s - a)
      OBVIOUS
    <3>1. a \in Int /\ s \in Int
      BY <1>4, <2>1
    <3>2. -(-a) = a /\ -s - (-a) = -(s - a)
      BY <3>1
    <3>3. -a \in DOMAIN f /\ -(s - a) \in DOMAIN g
      BY <1>2, <1>3, <2>1
    <3> QED
      BY <3>2, <3>3 DEF Parts
  <2>4. \A a \in Q : -a \in P /\ -(-a) = a
    <3> SUFFICES ASSUME NEW a \in Q PROVE -a \in P /\ -(-a) = a
      OBVIOUS
    <3>1. a \in Int /\ s \in Int
      BY <1>1, <2>1, <2>2
    <3>2. -(-a) = a /\ -(-s - a) = s - (-a)
      BY <3>1
    <3>3. -a \in DOMAIN nf /\ -(-s - a) \in DOMAIN ng
      BY <1>2, <1>3, <2>2
    <3> QED
      BY <3>2, <3>3 DEF Parts
  <2> HIDE DEF P, Q, w, v
  <2>6. h \in Bijection(P, Q)
    <3>1. h \in [P -> Q] /\ \A b \in Q : \E a \in P : h[a] = b
      BY <2>3, <2>4
    <3>2. \A a, b \in P : h[a] = h[b] => a = b
      BY <2>3
    <3> QED
      BY <3>1, <3>2 DEF Bijection, Injection, Surjection, IsInjective
  <2>7. \A a \in P : w[a] = v[h[a]]
    <3> SUFFICES ASSUME NEW a \in P PROVE w[a] = v[-a]
      OBVIOUS
    <3>1. v[-a] = f[-a] * g[-s - (-a)]
      BY <2>2, <2>3
    <3>2. nf[a] = f[-a] /\ ng[s - a] = g[-(s - a)]
      BY <1>2, <1>3, <2>1
    <3> QED
      BY <2>1, <2>3, <3>1, <3>2
  <2> HIDE DEF h
  <2>8. Sigma(w, P) = Sigma(v, Q)
    BY <2>1, <2>2, <2>6, <2>7, SigmaCarried
  <2> QED
    BY <2>8 DEF P, Q, w, v
<1>10. \A s \in Sums(nf, ng) : Negated(Plus(f, g))[s] = Plus(nf, ng)[s]
  BY <1>6, <1>7, <1>8, <1>9
<1>11. Negated(Plus(f, g)) = Plus(nf, ng)
  BY <1>7, <1>8, <1>10, SameFunction DEF Dist
<1> QED
  BY <1>11 DEF nf, ng

\* The sums of 0 to n draws of f.
Iterates(P, f, n) ==
    P = [k \in 0..n |-> IF k = 0 THEN [x \in {0} |-> 1] ELSE Plus(P[k - 1], f)]

\* They exist.
LEMMA IteratesExist ==
    ASSUME NEW f, NEW n \in Nat
    PROVE  \E P : Iterates(P, f, n)
<1> DEFINE open == {m \in Nat : ~\E P : Iterates(P, f, m)}
<1> SUFFICES ASSUME open # {} PROVE FALSE
  OBVIOUS
<1>1. PICK m \in open : \A k \in open : m <= k
  <2>1. open \subseteq Nat
    OBVIOUS
  <2> HIDE DEF open
  <2> QED
    BY <2>1, LeastNumber
<1>2. m \in Nat /\ ~\E P : Iterates(P, f, m)
  BY <1>1
<1>3. CASE m = 0
  <2>1. Iterates([k \in 0..0 |-> [x \in {0} |-> 1]], f, 0)
    BY DEF Iterates
  <2> QED
    BY <1>2, <1>3, <2>1
<1>4. CASE m # 0
  <2>1. m - 1 \in Nat /\ ~(m <= m - 1)
    BY <1>2, <1>4
  <2>2. PICK P : Iterates(P, f, m - 1)
    BY <1>1, <2>1
  <2> DEFINE one == [x \in {0} |-> 1]
             Next_(k) == IF k = 0 THEN one ELSE Plus(P[k - 1], f)
             h == [k \in 0..m |-> Next_(k)]
  <2>3. \A k \in 0..(m - 1) : P[k] = Next_(k) /\ k \in 0..m
    BY <1>2, <2>1, <2>2 DEF Iterates
  <2>4. \A k \in 0..m : k # 0 => k - 1 \in 0..(m - 1)
    BY <1>2
  <2>5. \A k \in 0..m : k # 0 => h[k - 1] = P[k - 1]
    BY <2>3, <2>4
  <2> HIDE DEF one
  <2>6. h = [k \in 0..m |-> IF k = 0 THEN one ELSE Plus(h[k - 1], f)]
    BY <2>5
  <2> HIDE DEF h
  <2>7. Iterates(h, f, m)
    BY <2>6 DEF Iterates, one
  <2> QED
    BY <1>2, <2>7
<1> QED
  BY <1>3, <1>4

\* Times is the last of them.
LEMMA TimesIterates ==
    ASSUME NEW f, NEW n \in Nat
    PROVE  \E P : Iterates(P, f, n) /\ Times(f, n) = P[n]
<1> DEFINE P == CHOOSE P : Iterates(P, f, n)
<1>1. Iterates(P, f, n)
  BY IteratesExist
<1>2. Times(f, n) = P[n]
  BY Zenon DEF Times, Iterates
<1> HIDE DEF P
<1> QED
  BY <1>1, <1>2

\* No draw at all.
LEMMA NoDraw ==
    ASSUME NEW e, e = [x \in {0} |-> 1]
    PROVE  Dist(e) /\ Negated(e) = e
<1>1. Dist(e)
  <2>1. IsFiniteSet({0})
    BY FS_Singleton
  <2> QED
    BY <2>1 DEF Dist
<1>2. Opposite({0}) = {0}
  BY DEF Opposite
<1>3. /\ Dist(Negated(e)) /\ DOMAIN Negated(e) = {0}
      /\ \A x \in DOMAIN Negated(e) : Negated(e)[x] = e[-x]
  BY <1>1, <1>2, NegatedDist
<1>4. \A x \in {0} : e[-x] = e[x]
  <2> DEFINE zero == {0}
  <2>1. zero \subseteq Int /\ Opposite(zero) = zero /\ \A x, y \in zero : x = y
    BY <1>2
  <2> HIDE DEF zero
  <2>2. \A x \in zero : -x \in zero
    BY <2>1, OppositeSet
  <2>3. \A x \in zero : -x = x
    BY <2>1, <2>2
  <2>4. \A x \in zero : e[-x] = e[x]
    BY <2>3
  <2> QED
    BY <2>4 DEF zero
<1> QED
  BY <1>1, <1>3, <1>4, SameFunction DEF Dist

\* The sum of n mirrored draws is the mirrored sum of n draws.
LEMMA TimesNegated ==
    ASSUME NEW f, Dist(f), NEW n \in Nat
    PROVE  Dist(Times(f, n)) /\ Times(Negated(f), n) = Negated(Times(f, n))
<1>1. PICK P : Iterates(P, f, n) /\ Times(f, n) = P[n]
  BY TimesIterates
<1>2. PICK Q : Iterates(Q, Negated(f), n) /\ Times(Negated(f), n) = Q[n]
  BY TimesIterates
<1> DEFINE Good(k) == Dist(P[k]) /\ Q[k] = Negated(P[k])
           bad == {k \in Nat : k \in 0..n /\ ~Good(k)}
<1>3. bad = {}
  <2> SUFFICES ASSUME bad # {} PROVE FALSE
    OBVIOUS
  <2>1. PICK k \in bad : \A j \in bad : k <= j
    <3>1. bad \subseteq Nat
      OBVIOUS
    <3> HIDE DEF bad
    <3> QED
      BY <3>1, LeastNumber
  <2>2. k \in 0..n /\ ~Good(k)
    BY <2>1
  <2> DEFINE e == [x \in {0} |-> 1]
  <2>3. CASE k = 0
    <3>1. P[0] = e /\ Q[0] = e
      BY <1>1, <1>2, <2>2, <2>3 DEF Iterates
    <3>2. Dist(e) /\ Negated(e) = e
      BY NoDraw
    <3> HIDE DEF e
    <3> QED
      BY <2>2, <2>3, <3>1, <3>2
  <2>4. CASE k # 0
    <3>1. k - 1 \in Nat /\ k - 1 \in 0..n /\ ~(k <= k - 1)
      BY <2>2, <2>4
    <3>2. Good(k - 1)
      BY <2>1, <3>1
    <3>3. P[k] = Plus(P[k - 1], f) /\ Q[k] = Plus(Q[k - 1], Negated(f))
      BY <1>1, <1>2, <2>2, <2>4 DEF Iterates
    <3>4. Dist(P[k])
      BY <3>2, <3>3, PlusDist
    <3>5. Negated(P[k]) = Plus(Negated(P[k - 1]), Negated(f))
      BY <3>2, <3>3, PlusNegated
    <3> QED
      BY <2>2, <3>2, <3>3, <3>4, <3>5
  <2> QED
    BY <2>3, <2>4
<1>4. n \in 0..n
  OBVIOUS
<1>5. Good(n)
  BY <1>3, <1>4
<1> QED
  BY <1>1, <1>2, <1>5

\* A draw from a family of integers.
LEMMA ChoiceDist ==
    ASSUME NEW values, IsFiniteSet(DOMAIN values), DOMAIN values # {},
           \A i \in DOMAIN values : values[i] \in Int
    PROVE  Dist(Choice(values))
<1> DEFINE V == {values[i] : i \in DOMAIN values}
           At(x) == {i \in DOMAIN values : values[i] = x}
<1>1. Choice(values) = [x \in V |-> Cardinality(At(x))]
  BY TableIsFunction DEF Choice, Range
<1>2. IsFiniteSet(V)
  BY ImageFinite
<1>3. V # {} /\ V \subseteq Int
  OBVIOUS
<1>4. \A x \in V : Cardinality(At(x)) \in Nat \ {0}
  <2> TAKE x \in V
  <2>1. At(x) # {} /\ At(x) \subseteq DOMAIN values
    OBVIOUS
  <2> HIDE DEF At
  <2>2. IsFiniteSet(At(x))
    BY <2>1, FS_Subset
  <2> QED
    BY <2>1, <2>2, FS_CardinalityType, FS_EmptySet
<1> HIDE DEF V, At
<1> QED
  BY <1>1, <1>2, <1>3, <1>4 DEF Dist

\* A draw from the negated family is the mirrored draw.
LEMMA ChoiceNegated ==
    ASSUME NEW values, IsFiniteSet(DOMAIN values), DOMAIN values # {},
           \A i \in DOMAIN values : values[i] \in Int,
           NEW others, DOMAIN others = DOMAIN values,
           \A i \in DOMAIN values : others[i] = -values[i]
    PROVE  Choice(others) = Negated(Choice(values))
<1> DEFINE D == DOMAIN values
           V == {values[i] : i \in D}
           W == {others[i] : i \in D}
           c == Choice(values)
           d == Choice(others)
<1>1. Dist(c) /\ Dist(d)
  BY ChoiceDist
<1>2. /\ DOMAIN c = V /\ \A x \in V : c[x] = Cardinality({i \in D : values[i] = x})
      /\ DOMAIN d = W /\ \A x \in W : d[x] = Cardinality({i \in D : others[i] = x})
  BY TableIsFunction DEF Choice, Range
<1>3. /\ Dist(Negated(c)) /\ DOMAIN Negated(c) = Opposite(V)
      /\ \A x \in Opposite(V) : Negated(c)[x] = c[-x] /\ -x \in V
  <2> HIDE DEF c, V
  <2> QED
    BY <1>1, <1>2, NegatedDist
<1>4. W = Opposite(V)
  BY DEF Opposite
<1>5. ASSUME NEW x \in W PROVE d[x] = Negated(c)[x]
  <2>1. x \in Int /\ -x \in V
    BY <1>3, <1>4
  <2>2. {i \in D : others[i] = x} = {i \in D : values[i] = -x}
    BY <2>1
  <2>3. d[x] = Cardinality({i \in D : others[i] = x})
    BY <1>2
  <2>4. c[-x] = Cardinality({i \in D : values[i] = -x})
    BY <1>2, <2>1
  <2>5. Negated(c)[x] = c[-x]
    BY <1>3, <1>4
  <2> HIDE DEF D, c, d
  <2> QED
    BY <2>2, <2>3, <2>4, <2>5
<1> HIDE DEF D, V, W, c, d
<1>6. d = Negated(c)
  <2>1. DOMAIN d = DOMAIN Negated(c) /\ \A x \in DOMAIN d : d[x] = Negated(c)[x]
    BY <1>2, <1>3, <1>4, <1>5
  <2> QED
    BY <1>1, <1>3, <2>1, SameFunction DEF Dist
<1> QED
  BY <1>6 DEF c, d

\* The mirrored distribution has the same total weight.
LEMMA TotalNegated ==
    ASSUME NEW f, Dist(f)
    PROVE  TotalWeight(Negated(f)) = TotalWeight(f)
<1> DEFINE S == DOMAIN f
           g == Negated(f)
           T == DOMAIN g
           h == [x \in S |-> -x]
<1>1. /\ Dist(g) /\ T = Opposite(S)
      /\ \A x \in S : -x \in T /\ g[-x] = f[x]
  BY NegatedDist
<1>2. h \in Bijection(S, T)
  BY <1>1, OppositeSet DEF Dist
<1>3. /\ IsFiniteSet(S) /\ IsFiniteSet(T)
      /\ \A x \in S : f[x] \in Nat
      /\ \A x \in T : g[x] \in Nat
  BY <1>1 DEF Dist
<1>4. \A x \in S : f[x] = g[h[x]]
  BY <1>1
<1> HIDE DEF S, T, h, g
<1>5. Sigma(f, S) = Sigma(g, T)
  BY <1>2, <1>3, <1>4, SigmaCarried
<1> QED
  BY <1>1, <1>5, TotalOfDist DEF S, T, g

\* The values of f up to x and from x, and the candidates for its quantiles; the firm
\* ones are candidates for the lower quantile with weight to spare.
NotAbove(f, x) == {y \in DOMAIN f : y <= x}
NotBelow(f, x) == {y \in DOMAIN f : y >= x}
LowerSet(f, odds) == {x \in DOMAIN f : SumFunctionOnSet(f, NotAbove(f, x)) * odds >= TotalWeight(f)}
FirmSet(f, odds) == {x \in DOMAIN f : SumFunctionOnSet(f, NotAbove(f, x)) * odds > TotalWeight(f)}
UpperSet(f, odds) == {x \in DOMAIN f : SumFunctionOnSet(f, NotBelow(f, x)) * odds > TotalWeight(f)}

\* Quantiles are the least and the greatest candidate.
LEMMA QuantileSets ==
    ASSUME NEW f, NEW odds
    PROVE  /\ Lower(f, odds) = Min(LowerSet(f, odds)) /\ Upper(f, odds) = Max(UpperSet(f, odds))
           /\ Interval(f, odds) = [lower |-> Lower(f, odds), upper |-> Upper(f, odds)]
<1>1. Lower(f, odds) = Min(LowerSet(f, odds)) /\ Upper(f, odds) = Max(UpperSet(f, odds))
  BY DEF Lower, Upper, LowerSet, UpperSet, NotAbove, NotBelow
<1> DEFINE r == [lower |-> Lower(f, odds), upper |-> Upper(f, odds)]
           R == {[lower |-> Lower(d, odds), upper |-> Upper(d, odds)] : d \in {f}}
<1>2. R = {r}
  OBVIOUS
<1>3. Interval(f, odds) = CHOOSE i \in R : TRUE
  BY DEF Interval
<1> HIDE DEF r, R
<1>4. Interval(f, odds) = r
  BY <1>2, <1>3
<1> QED
  BY <1>1, <1>4 DEF r

\* Sums over the two ends of a distribution.
LEMMA EndsOfDist ==
    ASSUME NEW f, Dist(f), NEW x
    PROVE  /\ NotAbove(f, x) \subseteq DOMAIN f /\ IsFiniteSet(NotAbove(f, x))
           /\ SumFunctionOnSet(f, NotAbove(f, x)) = Sigma(f, NotAbove(f, x)) /\ Sigma(f, NotAbove(f, x)) \in Nat
           /\ NotBelow(f, x) \subseteq DOMAIN f /\ IsFiniteSet(NotBelow(f, x))
           /\ SumFunctionOnSet(f, NotBelow(f, x)) = Sigma(f, NotBelow(f, x)) /\ Sigma(f, NotBelow(f, x)) \in Nat
<1> DEFINE A == NotAbove(f, x)
           B == NotBelow(f, x)
<1>1. A \subseteq DOMAIN f /\ B \subseteq DOMAIN f
  BY DEF NotAbove, NotBelow
<1>2. IsFiniteSet(DOMAIN f) /\ \A y \in DOMAIN f : f[y] \in Nat
  BY DEF Dist
<1> HIDE DEF A, B
<1>3. IsFiniteSet(A) /\ IsFiniteSet(B) /\ (\A y \in A : f[y] \in Nat) /\ \A y \in B : f[y] \in Nat
  BY <1>1, <1>2, FS_Subset
<1>4. SumFunctionOnSet(f, A) = Sigma(f, A) /\ Sigma(f, A) \in Nat
  BY <1>3, SumOfFunction, SigmaNat
<1>5. SumFunctionOnSet(f, B) = Sigma(f, B) /\ Sigma(f, B) \in Nat
  BY <1>3, SumOfFunction, SigmaNat
<1> QED
  BY <1>1, <1>3, <1>4, <1>5 DEF A, B

\* More than one of a positive number is more than it.
LEMMA OddsGrow ==
    ASSUME NEW t \in Nat \ {0}, NEW odds \in Nat, odds >= 3
    PROVE  t * odds > t /\ t * odds > 2 * t
<1>1. odds - 3 \in Nat
  OBVIOUS
<1>2. PICK k \in Nat : odds = 3 + k
  BY <1>1
<1>3. t * odds = 3 * t + t * k /\ t * k \in Nat
  BY <1>2
<1> QED
  BY <1>3

\* There are candidates.
LEMMA QuantilesExist ==
    ASSUME NEW f, Dist(f), NEW odds \in Nat, odds >= 3
    PROVE  /\ LowerSet(f, odds) # {} /\ LowerSet(f, odds) \subseteq DOMAIN f
           /\ UpperSet(f, odds) # {} /\ UpperSet(f, odds) \subseteq DOMAIN f
           /\ IsFiniteSet(LowerSet(f, odds)) /\ IsFiniteSet(UpperSet(f, odds))
<1> DEFINE S == DOMAIN f
           a == Min(S)
           b == Max(S)
<1>1. S \subseteq Int /\ IsFiniteSet(S) /\ S # {}
  BY DEF Dist
<1> HIDE DEF S
<1>2. a \in S /\ b \in S /\ (\A x \in S : x <= b) /\ \A x \in S : a <= x
  BY <1>1, Greatest, Least
<1> HIDE DEF a, b
<1>3. TotalWeight(f) = Sigma(f, S) /\ TotalWeight(f) \in Nat \ {0}
  BY TotalOfDist DEF S
<1>4. TotalWeight(f) * odds > TotalWeight(f) /\ TotalWeight(f) * odds >= TotalWeight(f)
  <2> DEFINE w == TotalWeight(f)
             m == w * odds
  <2>1. w \in Nat /\ m \in Nat /\ m > w
    BY <1>3, OddsGrow
  <2> HIDE DEF w, m
  <2>2. m >= w
    BY <2>1
  <2> QED
    BY <2>1, <2>2 DEF w, m
<1>5. b \in LowerSet(f, odds)
  <2>1. NotAbove(f, b) = S
    BY <1>2 DEF NotAbove, S
  <2>2. SumFunctionOnSet(f, NotAbove(f, b)) = TotalWeight(f)
    BY <1>3, <2>1, EndsOfDist
  <2> QED
    BY <1>2, <1>4, <2>2 DEF LowerSet, S
<1>6. a \in UpperSet(f, odds)
  <2>1. \A x \in S : x >= a
    BY <1>1, <1>2
  <2>2. NotBelow(f, a) = S
    BY <2>1 DEF NotBelow, S
  <2>3. SumFunctionOnSet(f, NotBelow(f, a)) = TotalWeight(f)
    BY <1>3, <2>2, EndsOfDist
  <2> QED
    BY <1>2, <1>4, <2>3 DEF UpperSet, S
<1>7. LowerSet(f, odds) \subseteq S /\ UpperSet(f, odds) \subseteq S
  BY DEF LowerSet, UpperSet, S
<1> QED
  BY <1>1, <1>5, <1>6, <1>7, FS_Subset DEF S

\* The firm candidates of the mirrored distribution mirror the upper ones.
LEMMA QuantilesMirrored ==
    ASSUME NEW f, Dist(f), NEW odds \in Nat
    PROVE  FirmSet(Negated(f), odds) = Opposite(UpperSet(f, odds))
<1> DEFINE g == Negated(f)
           S == DOMAIN f
           T == DOMAIN g
<1>1. /\ Dist(g) /\ TotalWeight(g) = TotalWeight(f) /\ T = Opposite(S)
      /\ \A x \in S : -x \in T /\ g[-x] = f[x]
      /\ \A x \in T : -x \in S /\ g[x] = f[-x]
  BY NegatedDist, TotalNegated
<1>2. S \subseteq Int /\ T \subseteq Int
  BY <1>1 DEF Dist
<1> HIDE DEF g
<1>3. ASSUME NEW x \in T PROVE Sigma(g, NotAbove(g, x)) = Sigma(f, NotBelow(f, -x))
  <2> DEFINE A == NotAbove(g, x)
             B == NotBelow(f, -x)
             h == [y \in A |-> -y]
  <2>1. /\ IsFiniteSet(A) /\ IsFiniteSet(B) /\ A \subseteq T /\ B \subseteq S
        /\ \A y \in A : g[y] \in Nat
        /\ \A y \in B : f[y] \in Nat
    BY <1>1, EndsOfDist DEF Dist
  <2>2. \A y \in A : -y \in B
    <3> TAKE y \in A
    <3>1. y \in T /\ y <= x /\ -y \in S
      BY <1>1 DEF NotAbove
    <3>2. -y >= -x
      BY <1>2, <3>1
    <3> QED
      BY <3>1, <3>2 DEF NotBelow
  <2>3. \A y \in B : -y \in A /\ -(-y) = y
    <3> TAKE y \in B
    <3>1. y \in S /\ y >= -x /\ -y \in T
      BY <1>1 DEF NotBelow
    <3>2. -y <= x /\ -(-y) = y
      BY <1>2, <3>1
    <3> QED
      BY <3>1, <3>2 DEF NotAbove
  <2>4. h \in Bijection(A, B)
    <3>1. \A y, z \in A : h[y] = h[z] => y = z
      BY <1>2, <2>1
    <3>2. h \in [A -> B] /\ \A z \in B : \E y \in A : h[y] = z
      BY <2>2, <2>3
    <3> QED
      BY <3>1, <3>2 DEF Bijection, Injection, Surjection, IsInjective
  <2>5. \A y \in A : g[y] = f[h[y]]
    BY <1>1, <2>1
  <2> HIDE DEF A, B, h
  <2>6. Sigma(g, A) = Sigma(f, B)
    BY <2>1, <2>4, <2>5, SigmaCarried
  <2> QED
    BY <2>6 DEF A, B
<1>4. ASSUME NEW x \in T
      PROVE  SumFunctionOnSet(g, NotAbove(g, x)) = SumFunctionOnSet(f, NotBelow(f, -x))
  BY <1>1, <1>3, EndsOfDist
<1>5. \A x : x \in FirmSet(g, odds) <=> x \in Int /\ -x \in UpperSet(f, odds)
  <2> TAKE x
  <2>1. x \in T => x \in Int /\ -x \in S
    BY <1>1, <1>2
  <2>2. x \in Int /\ -x \in S => x \in T
    BY <1>1, <1>2, OppositeSet
  <2>3. x \in T =>
          (x \in FirmSet(g, odds) <=> -x \in UpperSet(f, odds))
    BY <1>1, <1>4, <2>1 DEF FirmSet, UpperSet
  <2> QED
    BY <2>1, <2>2, <2>3 DEF FirmSet, UpperSet
<1>6. UpperSet(f, odds) \subseteq Int
  BY <1>2 DEF UpperSet
<1>7. \A x : x \in Opposite(UpperSet(f, odds)) <=> x \in Int /\ -x \in UpperSet(f, odds)
  BY <1>6, OppositeSet
<1> QED
  BY <1>5, <1>7 DEF g

\* Quantiles are integers, and the bounds of their candidates.
LEMMA QuantilesBound ==
    ASSUME NEW f, Dist(f), NEW odds \in Nat, odds >= 3
    PROVE  /\ Lower(f, odds) \in Int /\ \A x \in LowerSet(f, odds) : Lower(f, odds) <= x
           /\ Upper(f, odds) \in Int /\ \A x \in UpperSet(f, odds) : x <= Upper(f, odds)
<1> DEFINE A == LowerSet(f, odds)
           B == UpperSet(f, odds)
<1>1. DOMAIN f \subseteq Int
  BY DEF Dist
<1>2. /\ A # {} /\ A \subseteq Int /\ IsFiniteSet(A)
      /\ B # {} /\ B \subseteq Int /\ IsFiniteSet(B)
  BY <1>1, QuantilesExist
<1>3. Lower(f, odds) = Min(A) /\ Upper(f, odds) = Max(B)
  BY QuantileSets
<1> HIDE DEF A, B
<1>4. /\ Min(A) \in A /\ \A x \in A : Min(A) <= x
      /\ Max(B) \in B /\ \A x \in B : x <= Max(B)
  BY <1>2, Greatest, Least
<1> QED
  BY <1>2, <1>3, <1>4 DEF A, B

-----------------------------------------------------------------------------
(***************************************************************************)
(* Sums of integers, group by group, and the expectation of a function of a *)
(* distribution: the sum of its values times their weights.                *)
(***************************************************************************)
\* The sum of the sums is the sum of the summands.
LEMMA SigmaPlus ==
    ASSUME NEW S, IsFiniteSet(S), NEW u, NEW v, NEW w,
           \A x \in S : v[x] \in Int /\ w[x] \in Int /\ u[x] = v[x] + w[x]
    PROVE  /\ Sigma(u, S) \in Int /\ Sigma(v, S) \in Int /\ Sigma(w, S) \in Int
           /\ Sigma(u, S) = Sigma(v, S) + Sigma(w, S)
<1>1. (\A x \in S : u[x] \in Int) /\ (\A x \in S : v[x] \in Int) /\ (\A x \in S : w[x] \in Int)
  OBVIOUS
<1>2. PICK f : AddsUp(f, u, S) /\ Sigma(u, S) = f[S]
  BY <1>1, SigmaIsSum
<1>3. PICK g : AddsUp(g, v, S) /\ Sigma(v, S) = g[S]
  BY SigmaIsSum
<1>4. PICK h : AddsUp(h, w, S) /\ Sigma(w, S) = h[S]
  BY SigmaIsSum
<1>5. \A s \in SUBSET S : f[s] \in Int
  BY <1>1, <1>2, SumIsInteger
<1>6. \A s \in SUBSET S : g[s] \in Int
  BY <1>3, SumIsInteger
<1>7. \A s \in SUBSET S : h[s] \in Int
  BY <1>4, SumIsInteger
<1> DEFINE G == {s \in SUBSET S : f[s] = g[s] + h[s]}
<1>8. {} \in G
  <2>1. f[{}] = 0 /\ g[{}] = 0 /\ h[{}] = 0
    BY <1>2, <1>3, <1>4 DEF AddsUp
  <2> QED
    BY <2>1
<1>9. ASSUME NEW s \in SUBSET S, s # {}, \A x \in s : s \ {x} \in G
      PROVE  s \in G
  <2>1. PICK x \in s : TRUE
    BY <1>9
  <2> DEFINE r == s \ {x}
  <2>2. r \in G /\ r \in SUBSET S
    BY <1>9
  <2>3. f[s] = u[x] + f[r]
    BY <1>1, <1>2, SumAnyOrder
  <2>4. g[s] = v[x] + g[r]
    BY <1>1, <1>3, SumAnyOrder
  <2>5. h[s] = w[x] + h[r]
    BY <1>1, <1>4, SumAnyOrder
  <2>6. f[r] = g[r] + h[r]
    BY <2>2
  <2> HIDE DEF r, G
  <2>7. g[r] \in Int /\ h[r] \in Int /\ v[x] \in Int /\ w[x] \in Int
    BY <1>6, <1>7, <2>2
  <2>8. f[s] = g[s] + h[s]
    BY <2>3, <2>4, <2>5, <2>6, <2>7
  <2> QED
    BY <2>8 DEF G
<1> HIDE DEF G
<1>10. \A s \in SUBSET S : s \in G
  BY <1>8, <1>9, SubsetInduction
<1>11. f[S] = g[S] + h[S]
  BY <1>10 DEF G
<1> QED
  BY <1>2, <1>3, <1>4, <1>5, <1>6, <1>7, <1>11

\* Larger summands have a larger sum.
LEMMA SigmaOrder ==
    ASSUME NEW S, IsFiniteSet(S), NEW v, NEW w,
           \A x \in S : v[x] \in Int /\ w[x] \in Int /\ v[x] <= w[x]
    PROVE  Sigma(v, S) \in Int /\ Sigma(w, S) \in Int /\ Sigma(v, S) <= Sigma(w, S)
<1> DEFINE u == [x \in S |-> w[x] - v[x]]
<1>1. \A x \in S : u[x] \in Nat
  OBVIOUS
<1>2. \A x \in S : v[x] \in Int /\ u[x] \in Int /\ w[x] = v[x] + u[x]
  OBVIOUS
<1> HIDE DEF u
<1>3. Sigma(u, S) \in Nat
  BY <1>1, SigmaNat
<1>4. Sigma(v, S) \in Int /\ Sigma(w, S) = Sigma(v, S) + Sigma(u, S)
  BY <1>2, SigmaPlus
<1> QED
  BY <1>3, <1>4

\* A function with a factor.
Factor(S, a, v) == [x \in S |-> a * v[x]]

\* Its sum has the factor too.
LEMMA SigmaOfFactor ==
    ASSUME NEW S, IsFiniteSet(S), NEW a \in Int, NEW v, \A x \in S : v[x] \in Int
    PROVE  /\ \A x \in S : Factor(S, a, v)[x] \in Int /\ Factor(S, a, v)[x] = a * v[x]
           /\ Sigma(v, S) \in Int /\ Sigma(Factor(S, a, v), S) = a * Sigma(v, S)
<1> DEFINE u == Factor(S, a, v)
<1>0. \A x \in S : u[x] = a * v[x]
  BY DEF Factor
<1> HIDE DEF u
<1>1. (\A x \in S : u[x] \in Int) /\ (\A x \in S : v[x] \in Int)
  <2>1. \A x \in S : v[x] \in Int /\ a * v[x] \in Int
    OBVIOUS
  <2> QED
    BY <1>0, <2>1
<1>2. PICK f : AddsUp(f, u, S) /\ Sigma(u, S) = f[S]
  BY <1>1, SigmaIsSum
<1>3. PICK g : AddsUp(g, v, S) /\ Sigma(v, S) = g[S]
  BY SigmaIsSum
<1>4. \A s \in SUBSET S : f[s] \in Int
  BY <1>1, <1>2, SumIsInteger
<1>5. \A s \in SUBSET S : g[s] \in Int
  BY <1>3, SumIsInteger
<1> DEFINE G == {s \in SUBSET S : f[s] = a * g[s]}
<1>6. {} \in G
  <2>1. f[{}] = 0 /\ g[{}] = 0
    BY <1>2, <1>3 DEF AddsUp
  <2> QED
    BY <2>1
<1>7. ASSUME NEW s \in SUBSET S, s # {}, \A x \in s : s \ {x} \in G
      PROVE  s \in G
  <2>1. PICK x \in s : TRUE
    BY <1>7
  <2> DEFINE r == s \ {x}
  <2>2. r \in G /\ r \in SUBSET S
    BY <1>7
  <2>3. f[s] = u[x] + f[r]
    BY <1>1, <1>2, SumAnyOrder
  <2>4. g[s] = v[x] + g[r]
    BY <1>1, <1>3, SumAnyOrder
  <2>5. f[r] = a * g[r]
    BY <2>2
  <2> HIDE DEF r, G
  <2>6. g[r] \in Int /\ v[x] \in Int
    BY <1>5, <2>2
  <2>7. a * (v[x] + g[r]) = a * v[x] + a * g[r]
    BY <2>6
  <2>8. f[s] = a * g[s]
    BY <1>0, <2>3, <2>4, <2>5, <2>7
  <2> QED
    BY <2>8 DEF G
<1> HIDE DEF G
<1>8. \A s \in SUBSET S : s \in G
  BY <1>6, <1>7, SubsetInduction
<1>9. f[S] = a * g[S]
  BY <1>8 DEF G
<1> QED
  BY <1>0, <1>1, <1>2, <1>3, <1>4, <1>5, <1>9 DEF u

\* A multiple of the summands has a multiple of the sum.
LEMMA SigmaScaled ==
    ASSUME NEW S, IsFiniteSet(S), NEW a \in Int, NEW u, NEW v,
           \A x \in S : v[x] \in Int /\ u[x] = a * v[x]
    PROVE  Sigma(u, S) \in Int /\ Sigma(v, S) \in Int /\ Sigma(u, S) = a * Sigma(v, S)
<1> DEFINE w == Factor(S, a, v)
<1>1. \A x \in S : v[x] \in Int
  OBVIOUS
<1>2. /\ \A x \in S : w[x] \in Int /\ w[x] = a * v[x]
      /\ Sigma(v, S) \in Int /\ Sigma(w, S) = a * Sigma(v, S)
  BY <1>1, SigmaOfFactor
<1> HIDE DEF w
<1>3. \A x \in S : w[x] \in Int /\ u[x] \in Int /\ w[x] <= u[x]
  BY <1>2
<1>4. \A x \in S : u[x] \in Int /\ w[x] \in Int /\ u[x] <= w[x]
  BY <1>2
<1>5. Sigma(w, S) \in Int /\ Sigma(u, S) \in Int /\ Sigma(w, S) <= Sigma(u, S)
  BY <1>3, SigmaOrder
<1>6. Sigma(u, S) <= Sigma(w, S)
  BY <1>4, SigmaOrder
<1> QED
  BY <1>2, <1>5, <1>6

\* The elements with a key.
Fiber(S, key, k) == {x \in S : key[x] = k}

\* A sum may be taken group by group.
LEMMA SigmaGrouped ==
    ASSUME NEW S, IsFiniteSet(S), NEW K, IsFiniteSet(K), NEW key, \A x \in S : key[x] \in K,
           NEW w, \A x \in S : w[x] \in Int,
           NEW v, \A k \in K : v[k] = Sigma(w, Fiber(S, key, k))
    PROVE  Sigma(w, S) = Sigma(v, K)
<1> DEFINE Pre(s) == {x \in S : key[x] \in s}
<1>1. \A T : T \subseteq S => Sigma(w, T) \in Int
  <2> TAKE T
  <2> HAVE T \subseteq S
  <2>1. IsFiniteSet(T) /\ \A x \in T : w[x] \in Int
    BY FS_Subset
  <2> QED
    BY <2>1, SigmaOrder
<1>2. \A k \in K : v[k] \in Int
  BY <1>1 DEF Fiber
<1>3. PICK h : AddsUp(h, v, K) /\ Sigma(v, K) = h[K]
  BY <1>2, SigmaIsSum
<1> DEFINE G == {s \in SUBSET K : Sigma(w, Pre(s)) = h[s]}
<1>4. {} \in G
  <2>1. h[{}] = 0
    BY <1>3 DEF AddsUp
  <2>2. Pre({}) = {}
    OBVIOUS
  <2>3. Sigma(w, {}) = 0
    <3> DEFINE E == {}
    <3>1. IsFiniteSet(E) /\ \A x \in E : w[x] = 0
      BY FS_EmptySet
    <3> HIDE DEF E
    <3>2. Sigma(w, E) = 0
      BY <3>1, SigmaOfNothing
    <3> QED
      BY <3>2 DEF E
  <2> QED
    BY <2>1, <2>2, <2>3
<1>5. ASSUME NEW s \in SUBSET K, s # {}, \A k \in s : s \ {k} \in G
      PROVE  s \in G
  <2>1. PICK k \in s : TRUE
    BY <1>5
  <2> DEFINE r == s \ {k}
             P == Pre(s)
             Q == Pre(r)
             F == Fiber(S, key, k)
  <2>2. r \in G /\ r \in SUBSET K
    BY <1>5
  <2>3. Q \subseteq P /\ F = P \ Q /\ P \subseteq S
    BY DEF Fiber
  <2>4. h[s] = v[k] + h[r] /\ h[r] = Sigma(w, Q) /\ v[k] = Sigma(w, F)
    BY <1>2, <1>3, <2>2, SumAnyOrder
  <2> HIDE DEF P, Q, F, r, G
  <2>5. IsFiniteSet(P) /\ \A x \in P : w[x] \in Int
    BY <2>3, FS_Subset
  <2>6. Sigma(w, P) = Sigma(w, Q) + Sigma(w, F)
    BY <2>3, <2>5, SigmaSplit
  <2>7. Sigma(w, Q) \in Int /\ Sigma(w, F) \in Int
    BY <1>1, <2>3
  <2>8. Sigma(w, P) = h[s]
    BY <2>4, <2>6, <2>7
  <2> QED
    BY <2>8 DEF G, P
<1> HIDE DEF G
<1>6. \A s \in SUBSET K : s \in G
  BY <1>4, <1>5, SubsetInduction
<1>7. Pre(K) = S
  OBVIOUS
<1>8. K \in G
  BY <1>6
<1> QED
  BY <1>3, <1>7, <1>8 DEF G

\* One row of a table of weights.
RowOfTable(w, B, a) == [b \in B |-> w[<<a, b>>]]

\* A sum over pairs may be taken row by row.
LEMMA SigmaPairs ==
    ASSUME NEW A, IsFiniteSet(A), NEW B, IsFiniteSet(B),
           NEW w, \A a \in A, b \in B : w[<<a, b>>] \in Int,
           NEW v, \A a \in A : v[a] = Sigma(RowOfTable(w, B, a), B)
    PROVE  Sigma(w, A \X B) = Sigma(v, A)
<1> DEFINE S == A \X B
           key == [p \in S |-> p[1]]
<1>1. IsFiniteSet(S)
  BY FS_Product
<1>2. \A p \in S : key[p] \in A
  OBVIOUS
<1>3. \A p \in S : w[p] \in Int
  OBVIOUS
<1>4. ASSUME NEW a \in A PROVE v[a] = Sigma(w, Fiber(S, key, a))
  <2> DEFINE F == Fiber(S, key, a)
             f == [b \in B |-> <<a, b>>]
             r == RowOfTable(w, B, a)
  <2>1. f \in Bijection(B, F)
    <3>1. \A b \in B : f[b] \in F
      BY DEF Fiber
    <3>2. \A p \in F : p[2] \in B /\ f[p[2]] = p
      BY DEF Fiber
    <3>3. f \in [B -> F]
      BY <3>1
    <3>4. \A b, c \in B : f[b] = f[c] => b = c
      OBVIOUS
    <3> HIDE DEF f, F
    <3>5. f \in Injection(B, F) /\ f \in Surjection(B, F)
      BY <3>2, <3>3, <3>4 DEF Injection, Surjection, IsInjective
    <3> QED
      BY <3>5 DEF Bijection
  <2>2. \A b \in B : r[b] \in Int /\ r[b] = w[f[b]]
    BY DEF RowOfTable
  <2>3. F \subseteq S
    BY DEF Fiber
  <2> HIDE DEF f, F, r, S, key
  <2>4. IsFiniteSet(F) /\ \A p \in F : w[p] \in Int
    BY <1>1, <1>3, <2>3, FS_Subset
  <2>5. Sigma(r, B) = Sigma(w, F)
    BY <2>1, <2>2, <2>4, SigmaCarried
  <2> QED
    BY <2>5 DEF F, r
<1> HIDE DEF S, key
<1>5. Sigma(w, S) = Sigma(v, A)
  BY <1>1, <1>2, <1>3, <1>4, SigmaGrouped
<1> QED
  BY <1>5 DEF S

\* The values of h on a distribution, added up with their weights.
Weighted(f, h) == [x \in DOMAIN f |-> f[x] * h[x]]
Expect(f, h) == Sigma(Weighted(f, h), DOMAIN f)

\* What is expected after a first draw of a.
After(g, h, a) == Expect(g, [b \in DOMAIN g |-> h[a + b]])

\* The expectation of integers is an integer.
LEMMA ExpectIsInteger ==
    ASSUME NEW f, Dist(f), NEW h, \A x \in DOMAIN f : h[x] \in Int
    PROVE  /\ IsFiniteSet(DOMAIN f)
           /\ \A x \in DOMAIN f : Weighted(f, h)[x] \in Int /\ Weighted(f, h)[x] = f[x] * h[x]
           /\ Expect(f, h) \in Int
<1>1. IsFiniteSet(DOMAIN f) /\ \A x \in DOMAIN f : f[x] \in Nat
  BY DEF Dist
<1>2. \A x \in DOMAIN f : Weighted(f, h)[x] \in Int /\ Weighted(f, h)[x] = f[x] * h[x]
  <2> TAKE x \in DOMAIN f
  <2>1. Weighted(f, h)[x] = f[x] * h[x]
    BY DEF Weighted
  <2>2. f[x] \in Int /\ h[x] \in Int
    BY <1>1
  <2>3. f[x] * h[x] \in Int
    BY <2>2
  <2> QED
    BY <2>1, <2>3
<1> DEFINE w == Weighted(f, h)
<1> HIDE DEF w
<1>3. \A x \in DOMAIN f : w[x] \in Int /\ w[x] <= w[x]
  BY <1>2 DEF w
<1>4. Sigma(w, DOMAIN f) \in Int
  BY <1>1, <1>3, SigmaOrder
<1> QED
  BY <1>1, <1>2, <1>4 DEF Expect, w

\* The sum of two draws: the second is drawn after the first.
LEMMA ExpectPlus ==
    ASSUME NEW f, Dist(f), NEW g, Dist(g), NEW h, \A s \in Sums(f, g) : h[s] \in Int
    PROVE  Expect(Plus(f, g), h) = Expect(f, [a \in DOMAIN f |-> After(g, h, a)])
<1> DEFINE A == DOMAIN f
           B == DOMAIN g
           K == Sums(f, g)
           S == A \X B
           w == [p \in S |-> f[p[1]] * (g[p[2]] * h[p[1] + p[2]])]
           key == [p \in S |-> p[1] + p[2]]
           c == Plus(f, g)
<1>1. /\ IsFiniteSet(A) /\ IsFiniteSet(B) /\ A \subseteq Int /\ B \subseteq Int
      /\ \A a \in A : f[a] \in Nat
      /\ \A b \in B : g[b] \in Nat
  BY DEF Dist
<1>2. IsFiniteSet(S)
  BY <1>1, FS_Product
<1>3. Dist(c) /\ DOMAIN c = K /\ IsFiniteSet(K)
  BY PlusDist DEF Dist
<1>4. \A a \in A, b \in B : a + b \in K /\ h[a + b] \in Int
  BY DEF Sums
<1>5. \A a \in A, b \in B : w[<<a, b>>] = f[a] * (g[b] * h[a + b])
  OBVIOUS
<1>6. \A a \in A, b \in B : w[<<a, b>>] \in Int
  <2> TAKE a \in A, b \in B
  <2>1. w[<<a, b>>] = f[a] * (g[b] * h[a + b])
    BY <1>5
  <2>2. f[a] \in Int /\ g[b] \in Int /\ h[a + b] \in Int
    BY <1>1, <1>4
  <2> HIDE DEF w, A, B, K
  <2>3. g[b] * h[a + b] \in Int
    BY <2>2
  <2>4. f[a] * (g[b] * h[a + b]) \in Int
    BY <2>2, <2>3
  <2> QED
    BY <2>1, <2>4
<1>7. \A p \in S : w[p] \in Int /\ key[p] \in K
  BY <1>4, <1>6
<1>8. ASSUME NEW s \in K PROVE Weighted(c, h)[s] = Sigma(w, Fiber(S, key, s))
  <2> DEFINE P == Parts(f, g, s)
             F == Fiber(S, key, s)
             to == [a \in P |-> <<a, s - a>>]
             u == Ways(f, g, s)
             v == [a \in P |-> h[s] * u[a]]
  <2>1. /\ IsFiniteSet(P) /\ s \in Int /\ h[s] \in Int
        /\ \A a \in P : /\ a \in A /\ s - a \in B
                        /\ u[a] = f[a] * g[s - a] /\ u[a] \in Nat
    BY WaysOfDist
  <2>2. c[s] = Sigma(u, P)
    BY PlusDist
  <2>3. to \in Bijection(P, F)
    <3>1. \A a \in P : to[a] \in F
      <4> TAKE a \in P
      <4>1. a \in Int /\ s - a \in Int /\ a + (s - a) = s
        BY <1>1, <2>1
      <4>2. to[a] = <<a, s - a>> /\ <<a, s - a>> \in S
        BY <2>1
      <4>3. key[<<a, s - a>>] = s
        BY <4>1, <4>2
      <4> QED
        BY <4>2, <4>3 DEF Fiber
    <3>2. \A p \in F : p[1] \in P /\ to[p[1]] = p
      <4> TAKE p \in F
      <4>1. p \in S /\ p[1] + p[2] = s
        BY DEF Fiber
      <4>2. p = <<p[1], p[2]>> /\ p[1] \in A /\ p[2] \in B /\ p[1] \in Int /\ p[2] \in Int
        BY <1>1, <4>1
      <4>3. s - p[1] = p[2]
        BY <2>1, <4>1, <4>2
      <4>4. p[1] \in P
        BY <4>2, <4>3 DEF Parts
      <4> QED
        BY <4>2, <4>3, <4>4
    <3>3. to \in [P -> F]
      BY <3>1
    <3>4. \A a, b \in P : to[a] = to[b] => a = b
      OBVIOUS
    <3> HIDE DEF to, F, P
    <3>5. to \in Injection(P, F) /\ to \in Surjection(P, F)
      BY <3>2, <3>3, <3>4 DEF Injection, Surjection, IsInjective
    <3> QED
      BY <3>5 DEF Bijection
  <2>4. h[s] \in Int /\ \A a \in P : u[a] \in Int /\ v[a] = h[s] * u[a]
    BY <2>1
  <2>5. \A a \in P : v[a] \in Int /\ v[a] = w[to[a]]
    <3> TAKE a \in P
    <3>1. to[a] = <<a, s - a>> /\ a \in Int /\ s - a \in Int /\ a + (s - a) = s
      BY <1>1, <2>1
    <3>2. w[<<a, s - a>>] = f[a] * (g[s - a] * h[a + (s - a)])
      BY <1>5, <2>1
    <3>3. f[a] \in Int /\ g[s - a] \in Int
      BY <1>1, <2>1
    <3>4. v[a] = h[s] * (f[a] * g[s - a])
      BY <2>1
    <3> HIDE DEF v, w, to, P
    <3>5. h[s] * (f[a] * g[s - a]) = f[a] * (g[s - a] * h[s])
      BY <2>1, <3>3
    <3>6. v[a] \in Int
      BY <2>1, <3>3, <3>4
    <3> QED
      BY <3>1, <3>2, <3>4, <3>5, <3>6
  <2>6. F \subseteq S
    BY DEF Fiber
  <2>7. Weighted(c, h)[s] = c[s] * h[s]
    BY <1>3 DEF Weighted
  <2> HIDE DEF P, F, to, u, v, w, S, key
  <2>8. IsFiniteSet(F) /\ \A p \in F : w[p] \in Int
    BY <1>2, <1>7, <2>6, FS_Subset
  <2>9. Sigma(v, P) = Sigma(w, F)
    BY <2>1, <2>3, <2>5, <2>8, SigmaCarried
  <2>10. Sigma(u, P) \in Int /\ Sigma(v, P) = h[s] * Sigma(u, P)
    <3> DEFINE e == h[s]
    <3>1. IsFiniteSet(P) /\ e \in Int /\ \A a \in P : u[a] \in Int /\ v[a] = e * u[a]
      BY <2>1, <2>4
    <3> HIDE DEF e
    <3>2. Sigma(u, P) \in Int /\ Sigma(v, P) = e * Sigma(u, P)
      BY <3>1, SigmaScaled
    <3> QED
      BY <3>2 DEF e
  <2>11. c[s] * h[s] = h[s] * Sigma(u, P)
    BY <2>1, <2>2, <2>10
  <2> QED
    BY <2>7, <2>9, <2>10, <2>11 DEF F
<1>9. Sigma(w, S) = Expect(c, h)
  <2> DEFINE v == Weighted(c, h)
  <2> HIDE DEF S, key, w, v, K
  <2>1. \A k \in K : v[k] = Sigma(w, Fiber(S, key, k))
    BY <1>8 DEF v
  <2>2. Sigma(w, S) = Sigma(v, K)
    BY <1>2, <1>3, <1>7, <2>1, SigmaGrouped
  <2> QED
    BY <1>3, <2>2 DEF Expect, v
<1> DEFINE z == [a \in A |-> After(g, h, a)]
<1>10. ASSUME NEW a \in A PROVE Weighted(f, z)[a] = Sigma(RowOfTable(w, B, a), B)
  <2> DEFINE r == RowOfTable(w, B, a)
             k == [b \in B |-> h[a + b]]
             v == Weighted(g, k)
  <2>1. Weighted(f, z)[a] = f[a] * Sigma(v, B)
    BY DEF Weighted, After, Expect
  <2>2. \A b \in B : v[b] = g[b] * h[a + b] /\ r[b] = f[a] * (g[b] * h[a + b])
    BY <1>5 DEF Weighted, RowOfTable
  <2>3. \A b \in B : g[b] * h[a + b] \in Int
    BY <1>1, <1>4
  <2> HIDE DEF v, r, w
  <2>4. \A b \in B : v[b] \in Int /\ r[b] = f[a] * v[b]
    BY <2>2, <2>3
  <2>5. f[a] \in Int
    BY <1>1
  <2>6. Sigma(r, B) = f[a] * Sigma(v, B)
    BY <1>1, <2>4, <2>5, SigmaScaled
  <2> QED
    BY <2>1, <2>6 DEF r
<1>11. Sigma(w, S) = Expect(f, z)
  <2> DEFINE v == Weighted(f, z)
  <2> HIDE DEF v, w
  <2>1. \A a \in A : v[a] = Sigma(RowOfTable(w, B, a), B)
    BY <1>10 DEF v
  <2>2. Sigma(w, A \X B) = Sigma(v, A)
    BY <1>1, <1>6, <2>1, SigmaPairs
  <2> QED
    BY <2>2 DEF Expect, v
<1> QED
  BY <1>9, <1>11

\* One, everywhere on S.
Ones(S) == [x \in S |-> 1]

\* The sum of a constant.
LEMMA SigmaOfConstant ==
    ASSUME NEW S, IsFiniteSet(S), NEW c \in Int, NEW w, \A x \in S : w[x] = c
    PROVE  Sigma(w, S) = c * Cardinality(S) /\ Sigma(Ones(S), S) = Cardinality(S)
<1> DEFINE T == [x \in S |-> {x}]
           o == Ones(S)
<1>1. \A x \in S : T[x] = {x}
  OBVIOUS
<1>2. \A x \in S : IsFiniteSet(T[x]) /\ Cardinality(T[x]) = 1
  BY <1>1, FS_Singleton
<1>3. \A x \in S : o[x] = 1
  BY DEF Ones
<1>4. UNION {T[x] : x \in S} = S
  BY <1>1
<1>5. \A x, y \in S : x # y => T[x] \cap T[y] = {}
  BY <1>1
<1> HIDE DEF T, o
<1>6. \A x \in S : IsFiniteSet(T[x])
  BY <1>2
<1>7. \A x \in S : o[x] = Cardinality(T[x])
  BY <1>2, <1>3
<1>8. Cardinality(UNION {T[x] : x \in S}) = Sigma(o, S)
  BY <1>5, <1>6, <1>7, SigmaOfSizes
<1>9. \A x \in S : o[x] \in Int /\ w[x] = c * o[x]
  BY <1>3
<1>10. Sigma(w, S) = c * Sigma(o, S)
  BY <1>9, SigmaScaled
<1> QED
  BY <1>4, <1>8, <1>10 DEF o

\* An expectation of a choice is the sum over the indices.
LEMMA ExpectChoice ==
    ASSUME NEW values, IsFiniteSet(DOMAIN values), DOMAIN values # {},
           \A i \in DOMAIN values : values[i] \in Int,
           NEW h, \A i \in DOMAIN values : h[values[i]] \in Int,
           NEW w, \A i \in DOMAIN values : w[i] = h[values[i]]
    PROVE  Expect(Choice(values), h) = Sigma(w, DOMAIN values)
<1> DEFINE D == DOMAIN values
           V == {values[i] : i \in D}
           c == Choice(values)
           v == Weighted(c, h)
<1>1. c = [x \in V |-> Cardinality({i \in DOMAIN values : values[i] = x})]
  BY TableIsFunction DEF Choice, Range
<1>2. IsFiniteSet(V) /\ \A i \in D : values[i] \in V
  BY ImageFinite
<1>3. \A i \in D : w[i] \in Int
  OBVIOUS
<1>4. ASSUME NEW x \in V PROVE v[x] = Sigma(w, Fiber(D, values, x))
  <2> DEFINE F == Fiber(D, values, x)
             e == h[x]
  <2>1. F \subseteq D /\ \A i \in F : values[i] = x
    BY DEF Fiber
  <2>2. e \in Int
    OBVIOUS
  <2>3. v[x] = c[x] * e /\ c[x] = Cardinality(F)
    BY <1>1 DEF Weighted, Fiber
  <2>4. \A i \in F : w[i] = e
    BY <2>1
  <2> HIDE DEF F, e, v, c
  <2>5. IsFiniteSet(F)
    BY <2>1, FS_Subset
  <2>6. Sigma(w, F) = e * Cardinality(F)
    BY <2>2, <2>4, <2>5, SigmaOfConstant
  <2>7. Cardinality(F) \in Int
    BY <2>5, FS_CardinalityType
  <2> QED
    BY <2>2, <2>3, <2>6, <2>7 DEF F
<1>5. DOMAIN c = V
  BY <1>1
<1> HIDE DEF D, V, c, v
<1>6. IsFiniteSet(D)
  BY DEF D
<1>7. Sigma(w, D) = Sigma(v, V)
  BY <1>2, <1>3, <1>4, <1>6, SigmaGrouped
<1> QED
  BY <1>5, <1>7 DEF Expect, v, c, D

\* Two functions, each with a factor, added up.
Linear(S, a, p, b, q) == [x \in S |-> a * p[x] + b * q[x]]

\* An expectation is linear.
LEMMA ExpectLinear ==
    ASSUME NEW f, Dist(f), NEW a \in Int, NEW b \in Int, NEW p, NEW q,
           \A x \in DOMAIN f : p[x] \in Int /\ q[x] \in Int
    PROVE  /\ \A x \in DOMAIN f : /\ Linear(DOMAIN f, a, p, b, q)[x] \in Int
                                  /\ Linear(DOMAIN f, a, p, b, q)[x] = a * p[x] + b * q[x]
           /\ Expect(f, p) \in Int /\ Expect(f, q) \in Int
           /\ Expect(f, Linear(DOMAIN f, a, p, b, q)) = a * Expect(f, p) + b * Expect(f, q)
<1> DEFINE h == Linear(DOMAIN f, a, p, b, q)
<1>1. \A x \in DOMAIN f : h[x] = a * p[x] + b * q[x]
  BY DEF Linear
<1>2. \A x \in DOMAIN f : h[x] \in Int
  <2> TAKE x \in DOMAIN f
  <2>1. p[x] \in Int /\ q[x] \in Int
    OBVIOUS
  <2>2. a * p[x] \in Int /\ b * q[x] \in Int
    BY <2>1
  <2> QED
    BY <1>1, <2>2
<1> HIDE DEF h
<1> DEFINE S == DOMAIN f
           wh == Weighted(f, h)
           wp == Weighted(f, p)
           wq == Weighted(f, q)
<1>3. IsFiniteSet(S) /\ \A x \in S : f[x] \in Nat
  BY DEF Dist
<1>4. \A x \in S : wp[x] \in Int /\ wq[x] \in Int /\ wh[x] = a * wp[x] + b * wq[x]
  <2> TAKE x \in S
  <2>1. wh[x] = f[x] * (a * p[x] + b * q[x]) /\ wp[x] = f[x] * p[x] /\ wq[x] = f[x] * q[x]
    BY <1>1 DEF Weighted
  <2>2. f[x] \in Int /\ p[x] \in Int /\ q[x] \in Int
    BY <1>3
  <2> HIDE DEF wh, wp, wq
  <2>3. f[x] * p[x] \in Int /\ f[x] * q[x] \in Int
    BY <2>2
  <2>4. f[x] * (a * p[x] + b * q[x]) = a * (f[x] * p[x]) + b * (f[x] * q[x])
    BY <2>2
  <2> QED
    BY <2>1, <2>3, <2>4
<1> DEFINE ap == Factor(S, a, wp)
           bq == Factor(S, b, wq)
<1> HIDE DEF wh, wp, wq, S
<1>5. (\A x \in S : wp[x] \in Int) /\ (\A x \in S : wq[x] \in Int)
  BY <1>4
<1>6. /\ \A x \in S : ap[x] \in Int /\ ap[x] = a * wp[x]
      /\ Sigma(wp, S) \in Int /\ Sigma(ap, S) = a * Sigma(wp, S)
  BY <1>3, <1>5, SigmaOfFactor
<1>7. /\ \A x \in S : bq[x] \in Int /\ bq[x] = b * wq[x]
      /\ Sigma(wq, S) \in Int /\ Sigma(bq, S) = b * Sigma(wq, S)
  BY <1>3, <1>5, SigmaOfFactor
<1> HIDE DEF ap, bq
<1>8. IsFiniteSet(S) /\ \A x \in S : ap[x] \in Int /\ bq[x] \in Int /\ wh[x] = ap[x] + bq[x]
  BY <1>3, <1>4, <1>6, <1>7
<1>9. Sigma(wh, S) \in Int /\ Sigma(wh, S) = Sigma(ap, S) + Sigma(bq, S)
  BY ONLY <1>8, SigmaPlus
<1> QED
  <2>1. Expect(f, h) = a * Expect(f, p) + b * Expect(f, q) /\ Expect(f, p) \in Int /\ Expect(f, q) \in Int
    BY <1>6, <1>7, <1>9 DEF Expect, S, wh, wp, wq
  <2> QED
    BY <1>1, <1>2, <2>1 DEF h

\* A larger function has a larger expectation.
LEMMA ExpectOrder ==
    ASSUME NEW f, Dist(f), NEW p, NEW q,
           \A x \in DOMAIN f : p[x] \in Int /\ q[x] \in Int /\ p[x] <= q[x]
    PROVE  Expect(f, p) \in Int /\ Expect(f, q) \in Int /\ Expect(f, p) <= Expect(f, q)
<1> DEFINE S == DOMAIN f
           wp == Weighted(f, p)
           wq == Weighted(f, q)
<1>1. IsFiniteSet(S) /\ \A x \in S : f[x] \in Nat
  BY DEF Dist
<1>2. \A x \in S : wp[x] \in Int /\ wq[x] \in Int /\ wp[x] <= wq[x]
  <2> TAKE x \in S
  <2>1. wp[x] = f[x] * p[x] /\ wq[x] = f[x] * q[x]
    BY DEF Weighted
  <2>2. f[x] \in Nat /\ p[x] \in Int /\ q[x] \in Int /\ p[x] <= q[x]
    BY <1>1
  <2> HIDE DEF wp, wq
  <2>3. f[x] * p[x] \in Int /\ f[x] * q[x] \in Int
    BY <2>2
  <2>4. q[x] - p[x] \in Nat
    BY <2>2
  <2>5. f[x] * (q[x] - p[x]) \in Nat
    BY <2>2, <2>4
  <2>6. f[x] * (q[x] - p[x]) = f[x] * q[x] - f[x] * p[x]
    BY <2>2
  <2> QED
    BY <2>1, <2>3, <2>5, <2>6
<1> HIDE DEF S, wp, wq
<1>3. Sigma(wp, S) \in Int /\ Sigma(wq, S) \in Int /\ Sigma(wp, S) <= Sigma(wq, S)
  BY <1>1, <1>2, SigmaOrder
<1> QED
  BY <1>3 DEF Expect, S, wp, wq

\* Only the values on the distribution count.
LEMMA ExpectSame ==
    ASSUME NEW f, NEW p, NEW q, \A x \in DOMAIN f : p[x] = q[x]
    PROVE  Expect(f, p) = Expect(f, q)
<1>1. Weighted(f, p) = Weighted(f, q)
  BY DEF Weighted
<1> QED
  BY <1>1 DEF Expect

-----------------------------------------------------------------------------
(***************************************************************************)
(* How far a resampled mean strays.  The first, second and fourth moments  *)
(* of n draws from n values about their mean, by induction on the draws,   *)
(* and from them a bound for the weight on either side of the mean: it is  *)
(* at least a thirty-fourth, whatever the values are.                      *)
(***************************************************************************)
\* The powers of a function, value by value.
Square(u) == [x \in DOMAIN u |-> u[x] * u[x]]
Cube(u) == [x \in DOMAIN u |-> u[x] * (u[x] * u[x])]
Fourth(u) == [x \in DOMAIN u |-> (u[x] * u[x]) * (u[x] * u[x])]

\* The powers of an integer are integers.
LEMMA PowersAreIntegers ==
    ASSUME NEW a \in Int
    PROVE  a * a \in Int /\ a * (a * a) \in Int /\ (a * a) * (a * a) \in Int
<1>1. a * a \in Int
  OBVIOUS
<1> QED
  BY <1>1

\* The second and fourth power of a sum.
LEMMA PowersOfSum ==
    ASSUME NEW a \in Int, NEW b \in Int
    PROVE  /\ (a + b) * (a + b) = (a * a) + ((2 * a) * b + (b * b))
           /\ ((a + b) * (a + b)) * ((a + b) * (a + b))
                = (((a * a) * (a * a)) + (4 * (a * (a * a))) * b)
                    + ((6 * (a * a)) * (b * b) + ((4 * a) * (b * (b * b)) + ((b * b) * (b * b))))
OBVIOUS

\* The second moment about -a of a draw without drift.
LEMMA ShiftedSquare ==
    ASSUME NEW f, Dist(f), NEW a \in Int, NEW v, DOMAIN v = DOMAIN f, \A x \in DOMAIN f : v[x] \in Int,
           Expect(f, v) = 0,
           NEW h, \A x \in DOMAIN f : h[x] = (a + v[x]) * (a + v[x])
    PROVE  Expect(f, h) = (a * a) * Expect(f, Ones(DOMAIN f)) + Expect(f, Square(v))
<1> DEFINE S == DOMAIN f
           o == Ones(S)
           q == Square(v)
           t == 2 * a
           e == 1
           c == a * a
           m == Linear(S, t, v, e, q)
           n == Linear(S, c, o, e, m)
<1>0. Dist(f) /\ S = DOMAIN f /\ t \in Int /\ e \in Int /\ c \in Int
  OBVIOUS
<1>1. \A x \in S : o[x] = 1 /\ q[x] = v[x] * v[x] /\ v[x] \in Int
  BY DEF Ones, Square
<1>2. \A x \in S : v[x] \in Int /\ q[x] \in Int
  BY <1>1, PowersAreIntegers
<1>3. \A x \in S : h[x] = (a * a) + ((2 * a) * v[x] + (v[x] * v[x]))
  BY <1>1, PowersOfSum
<1>4. \A x \in S : h[x] = c + (t * v[x] + q[x])
  BY <1>1, <1>3
<1> HIDE DEF S, o, q, t, e, c
<1>5. /\ \A x \in S : m[x] \in Int /\ m[x] = t * v[x] + e * q[x]
      /\ Expect(f, q) \in Int /\ Expect(f, m) = t * Expect(f, v) + e * Expect(f, q)
  BY ONLY <1>0, <1>2, ExpectLinear
<1>6. \A x \in S : o[x] \in Int /\ m[x] \in Int
  BY <1>1, <1>5
<1> HIDE DEF m
<1>7. /\ \A x \in S : n[x] \in Int /\ n[x] = c * o[x] + e * m[x]
      /\ Expect(f, o) \in Int /\ Expect(f, n) = c * Expect(f, o) + e * Expect(f, m)
  BY ONLY <1>0, <1>6, ExpectLinear
<1> HIDE DEF n
<1>8. \A x \in S : h[x] = n[x]
  <2> TAKE x \in S
  <2>1. t * v[x] \in Int /\ q[x] \in Int
    BY <1>0, <1>2
  <2>2. m[x] = t * v[x] + q[x] /\ n[x] = c + m[x]
    BY <1>0, <1>1, <1>5, <1>7, <2>1 DEF e
  <2> QED
    BY <1>4, <2>2
<1>9. Expect(f, h) = Expect(f, n)
  BY <1>0, <1>8, ExpectSame
<1>10. t * Expect(f, v) = 0
  BY <1>0
<1>11. Expect(f, m) = Expect(f, q)
  BY <1>5, <1>10 DEF e
<1> QED
  BY <1>5, <1>7, <1>9, <1>11 DEF e, c, o, q, S

\* The fourth moment about -a of a draw without drift.
LEMMA ShiftedFourth ==
    ASSUME NEW f, Dist(f), NEW a \in Int, NEW v, DOMAIN v = DOMAIN f, \A x \in DOMAIN f : v[x] \in Int,
           Expect(f, v) = 0,
           NEW h, \A x \in DOMAIN f : h[x] = ((a + v[x]) * (a + v[x])) * ((a + v[x]) * (a + v[x]))
    PROVE  Expect(f, h) = ((a * a) * (a * a)) * Expect(f, Ones(DOMAIN f))
               + ((6 * (a * a)) * Expect(f, Square(v)) + ((4 * a) * Expect(f, Cube(v)) + Expect(f, Fourth(v))))
<1> DEFINE S == DOMAIN f
           o == Ones(S)
           v2 == Square(v)
           v3 == Cube(v)
           v4 == Fourth(v)
           e == 1
           c1 == 4 * a
           c2 == 6 * (a * a)
           c3 == 4 * (a * (a * a))
           c4 == (a * a) * (a * a)
           m1 == Linear(S, c1, v3, e, v4)
           m2 == Linear(S, c2, v2, e, m1)
           m3 == Linear(S, c3, v, e, m2)
           m4 == Linear(S, c4, o, e, m3)
<1>0. Dist(f) /\ S = DOMAIN f /\ e \in Int /\ c1 \in Int /\ c2 \in Int /\ c3 \in Int /\ c4 \in Int
  BY PowersAreIntegers
<1>1. \A x \in S : /\ o[x] = 1 /\ v[x] \in Int
                   /\ v2[x] = v[x] * v[x] /\ v3[x] = v[x] * (v[x] * v[x])
                   /\ v4[x] = (v[x] * v[x]) * (v[x] * v[x])
  BY DEF Ones, Square, Cube, Fourth
<1>2. \A x \in S : v2[x] \in Int /\ v3[x] \in Int /\ v4[x] \in Int
  BY <1>1, PowersAreIntegers
<1>3. \A x \in S : h[x] = (c4 + c3 * v[x]) + (c2 * v2[x] + (c1 * v3[x] + v4[x]))
  BY <1>1, PowersOfSum
<1> HIDE DEF S, o, v2, v3, v4, c1, c2, c3, c4, e
<1>4. \A x \in S : o[x] = 1 /\ o[x] \in Int /\ v[x] \in Int
  BY <1>1
<1>5. /\ \A x \in S : m1[x] \in Int /\ m1[x] = c1 * v3[x] + e * v4[x]
      /\ Expect(f, v3) \in Int /\ Expect(f, v4) \in Int
      /\ Expect(f, m1) = c1 * Expect(f, v3) + e * Expect(f, v4)
  BY ONLY <1>0, <1>2, ExpectLinear
<1>6. \A x \in S : v2[x] \in Int /\ m1[x] \in Int
  BY <1>2, <1>5
<1> HIDE DEF m1
<1>7. /\ \A x \in S : m2[x] \in Int /\ m2[x] = c2 * v2[x] + e * m1[x]
      /\ Expect(f, v2) \in Int /\ Expect(f, m1) \in Int
      /\ Expect(f, m2) = c2 * Expect(f, v2) + e * Expect(f, m1)
  BY ONLY <1>0, <1>6, ExpectLinear
<1>8. \A x \in S : v[x] \in Int /\ m2[x] \in Int
  BY <1>4, <1>7
<1> HIDE DEF m2
<1>9. /\ \A x \in S : m3[x] \in Int /\ m3[x] = c3 * v[x] + e * m2[x]
      /\ Expect(f, m2) \in Int
      /\ Expect(f, m3) = c3 * Expect(f, v) + e * Expect(f, m2)
  BY ONLY <1>0, <1>8, ExpectLinear
<1>10. \A x \in S : o[x] \in Int /\ m3[x] \in Int
  BY <1>4, <1>9
<1> HIDE DEF m3
<1>11. /\ \A x \in S : m4[x] \in Int /\ m4[x] = c4 * o[x] + e * m3[x]
       /\ Expect(f, o) \in Int /\ Expect(f, m3) \in Int
       /\ Expect(f, m4) = c4 * Expect(f, o) + e * Expect(f, m3)
  BY ONLY <1>0, <1>10, ExpectLinear
<1> HIDE DEF m4
<1>12. \A x \in S : h[x] = m4[x]
  <2> TAKE x \in S
  <2>1. /\ c1 * v3[x] \in Int /\ c2 * v2[x] \in Int /\ c3 * v[x] \in Int /\ c4 * o[x] = c4
        /\ v4[x] \in Int
    BY <1>0, <1>2, <1>4
  <2>2. e * v4[x] = v4[x] /\ e * m1[x] = m1[x] /\ e * m2[x] = m2[x] /\ e * m3[x] = m3[x]
    BY <1>2, <1>6, <1>8, <1>10 DEF e
  <2>3. m4[x] = c4 + (c3 * v[x] + (c2 * v2[x] + (c1 * v3[x] + v4[x])))
    BY <1>5, <1>7, <1>9, <1>11, <2>1, <2>2
  <2> QED
    BY <1>0, <1>3, <2>1, <2>3
<1>13. Expect(f, h) = Expect(f, m4)
  BY <1>0, <1>12, ExpectSame
<1>14. c3 * Expect(f, v) = 0
  BY <1>0
<1>15. /\ e * Expect(f, v4) = Expect(f, v4) /\ e * Expect(f, m1) = Expect(f, m1)
       /\ e * Expect(f, m2) = Expect(f, m2) /\ e * Expect(f, m3) = Expect(f, m3)
  BY <1>5, <1>7, <1>9, <1>11 DEF e
<1>16. Expect(f, m3) = Expect(f, m2)
  BY <1>9, <1>14, <1>15
<1>17. Expect(f, h) = c4 * Expect(f, o) + (c2 * Expect(f, v2) + (c1 * Expect(f, v3) + Expect(f, v4)))
  BY <1>5, <1>7, <1>11, <1>13, <1>15, <1>16
<1> QED
  BY <1>17 DEF c1, c2, c4, o, v2, v3, v4, S

\* The sum of two draws, when what the second adds is known.
LEMMA ExpectAfter ==
    ASSUME NEW f, Dist(f), NEW g, Dist(g), NEW h, \A s \in Sums(f, g) : h[s] \in Int,
           NEW m, \A a \in DOMAIN f : m[a] = After(g, h, a)
    PROVE  Expect(Plus(f, g), h) = Expect(f, m)
<1> DEFINE r == [a \in DOMAIN f |-> After(g, h, a)]
<1>1. \A a \in DOMAIN f : r[a] = m[a]
  OBVIOUS
<1>2. Expect(Plus(f, g), h) = Expect(f, r)
  BY ExpectPlus
<1> HIDE DEF r
<1>3. Expect(f, r) = Expect(f, m)
  BY <1>1, ExpectSame
<1> QED
  BY <1>2, <1>3

\* The total weight and the mean of a sum of draws, the second without drift.
LEMMA MeanOfSum ==
    ASSUME NEW f, Dist(f), NEW g, Dist(g), NEW u, \A a \in DOMAIN f : u[a] \in Int,
           NEW v, \A b \in DOMAIN g : v[b] \in Int, Expect(f, u) = 0, Expect(g, v) = 0,
           NEW z, \A a \in DOMAIN f, b \in DOMAIN g : z[a + b] = u[a] + v[b]
    PROVE  /\ Expect(Plus(f, g), Ones(Sums(f, g)))
                = Expect(g, Ones(DOMAIN g)) * Expect(f, Ones(DOMAIN f))
           /\ Expect(Plus(f, g), z) = 0
<1> DEFINE A == DOMAIN f
           B == DOMAIN g
           K == Sums(f, g)
           n == Expect(g, Ones(B))
           o == Ones(A)
           oo == Ones(B)
           ok == Ones(K)
           nil == 0
           e == 1
<1>0. Dist(f) /\ Dist(g) /\ A = DOMAIN f /\ B = DOMAIN g /\ nil \in Int /\ e \in Int
  OBVIOUS
<1>1. \A a \in A : o[a] \in Int /\ o[a] = 1
  BY DEF Ones
<1>2. \A b \in B : oo[b] \in Int /\ oo[b] = 1
  BY DEF Ones
<1>3. \A s \in K : ok[s] \in Int /\ ok[s] = 1
  BY DEF Ones
<1>4. \A a \in A, b \in B : a + b \in K
  BY DEF Sums
<1>5. n \in Int
  <2> HIDE DEF oo, B
  <2>1. \A b \in B : oo[b] \in Int
    BY <1>2
  <2>2. Expect(g, oo) \in Int
    BY <1>0, <2>1, ExpectIsInteger
  <2> QED
    BY <2>2 DEF oo
<1> DEFINE m == Linear(A, n, o, nil, o)
           mz == Linear(A, n, u, nil, u)
<1> HIDE DEF nil, A, B, K, o, oo, ok, e
<1>6. ASSUME NEW a \in A
      PROVE  After(g, ok, a) = n
  <2> DEFINE k == [b \in B |-> ok[a + b]]
  <2>1. \A b \in DOMAIN g : k[b] = oo[b]
    BY <1>2, <1>3, <1>4 DEF B
  <2>2. After(g, ok, a) = Expect(g, k)
    BY DEF After, B
  <2> HIDE DEF k
  <2>3. Expect(g, k) = Expect(g, oo)
    BY <2>1, ExpectSame
  <2> QED
    BY <2>2, <2>3 DEF oo
<1>7. ASSUME NEW a \in A
      PROVE  After(g, z, a) = n * u[a]
  <2> DEFINE k == [b \in B |-> z[a + b]]
             c == u[a]
             l == Linear(B, c, oo, e, v)
  <2>1. c \in Int
    BY DEF A
  <2>2. \A b \in B : oo[b] \in Int /\ v[b] \in Int
    BY <1>2 DEF B
  <2>3. \A b \in B : k[b] = c + v[b]
    BY DEF A, B
  <2>4. After(g, z, a) = Expect(g, k)
    BY DEF After, B
  <2> HIDE DEF k, c
  <2>5. /\ \A b \in B : l[b] \in Int /\ l[b] = c * oo[b] + e * v[b]
        /\ Expect(g, l) = c * Expect(g, oo) + e * Expect(g, v)
    BY ONLY <1>0, <2>1, <2>2, ExpectLinear
  <2>6. \A b \in DOMAIN g : k[b] = l[b]
    <3> TAKE b \in DOMAIN g
    <3>1. l[b] = c * 1 + 1 * v[b] /\ v[b] \in Int
      BY <1>2, <2>2, <2>5 DEF e, B
    <3> QED
      BY <2>1, <2>3, <3>1 DEF B
  <2> HIDE DEF l
  <2>7. Expect(g, k) = Expect(g, l)
    BY <2>6, ExpectSame
  <2>8. Expect(g, l) = c * n + 1 * 0
    BY <2>5 DEF e, oo
  <2> QED
    BY <1>5, <2>1, <2>4, <2>7, <2>8 DEF c
<1> HIDE DEF n
<1>8. /\ \A a \in A : m[a] \in Int /\ m[a] = n * o[a] + nil * o[a]
      /\ Expect(f, o) \in Int /\ Expect(f, m) = n * Expect(f, o) + nil * Expect(f, o)
  BY ONLY <1>0, <1>1, <1>5, ExpectLinear
<1>9. \A a \in A : u[a] \in Int
  BY DEF A
<1>10. /\ \A a \in A : mz[a] \in Int /\ mz[a] = n * u[a] + nil * u[a]
       /\ Expect(f, mz) = n * Expect(f, u) + nil * Expect(f, u)
  BY ONLY <1>0, <1>5, <1>9, ExpectLinear
<1> HIDE DEF m, mz
<1>11. \A a \in DOMAIN f : m[a] = After(g, ok, a) /\ mz[a] = After(g, z, a)
  <2> TAKE a \in DOMAIN f
  <2>1. a \in A /\ u[a] \in Int
    BY DEF A
  <2>2. nil * u[a] = 0 /\ n * u[a] \in Int
    BY <1>5, <2>1 DEF nil
  <2>3. m[a] = n
    BY <1>1, <1>5, <1>8, <2>1 DEF nil
  <2>4. mz[a] = n * u[a]
    BY <1>10, <2>1, <2>2
  <2> QED
    BY <1>6, <1>7, <2>1, <2>3, <2>4
<1>12. Expect(Plus(f, g), ok) = Expect(f, m)
  BY <1>3, <1>11, ExpectAfter DEF K
<1>13. \A s \in Sums(f, g) : z[s] \in Int
  BY DEF Sums
<1>14. Expect(Plus(f, g), z) = Expect(f, mz)
  BY <1>11, <1>13, ExpectAfter
<1>15. Expect(f, m) = n * Expect(f, o)
  BY <1>5, <1>8 DEF nil
<1>16. Expect(f, mz) = 0
  BY <1>5, <1>10 DEF nil
<1> QED
  BY <1>12, <1>14, <1>15, <1>16 DEF n, o, ok, K, A, B

\* The second moment of a sum of draws, the second without drift.
LEMMA SquareOfSum ==
    ASSUME NEW f, Dist(f), NEW g, Dist(g), NEW u, DOMAIN u = DOMAIN f, \A a \in DOMAIN f : u[a] \in Int,
           NEW v, DOMAIN v = DOMAIN g, \A b \in DOMAIN g : v[b] \in Int, Expect(g, v) = 0,
           NEW z, DOMAIN z = Sums(f, g), \A a \in DOMAIN f, b \in DOMAIN g : z[a + b] = u[a] + v[b]
    PROVE  Expect(Plus(f, g), Square(z))
             = Expect(g, Ones(DOMAIN g)) * Expect(f, Square(u))
                 + Expect(g, Square(v)) * Expect(f, Ones(DOMAIN f))
<1> DEFINE A == DOMAIN f
           B == DOMAIN g
           o == Ones(A)
           oo == Ones(B)
           u2 == Square(u)
           v2 == Square(v)
           z2 == Square(z)
           n == Expect(g, oo)
           w == Expect(g, v2)
           m == Linear(A, n, u2, w, o)
<1>0. Dist(f) /\ Dist(g) /\ A = DOMAIN f /\ B = DOMAIN g
  OBVIOUS
<1>1. \A a \in A : u[a] \in Int /\ u2[a] = u[a] * u[a] /\ o[a] = 1
  BY DEF Ones, Square
<1>2. \A a \in A : u2[a] \in Int /\ o[a] \in Int
  BY <1>1, PowersAreIntegers
<1>3. \A b \in B : v[b] \in Int /\ v2[b] = v[b] * v[b] /\ oo[b] = 1
  BY DEF Ones, Square
<1>4. \A b \in B : v2[b] \in Int /\ oo[b] \in Int
  BY <1>3, PowersAreIntegers
<1>5. \A a \in A, b \in B : a + b \in Sums(f, g) /\ z2[a + b] = (u[a] + v[b]) * (u[a] + v[b])
  BY DEF Sums, Square
<1>6. \A s \in Sums(f, g) : z2[s] \in Int
  <2> TAKE s \in Sums(f, g)
  <2>1. PICK a \in A, b \in B : s = a + b
    BY DEF Sums
  <2>2. u[a] + v[b] \in Int /\ z2[s] = (u[a] + v[b]) * (u[a] + v[b])
    BY <1>1, <1>3, <1>5, <2>1
  <2> HIDE DEF z2, A, B
  <2> QED
    BY <2>2, PowersAreIntegers
<1> HIDE DEF A, B, o, oo, u2, v2, z2
<1>7. n \in Int /\ w \in Int
  BY <1>0, <1>4, ExpectIsInteger
<1>8. ASSUME NEW a \in A PROVE After(g, z2, a) = (u[a] * u[a]) * n + w
  <2> DEFINE k == [b \in B |-> z2[a + b]]
             c == u[a]
  <2>1. \A b \in DOMAIN g : k[b] = (c + v[b]) * (c + v[b])
    BY <1>5 DEF B
  <2>2. After(g, z2, a) = Expect(g, k)
    BY DEF After, B
  <2>3. c \in Int
    BY <1>1
  <2> HIDE DEF k, c
  <2>4. Expect(g, k) = (c * c) * Expect(g, Ones(DOMAIN g)) + Expect(g, Square(v))
    BY <2>1, <2>3, ShiftedSquare
  <2> QED
    BY <2>2, <2>4 DEF c, oo, v2, B
<1> HIDE DEF n, w
<1>9. /\ \A a \in A : m[a] \in Int /\ m[a] = n * u2[a] + w * o[a]
      /\ Expect(f, m) = n * Expect(f, u2) + w * Expect(f, o)
  BY ONLY <1>0, <1>2, <1>7, ExpectLinear
<1> HIDE DEF m
<1>10. \A a \in DOMAIN f : m[a] = After(g, z2, a)
  <2> TAKE a \in DOMAIN f
  <2>1. a \in A /\ u2[a] \in Int
    BY <1>2 DEF A
  <2>2. m[a] = n * u2[a] + w
    BY <1>1, <1>7, <1>9, <2>1
  <2>3. After(g, z2, a) = u2[a] * n + w
    BY <1>1, <1>8, <2>1
  <2> QED
    BY <1>7, <2>1, <2>2, <2>3
<1>11. Expect(Plus(f, g), z2) = Expect(f, m)
  BY <1>6, <1>10, ExpectAfter
<1> QED
  BY <1>9, <1>11 DEF n, w, o, oo, u2, v2, z2, A, B

\* The fourth moment, when the first draw has no drift either.
LEMMA FourthOfSum ==
    ASSUME NEW f, Dist(f), NEW g, Dist(g), NEW u, DOMAIN u = DOMAIN f, \A a \in DOMAIN f : u[a] \in Int,
           NEW v, DOMAIN v = DOMAIN g, \A b \in DOMAIN g : v[b] \in Int,
           Expect(f, u) = 0, Expect(g, v) = 0,
           NEW z, DOMAIN z = Sums(f, g), \A a \in DOMAIN f, b \in DOMAIN g : z[a + b] = u[a] + v[b]
    PROVE  Expect(Plus(f, g), Fourth(z))
             = Expect(g, Ones(DOMAIN g)) * Expect(f, Fourth(u))
                 + ((6 * Expect(g, Square(v))) * Expect(f, Square(u))
                     + Expect(g, Fourth(v)) * Expect(f, Ones(DOMAIN f)))
<1> DEFINE A == DOMAIN f
           B == DOMAIN g
           o == Ones(A)
           oo == Ones(B)
           u2 == Square(u)
           u4 == Fourth(u)
           v2 == Square(v)
           v3 == Cube(v)
           v4 == Fourth(v)
           z4 == Fourth(z)
           e == 1
           n == Expect(g, oo)
           w2 == Expect(g, v2)
           w3 == Expect(g, v3)
           w4 == Expect(g, v4)
           c1 == 4 * w3
           c2 == 6 * w2
           m1 == Linear(A, c1, u, w4, o)
           m2 == Linear(A, c2, u2, e, m1)
           m3 == Linear(A, n, u4, e, m2)
<1>0. Dist(f) /\ Dist(g) /\ A = DOMAIN f /\ B = DOMAIN g /\ e \in Int
  OBVIOUS
<1>1. \A a \in A : /\ u[a] \in Int /\ u2[a] = u[a] * u[a] /\ o[a] = 1
                   /\ u4[a] = (u[a] * u[a]) * (u[a] * u[a])
  BY DEF Ones, Square, Fourth
<1>2. \A a \in A : u2[a] \in Int /\ u4[a] \in Int /\ o[a] \in Int
  BY <1>1, PowersAreIntegers
<1>3. \A b \in B : /\ v[b] \in Int /\ v2[b] = v[b] * v[b] /\ oo[b] = 1
                   /\ v3[b] = v[b] * (v[b] * v[b]) /\ v4[b] = (v[b] * v[b]) * (v[b] * v[b])
  BY DEF Ones, Square, Cube, Fourth
<1>4. \A b \in B : v2[b] \in Int /\ v3[b] \in Int /\ v4[b] \in Int /\ oo[b] \in Int
  BY <1>3, PowersAreIntegers
<1>5. \A a \in A, b \in B : /\ a + b \in Sums(f, g)
                            /\ z4[a + b] = ((u[a] + v[b]) * (u[a] + v[b])) * ((u[a] + v[b]) * (u[a] + v[b]))
  BY DEF Sums, Fourth
<1>6. \A s \in Sums(f, g) : z4[s] \in Int
  <2> TAKE s \in Sums(f, g)
  <2>1. PICK a \in A, b \in B : s = a + b
    BY DEF Sums
  <2>2. u[a] + v[b] \in Int /\ z4[s] = ((u[a] + v[b]) * (u[a] + v[b])) * ((u[a] + v[b]) * (u[a] + v[b]))
    BY <1>1, <1>3, <1>5, <2>1
  <2> HIDE DEF z4, A, B
  <2> QED
    BY <2>2, PowersAreIntegers
<1> HIDE DEF A, B, o, oo, u2, u4, v2, v3, v4, z4, e
<1>7. n \in Int /\ w2 \in Int /\ w3 \in Int /\ w4 \in Int
  BY <1>0, <1>4, ExpectIsInteger
<1>8. ASSUME NEW a \in A
      PROVE  After(g, z4, a) = ((u[a] * u[a]) * (u[a] * u[a])) * n
                                 + ((6 * (u[a] * u[a])) * w2 + ((4 * u[a]) * w3 + w4))
  <2> DEFINE k == [b \in B |-> z4[a + b]]
             c == u[a]
  <2>1. \A b \in DOMAIN g : k[b] = ((c + v[b]) * (c + v[b])) * ((c + v[b]) * (c + v[b]))
    BY <1>5 DEF B
  <2>2. After(g, z4, a) = Expect(g, k)
    BY DEF After, B
  <2>3. c \in Int
    BY <1>1
  <2> HIDE DEF k, c
  <2>4. Expect(g, k) = ((c * c) * (c * c)) * Expect(g, Ones(DOMAIN g))
               + ((6 * (c * c)) * Expect(g, Square(v)) + ((4 * c) * Expect(g, Cube(v)) + Expect(g, Fourth(v))))
    BY <2>1, <2>3, ShiftedFourth
  <2> QED
    BY <2>2, <2>4 DEF c, oo, v2, v3, v4, B
<1> HIDE DEF n, w2, w3, w4
<1>9. c1 \in Int /\ c2 \in Int
  BY <1>7
<1>10. \A a \in A : u[a] \in Int /\ o[a] \in Int
  BY <1>1, <1>2
<1> HIDE DEF c1, c2
<1>11. /\ \A a \in A : m1[a] \in Int /\ m1[a] = c1 * u[a] + w4 * o[a]
       /\ Expect(f, o) \in Int /\ Expect(f, m1) = c1 * Expect(f, u) + w4 * Expect(f, o)
  BY ONLY <1>0, <1>7, <1>9, <1>10, ExpectLinear
<1>12. \A a \in A : u2[a] \in Int /\ m1[a] \in Int
  BY <1>2, <1>11
<1> HIDE DEF m1
<1>13. /\ \A a \in A : m2[a] \in Int /\ m2[a] = c2 * u2[a] + e * m1[a]
       /\ Expect(f, u2) \in Int /\ Expect(f, m1) \in Int
       /\ Expect(f, m2) = c2 * Expect(f, u2) + e * Expect(f, m1)
  BY ONLY <1>0, <1>9, <1>12, ExpectLinear
<1>14. \A a \in A : u4[a] \in Int /\ m2[a] \in Int
  BY <1>2, <1>13
<1> HIDE DEF m2
<1>15. /\ \A a \in A : m3[a] \in Int /\ m3[a] = n * u4[a] + e * m2[a]
       /\ Expect(f, u4) \in Int /\ Expect(f, m2) \in Int
       /\ Expect(f, m3) = n * Expect(f, u4) + e * Expect(f, m2)
  BY ONLY <1>0, <1>7, <1>14, ExpectLinear
<1> HIDE DEF m3
<1>16. \A a \in DOMAIN f : m3[a] = After(g, z4, a)
  <2> TAKE a \in DOMAIN f
  <2>1. a \in A /\ u[a] \in Int /\ u2[a] \in Int /\ u4[a] \in Int
    BY <1>1, <1>2 DEF A
  <2>2. m1[a] = c1 * u[a] + w4 /\ m1[a] \in Int
    BY <1>1, <1>7, <1>11, <2>1
  <2>3. m2[a] = c2 * u2[a] + m1[a] /\ m2[a] \in Int
    BY <1>13, <2>1, <2>2 DEF e
  <2>4. m3[a] = n * u4[a] + m2[a]
    BY <1>15, <2>1, <2>3 DEF e
  <2>5. After(g, z4, a) = u4[a] * n + ((6 * u2[a]) * w2 + ((4 * u[a]) * w3 + w4))
    BY <1>1, <1>8, <2>1
  <2>6. (6 * u2[a]) * w2 = c2 * u2[a] /\ (4 * u[a]) * w3 = c1 * u[a] /\ u4[a] * n = n * u4[a]
    BY <1>7, <2>1 DEF c1, c2
  <2> QED
    BY <2>2, <2>3, <2>4, <2>5, <2>6
<1>17. Expect(Plus(f, g), z4) = Expect(f, m3)
  BY <1>6, <1>16, ExpectAfter
<1>18. c1 * Expect(f, u) = 0
  BY <1>9
<1>19. w4 * Expect(f, o) \in Int
  BY <1>7, <1>11
<1>20. Expect(f, m1) = w4 * Expect(f, o)
  BY <1>11, <1>18, <1>19
<1>21. Expect(f, m3) = n * Expect(f, u4) + (c2 * Expect(f, u2) + w4 * Expect(f, o))
  BY <1>13, <1>15, <1>20 DEF e
<1> QED
  BY <1>17, <1>21 DEF n, w2, w4, c2, o, oo, u2, u4, v2, v4, z4, A, B

\* How far n times a value is from s.
Deviation(f, n, s) == [x \in DOMAIN f |-> n * x - s]

\* A draw without drift, of total weight n and second moment v.
Drift(c, n, s, v) ==
    /\ Dist(c) /\ n \in Nat \ {0} /\ s \in Int /\ v \in Nat
    /\ Expect(c, Ones(DOMAIN c)) = n
    /\ Expect(c, Deviation(c, n, s)) = 0
    /\ Expect(c, Square(Deviation(c, n, s))) = v
    /\ Expect(c, Fourth(Deviation(c, n, s))) <= v * v

\* One of the values, each as likely, about their mean.
LEMMA ChoiceDrift ==
    ASSUME NEW values, IsFiniteSet(DOMAIN values), DOMAIN values # {},
           \A i \in DOMAIN values : values[i] \in Int,
           NEW n, n = Cardinality(DOMAIN values),
           NEW s, s = Sigma(values, DOMAIN values)
    PROVE  \E v : Drift(Choice(values), n, s, v)
<1> DEFINE D == DOMAIN values
           c == Choice(values)
           V == DOMAIN c
           o == Ones(V)
           d == Deviation(c, n, s)
           d2 == Square(d)
           d4 == Fourth(d)
           one == [i \in D |-> 1]
           scaled == [i \in D |-> n * values[i]]
           back == [i \in D |-> 0 - s]
           dev == [i \in D |-> n * values[i] - s]
           sq == [i \in D |-> dev[i] * dev[i]]
           fo == [i \in D |-> sq[i] * sq[i]]
<1>1. IsFiniteSet(D) /\ D # {} /\ \A i \in D : values[i] \in Int
  OBVIOUS
<1>2. n \in Nat \ {0}
  BY FS_CardinalityType, FS_EmptySet
<1>3. \A i \in D : values[i] \in Int /\ values[i] <= values[i]
  OBVIOUS
<1>4. s \in Int
  BY <1>3, SigmaOrder
<1>5. Dist(c)
  BY ChoiceDist
<1>6. V = {values[i] : i \in D}
  BY TableIsFunction DEF Choice, Range
<1>7. \A i \in D : /\ values[i] \in V /\ o[values[i]] = 1
                   /\ d[values[i]] = dev[i]
                   /\ d2[values[i]] = sq[i]
                   /\ d4[values[i]] = fo[i]
  <2>1. \A i \in D : values[i] \in V /\ dev[i] = n * values[i] - s
    BY <1>6
  <2>2. \A x \in V : /\ o[x] = 1 /\ d[x] = n * x - s /\ d2[x] = d[x] * d[x]
                     /\ d4[x] = (d[x] * d[x]) * (d[x] * d[x])
    BY DEF Ones, Deviation, Square, Fourth
  <2>3. \A i \in D : sq[i] = dev[i] * dev[i] /\ fo[i] = sq[i] * sq[i]
    OBVIOUS
  <2> HIDE DEF V, o, d, d2, d4, dev, sq, fo
  <2> QED
    BY <2>1, <2>2, <2>3
<1>8. \A i \in D : /\ one[i] = 1 /\ scaled[i] = n * values[i] /\ back[i] = 0 - s
                   /\ dev[i] = n * values[i] - s /\ sq[i] = dev[i] * dev[i] /\ fo[i] = sq[i] * sq[i]
  OBVIOUS
<1> HIDE DEF c, V, o, d, d2, d4, one, scaled, back, dev, sq, fo
<1>9. \A i \in D : n * values[i] \in Int
  BY <1>1, <1>2
<1>10. \A i \in D : dev[i] \in Int /\ scaled[i] \in Int /\ back[i] \in Int /\ dev[i] = scaled[i] + back[i]
  BY <1>4, <1>8, <1>9
<1>11. \A i \in D : sq[i] \in Nat /\ fo[i] \in Nat
  <2> TAKE i \in D
  <2>1. dev[i] \in Int
    BY <1>10
  <2>2. dev[i] * dev[i] \in Nat
    BY <2>1
  <2>3. (dev[i] * dev[i]) * (dev[i] * dev[i]) \in Nat
    BY <2>2
  <2> QED
    BY <1>8, <2>2, <2>3
<1>12. Expect(c, o) = n
  <2>1. \A i \in D : one[i] = o[values[i]] /\ o[values[i]] \in Int /\ one[i] = 1
    BY <1>7, <1>8
  <2>2. Expect(c, o) = Sigma(one, D)
    BY <2>1, ExpectChoice DEF c
  <2> DEFINE u == 1
  <2>3. u \in Int /\ \A i \in D : one[i] = u
    BY <2>1
  <2> HIDE DEF u
  <2>4. Sigma(one, D) = u * Cardinality(D)
    BY <1>1, <2>3, SigmaOfConstant
  <2> QED
    BY <1>2, <2>2, <2>4 DEF u, D
<1>13. Expect(c, d) = 0
  <2>1. \A i \in D : dev[i] = d[values[i]] /\ d[values[i]] \in Int
    BY <1>7, <1>10
  <2>2. Expect(c, d) = Sigma(dev, D)
    BY <2>1, ExpectChoice DEF c
  <2>3. Sigma(dev, D) = Sigma(scaled, D) + Sigma(back, D)
    BY <1>1, <1>10, SigmaPlus
  <2>4. n \in Int /\ \A i \in D : values[i] \in Int /\ scaled[i] = n * values[i]
    BY <1>1, <1>2, <1>8
  <2>5. Sigma(scaled, D) = n * Sigma(values, D)
    BY <1>1, <2>4, SigmaScaled
  <2> DEFINE z == 0 - s
  <2>6. z \in Int /\ \A i \in D : back[i] = z
    BY <1>4, <1>8
  <2> HIDE DEF z
  <2>7. Sigma(back, D) = z * Cardinality(D)
    BY <1>1, <2>6, SigmaOfConstant
  <2>8. Sigma(dev, D) = n * s + (0 - s) * n
    BY <2>3, <2>5, <2>7 DEF z, D
  <2> QED
    BY <1>2, <1>4, <2>2, <2>8
<1>14. Expect(c, d2) = Sigma(sq, D)
  <2>1. \A i \in D : sq[i] = d2[values[i]] /\ d2[values[i]] \in Int
    BY <1>7, <1>11
  <2> QED
    BY <2>1, ExpectChoice DEF c
<1>15. Expect(c, d4) = Sigma(fo, D)
  <2>1. \A i \in D : fo[i] = d4[values[i]] /\ d4[values[i]] \in Int
    BY <1>7, <1>11
  <2> QED
    BY <2>1, ExpectChoice DEF c
<1> DEFINE v == Sigma(sq, D)
           w == [i \in D |-> v * sq[i]]
<1>16. v \in Nat /\ \A i \in D : sq[i] <= v
  BY <1>1, <1>11, SigmaNat
<1> HIDE DEF v
<1>17. \A i \in D : sq[i] \in Int /\ w[i] = v * sq[i]
  BY <1>11
<1> HIDE DEF w
<1>18. v \in Int /\ Sigma(w, D) = v * Sigma(sq, D)
  BY <1>1, <1>16, <1>17, SigmaScaled
<1>19. \A i \in D : fo[i] \in Int /\ w[i] \in Int /\ fo[i] <= w[i]
  <2> TAKE i \in D
  <2>1. sq[i] \in Nat /\ v \in Nat /\ v - sq[i] \in Nat
    BY <1>11, <1>16
  <2>2. (v - sq[i]) * sq[i] \in Nat /\ v * sq[i] \in Nat /\ sq[i] * sq[i] \in Nat
    BY <2>1
  <2>3. (v - sq[i]) * sq[i] = v * sq[i] - sq[i] * sq[i]
    BY <2>1
  <2> QED
    BY <1>8, <1>17, <2>2, <2>3
<1>20. Sigma(fo, D) <= Sigma(w, D)
  BY <1>1, <1>19, SigmaOrder
<1>21. Expect(c, d4) <= v * v
  BY <1>15, <1>18, <1>20 DEF v
<1>22. Drift(c, n, s, v)
  BY <1>2, <1>4, <1>5, <1>12, <1>13, <1>14, <1>16, <1>21 DEF Drift, o, d, d2, d4, V, v
<1> QED
  BY <1>22 DEF c

\* The moments of k draws, about k times the mean.
Scatter(p, n, s, v, k) ==
    /\ Dist(p)
    /\ Expect(p, Ones(DOMAIN p)) \in Nat \ {0}
    /\ Expect(p, Deviation(p, n, k * s)) = 0
    /\ n * Expect(p, Square(Deviation(p, n, k * s))) = (k * v) * Expect(p, Ones(DOMAIN p))
    /\ (n * n) * Expect(p, Fourth(Deviation(p, n, k * s)))
         <= ((k * n + 3 * (k * k)) * (v * v)) * Expect(p, Ones(DOMAIN p))

\* How the second moment grows.
LEMMA SecondStep ==
    ASSUME NEW n \in Int, NEW k \in Int, NEW v \in Int, NEW w \in Int, NEW m2 \in Int,
           n * m2 = (k * v) * w
    PROVE  n * (n * m2 + v * w) = ((k + 1) * v) * (n * w)
<1>1. n * (n * m2 + v * w) = n * (n * m2) + n * (v * w)
  <2> DEFINE y == v * w
             z == n * m2
  <2>1. y \in Int /\ z \in Int
    OBVIOUS
  <2> HIDE DEF y, z
  <2>2. n * (z + y) = n * z + n * y
    BY <2>1
  <2> QED
    BY <2>2 DEF y, z
<1>2. n * (n * m2) = n * ((k * v) * w)
  OBVIOUS
<1>3. n * ((k * v) * w) + n * (v * w) = ((k + 1) * v) * (n * w)
  OBVIOUS
<1> QED
  BY <1>1, <1>2, <1>3

\* A factor keeps the order.
LEMMA FactorKeepsOrder ==
    ASSUME NEW c \in Nat, NEW a \in Int, NEW b \in Int, a <= b
    PROVE  c * a \in Int /\ c * b \in Int /\ c * a <= c * b
<1>1. b - a \in Nat
  OBVIOUS
<1>2. c * (b - a) \in Nat
  BY <1>1
<1>3. c * (b - a) = c * b - c * a /\ c * a \in Int /\ c * b \in Int
  OBVIOUS
<1> QED
  BY <1>2, <1>3

\* How the fourth moment grows.
LEMMA FourthStep ==
    ASSUME NEW n \in Nat, NEW k \in Nat, NEW v \in Nat, NEW w \in Nat, NEW m2 \in Int, NEW m4 \in Int,
           NEW x \in Int, n * m2 = (k * v) * w, x <= v * v,
           (n * n) * m4 <= ((k * n + 3 * (k * k)) * (v * v)) * w
    PROVE  (n * n) * (n * m4 + ((6 * v) * m2 + x * w))
             <= (((k + 1) * n + 3 * ((k + 1) * (k + 1))) * (v * v)) * (n * w)
<1> DEFINE q == (n * w) * (v * v)
           j == k * n + 3 * (k * k)
           l == (k + 1) * n + 3 * ((k + 1) * (k + 1))
           a1 == n * ((n * n) * m4)
           a2 == ((6 * v) * n) * (n * m2)
           a3 == ((n * n) * w) * x
<1>1. n * w \in Nat /\ v * v \in Nat /\ (n * n) * w \in Nat
  <2>1. n * n \in Nat
    OBVIOUS
  <2> QED
    BY <2>1
<1>2. q \in Nat
  BY <1>1
<1>3. j \in Nat /\ l \in Nat
  <2>1. k * n \in Nat /\ k * k \in Nat /\ (k + 1) * n \in Nat /\ (k + 1) * (k + 1) \in Nat
    OBVIOUS
  <2> QED
    BY <2>1
<1>4. a1 <= j * q /\ a1 \in Int
  <2> DEFINE y == (n * n) * m4
             z == (j * (v * v)) * w
  <2>1. y \in Int /\ z \in Int /\ y <= z
    <3>1. n * n \in Int
      OBVIOUS
    <3>2. y \in Int
      BY <3>1
    <3>3. j * (v * v) \in Int
      BY <1>1, <1>3
    <3>4. z \in Int
      BY <3>3
    <3> QED
      BY <3>2, <3>4
  <2>2. n * z = j * q
    <3> HIDE DEF j
    <3> QED
      BY <1>3
  <2> HIDE DEF y, z
  <2>3. n * y <= n * z /\ n * y \in Int
    BY <2>1, FactorKeepsOrder
  <2> QED
    BY <2>2, <2>3 DEF y
<1>5. a2 = (6 * k) * q
  <2>1. a2 = ((6 * v) * n) * ((k * v) * w)
    OBVIOUS
  <2>2. ((6 * v) * n) * ((k * v) * w) = (6 * k) * q
    OBVIOUS
  <2> QED
    BY <2>1, <2>2
<1>6. a3 <= n * q /\ a3 \in Int
  <2> DEFINE c == (n * n) * w
             y == v * v
  <2>1. c \in Nat /\ y \in Int /\ x <= y
    BY <1>1
  <2>2. c * y = n * q
    OBVIOUS
  <2> HIDE DEF c, y
  <2>3. c * x <= c * y /\ c * x \in Int
    BY <2>1, FactorKeepsOrder
  <2> QED
    BY <2>2, <2>3 DEF c
<1>7. (n * n) * (n * m4 + ((6 * v) * m2 + x * w)) = a1 + (a2 + a3)
  OBVIOUS
<1>8. (l * (v * v)) * (n * w) = l * q
  <2> HIDE DEF l
  <2> QED
    BY <1>3
<1>9. l * q = j * q + ((6 * k) * q + (n * q + 3 * q))
  <2> DEFINE y == q
  <2>1. y \in Int
    BY <1>2
  <2> HIDE DEF y
  <2>2. l * y = j * y + ((6 * k) * y + (n * y + 3 * y))
    BY <2>1
  <2> QED
    BY <2>2 DEF y
<1> HIDE DEF a1, a2, a3, q, j, l
<1>10. j * q \in Int /\ (6 * k) * q \in Int /\ n * q \in Int /\ l * q \in Int /\ 3 * q >= 0
  BY <1>2, <1>3
<1>11. a1 + (a2 + a3) <= l * q
  BY <1>2, <1>4, <1>5, <1>6, <1>9, <1>10
<1> QED
  BY <1>7, <1>8, <1>11 DEF l

\* No draw at all is without scatter.
LEMMA NoScatter ==
    ASSUME NEW e, e = [x \in {0} |-> 1], NEW n \in Nat \ {0}, NEW s \in Int, NEW v \in Nat
    PROVE  Scatter(e, n, s, v, 0)
<1> DEFINE A == {0}
           d == Deviation(e, n, 0 * s)
           o == Ones(A)
           d2 == Square(d)
           d4 == Fourth(d)
<1>1. Dist(e) /\ DOMAIN e = A
  BY NoDraw
<1>2. IsFiniteSet(A) /\ Cardinality(A) = 1
  BY FS_Singleton
<1>3. \A x \in A : e[x] = 1 /\ x = 0
  OBVIOUS
<1>4. \A x \in A : o[x] = 1 /\ d[x] = 0 /\ d2[x] = 0 /\ d4[x] = 0
  BY <1>1, <1>3 DEF Ones, Deviation, Square, Fourth
<1> HIDE DEF A, d, o, d2, d4
<1>5. ASSUME NEW h, NEW c \in Int, \A x \in A : h[x] = c
      PROVE  Expect(e, h) = c
  <2> DEFINE w == Weighted(e, h)
  <2>1. \A x \in A : w[x] = c
    BY <1>1, <1>3, <1>5 DEF Weighted
  <2> HIDE DEF w
  <2>2. Sigma(w, A) = c * Cardinality(A)
    BY <1>2, <1>5, <2>1, SigmaOfConstant
  <2> QED
    BY <1>1, <1>2, <1>5, <2>2 DEF Expect, w
<1> DEFINE nil == 0
           u == 1
<1>6. /\ nil \in Int /\ u \in Int
      /\ \A x \in A : o[x] = u
      /\ \A x \in A : d[x] = nil
      /\ \A x \in A : d2[x] = nil
      /\ \A x \in A : d4[x] = nil
  BY <1>4
<1> HIDE DEF nil, u
<1>7. Expect(e, o) = u /\ Expect(e, d) = nil /\ Expect(e, d2) = nil /\ Expect(e, d4) = nil
  BY <1>5, <1>6
<1>8. Expect(e, o) = 1 /\ Expect(e, d) = 0 /\ Expect(e, d2) = 0 /\ Expect(e, d4) = 0
  BY <1>7 DEF nil, u
<1>9. n * Expect(e, d2) = (0 * v) * Expect(e, o)
  BY <1>8
<1>10. (n * n) * Expect(e, d4) <= ((0 * n + 3 * (0 * 0)) * (v * v)) * Expect(e, o)
  <2>1. n * n \in Int /\ v * v \in Int
    OBVIOUS
  <2>2. (n * n) * 0 = 0 /\ (0 * n + 3 * (0 * 0)) * (v * v) = 0
    BY <2>1
  <2> QED
    BY <1>8, <2>2
<1> QED
  BY <1>1, <1>8, <1>9, <1>10 DEF Scatter, d, o, d2, d4

\* One more draw.
LEMMA ScatterStep ==
    ASSUME NEW p, NEW c, NEW n, NEW s, NEW v, NEW k \in Nat, Scatter(p, n, s, v, k), Drift(c, n, s, v)
    PROVE  Scatter(Plus(p, c), n, s, v, k + 1)
<1> DEFINE A == DOMAIN p
           B == DOMAIN c
           K == Sums(p, c)
           u == Deviation(p, n, k * s)
           d == Deviation(c, n, s)
           z == Deviation(Plus(p, c), n, (k + 1) * s)
           w == Expect(p, Ones(A))
           m2 == Expect(p, Square(u))
           m4 == Expect(p, Fourth(u))
           x == Expect(c, Fourth(d))
<1>1. Dist(p) /\ Dist(c) /\ n \in Nat \ {0} /\ s \in Int /\ v \in Nat
  BY DEF Scatter, Drift
<1>2. Dist(Plus(p, c)) /\ DOMAIN Plus(p, c) = K
  BY <1>1, PlusDist
<1>3. /\ w \in Nat \ {0} /\ Expect(p, u) = 0 /\ n * m2 = (k * v) * w
      /\ (n * n) * m4 <= ((k * n + 3 * (k * k)) * (v * v)) * w
  BY DEF Scatter
<1>4. /\ Expect(c, Ones(B)) = n /\ Expect(c, d) = 0
      /\ Expect(c, Square(d)) = v /\ x <= v * v
  BY DEF Drift
<1>5. /\ DOMAIN u = A /\ A \subseteq Int /\ \A a \in A : u[a] = n * a - k * s
      /\ DOMAIN d = B /\ B \subseteq Int /\ \A b \in B : d[b] = n * b - s
      /\ DOMAIN z = K /\ \A y \in K : z[y] = n * y - (k + 1) * s
  BY <1>1, <1>2 DEF Deviation, Dist
<1>6. \A a \in A, b \in B : a + b \in K
  BY DEF Sums
<1> HIDE DEF u, d, z, A, B, K
<1>7. k * s \in Int
  BY <1>1
<1>8. \A a \in A : u[a] \in Int
  <2> TAKE a \in A
  <2>1. n * a \in Int
    BY <1>1, <1>5
  <2> QED
    BY <1>5, <1>7, <2>1
<1>9. \A b \in B : d[b] \in Int
  <2> TAKE b \in B
  <2>1. n * b \in Int
    BY <1>1, <1>5
  <2> QED
    BY <1>1, <1>5, <2>1
<1>10. \A a \in A, b \in B : z[a + b] = u[a] + d[b]
  <2> TAKE a \in A, b \in B
  <2>1. a \in Int /\ b \in Int /\ n \in Int
    BY <1>1, <1>5
  <2>2. n * (a + b) = n * a + n * b /\ n * a \in Int /\ n * b \in Int
    BY <2>1
  <2>3. (k + 1) * s = k * s + s
    BY <1>1
  <2>4. z[a + b] = n * (a + b) - (k + 1) * s
    BY <1>5, <1>6
  <2> QED
    BY <1>1, <1>5, <1>7, <2>2, <2>3, <2>4
<1>11. m2 \in Int /\ m4 \in Int /\ x \in Int
  <2>1. \A a \in A : Square(u)[a] = u[a] * u[a] /\ Fourth(u)[a] = (u[a] * u[a]) * (u[a] * u[a])
    BY <1>5 DEF Square, Fourth
  <2>2. \A b \in B : Fourth(d)[b] = (d[b] * d[b]) * (d[b] * d[b])
    BY <1>5 DEF Fourth
  <2>3. \A a \in DOMAIN p : Square(u)[a] \in Int
    BY <1>8, <2>1, PowersAreIntegers DEF A
  <2>4. \A a \in DOMAIN p : Fourth(u)[a] \in Int
    BY <1>8, <2>1, PowersAreIntegers DEF A
  <2>5. \A b \in DOMAIN c : Fourth(d)[b] \in Int
    BY <1>9, <2>2, PowersAreIntegers DEF B
  <2> QED
    BY <1>1, <2>3, <2>4, <2>5, ExpectIsInteger
<1>12. Expect(Plus(p, c), Ones(K)) = n * w /\ Expect(Plus(p, c), z) = 0
  BY <1>1, <1>3, <1>4, <1>8, <1>9, <1>10, MeanOfSum DEF A, B, K
<1>13. Expect(Plus(p, c), Square(z)) = n * m2 + v * w
  BY <1>1, <1>4, <1>5, <1>8, <1>9, <1>10, SquareOfSum DEF A, B, K
<1>14. Expect(Plus(p, c), Fourth(z)) = n * m4 + ((6 * v) * m2 + x * w)
  BY <1>1, <1>3, <1>4, <1>5, <1>8, <1>9, <1>10, FourthOfSum DEF A, B, K
<1> HIDE DEF w, m2, m4, x
<1>15. n * w \in Nat \ {0}
  BY <1>1, <1>3, PositiveProduct
<1>16. n * (n * m2 + v * w) = ((k + 1) * v) * (n * w)
  BY <1>1, <1>3, <1>11, SecondStep
<1>17. (n * n) * (n * m4 + ((6 * v) * m2 + x * w))
         <= (((k + 1) * n + 3 * ((k + 1) * (k + 1))) * (v * v)) * (n * w)
  BY <1>1, <1>3, <1>4, <1>11, FourthStep
<1> QED
  BY <1>2, <1>12, <1>13, <1>14, <1>15, <1>16, <1>17 DEF Scatter, z

\* The moments of n draws of n.
LEMMA ScatterOfDraws ==
    ASSUME NEW c, NEW n, NEW s, NEW v, Drift(c, n, s, v)
    PROVE  Scatter(Times(c, n), n, s, v, n)
<1>0. n \in Nat \ {0} /\ n \in Nat /\ s \in Int /\ v \in Nat
  BY DEF Drift
<1>1. PICK P : Iterates(P, c, n) /\ Times(c, n) = P[n]
  BY <1>0, TimesIterates
<1> DEFINE bad == {k \in Nat : k \in 0..n /\ ~Scatter(P[k], n, s, v, k)}
<1>2. bad = {}
  <2> SUFFICES ASSUME bad # {} PROVE FALSE
    OBVIOUS
  <2>1. PICK k \in bad : \A j \in bad : k <= j
    <3>1. bad \subseteq Nat
      OBVIOUS
    <3> HIDE DEF bad
    <3> QED
      BY <3>1, LeastNumber
  <2>2. k \in Nat /\ k \in 0..n /\ ~Scatter(P[k], n, s, v, k)
    BY <2>1
  <2> DEFINE e == [x \in {0} |-> 1]
  <2>3. CASE k = 0
    <3>1. P[0] = e
      BY <1>1, <2>2, <2>3 DEF Iterates
    <3>2. Scatter(e, n, s, v, 0)
      BY <1>0, NoScatter
    <3> HIDE DEF e
    <3> QED
      BY <2>2, <2>3, <3>1, <3>2
  <2>4. CASE k # 0
    <3>1. k - 1 \in Nat /\ k - 1 \in 0..n /\ ~(k <= k - 1) /\ (k - 1) + 1 = k
      BY <1>0, <2>2, <2>4
    <3>2. Scatter(P[k - 1], n, s, v, k - 1)
      BY <2>1, <3>1
    <3>3. P[k] = Plus(P[k - 1], c)
      BY <1>1, <2>2, <2>4 DEF Iterates
    <3>4. Scatter(P[k], n, s, v, (k - 1) + 1)
      BY <3>1, <3>2, <3>3, ScatterStep
    <3> QED
      BY <2>2, <3>1, <3>4
  <2> QED
    BY <2>3, <2>4
<1>3. n \in 0..n
  BY <1>0
<1>4. Scatter(P[n], n, s, v, n)
  BY <1>0, <1>2, <1>3
<1> QED
  BY <1>1, <1>4

\* A positive factor may be cancelled.
LEMMA FactorCancels ==
    ASSUME NEW c \in Nat \ {0}, NEW a \in Int, NEW b \in Int
    PROVE  (c * a = c * b => a = b) /\ (c * a <= c * b => a <= b)
<1>1. ASSUME NEW x \in Int, NEW y \in Int, x > y PROVE c * x > c * y
  <2>1. x - y \in Nat \ {0}
    BY <1>1
  <2>2. c * (x - y) \in Nat \ {0}
    BY <2>1, PositiveProduct
  <2>3. c * (x - y) = c * x - c * y /\ c * x \in Int /\ c * y \in Int
    OBVIOUS
  <2> QED
    BY <2>2, <2>3
<1>2. c * a \in Int /\ c * b \in Int
  OBVIOUS
<1>3. a > b => c * a > c * b
  BY <1>1
<1>4. b > a => c * b > c * a
  BY <1>1
<1> QED
  BY <1>2, <1>3, <1>4

\* A square root, within a factor of two.
LEMMA RoughRoot ==
    ASSUME NEW v \in Nat \ {0}
    PROVE  \E r \in Nat \ {0} : r * r <= v /\ v < 4 * (r * r)
<1> DEFINE above == {t \in Nat : v < t * t}
<1>1. v + 1 \in above
  <2>1. v * v \in Nat
    OBVIOUS
  <2>2. (v + 1) * (v + 1) = v * v + (v + v + 1)
    OBVIOUS
  <2> QED
    BY <2>1, <2>2
<1>2. PICK t \in above : \A m \in above : t <= m
  <2>1. above \subseteq Nat /\ above # {}
    BY <1>1
  <2> HIDE DEF above
  <2> QED
    BY <2>1, LeastNumber
<1>3. t \in Nat /\ v < t * t
  BY <1>2
<1> DEFINE r == t - 1
<1>4. t # 0 /\ t # 1
  BY <1>3
<1>5. r \in Nat \ {0} /\ ~(t <= r) /\ t = r + 1
  BY <1>3, <1>4
<1>6. ~(r \in above)
  BY <1>2, <1>5
<1> HIDE DEF r
<1>7. r * r \in Nat /\ r * r <= v
  BY <1>5, <1>6
<1>8. (r + 1) * (r + 1) = r * r + (r + r + 1)
  BY <1>5
<1>9. r * r >= r
  <2>1. r \in Nat /\ 1 \in Int /\ r \in Int /\ 1 <= r
    BY <1>5
  <2>2. r * 1 <= r * r
    BY <2>1, FactorKeepsOrder
  <2> QED
    BY <2>1, <2>2
<1>10. v < 4 * (r * r)
  <2>1. v < r * r + (r + r + 1)
    BY <1>3, <1>5, <1>8
  <2>2. r * r >= 1
    BY <1>5, <1>7, <1>9
  <2> QED
    BY <1>5, <1>7, <1>9, <2>1, <2>2
<1> QED
  BY <1>5, <1>7, <1>10

\* What the test function gains to the right of the mean.
LEMMA TestToTheRight ==
    ASSUME NEW v \in Nat, NEW r \in Nat, v < 4 * (r * r), NEW y \in Nat
    PROVE  (8 * v) * (y * y) - (y * y) * (y * y) <= (48 * (v * r)) * y
<1>1. y * y \in Nat /\ v * y \in Nat /\ v * r \in Nat /\ r * r \in Nat
  OBVIOUS
<1>2. (y * y) * (y * y) \in Nat /\ (8 * v) * (y * y) \in Nat /\ (48 * (v * r)) * y \in Nat
  <2>1. 8 * v \in Nat /\ 48 * (v * r) \in Nat
    BY <1>1
  <2> QED
    BY <1>1, <2>1
<1>3. CASE y <= 6 * r
  <2> DEFINE c == 8 * (v * y)
             x == 6 * r
  <2>1. c \in Nat /\ x \in Int /\ y \in Int /\ y <= x
    BY <1>1, <1>3
  <2>2. c * x = (48 * (v * r)) * y /\ c * y = (8 * v) * (y * y)
    OBVIOUS
  <2> HIDE DEF c, x
  <2>3. c * y <= c * x
    BY <2>1, FactorKeepsOrder
  <2> QED
    BY <1>2, <2>2, <2>3
<1>4. CASE y > 6 * r
  <2> DEFINE x == 6 * r
             q == y * y
             w == 8 * v
  <2>1. x \in Nat /\ y \in Nat /\ x <= y
    BY <1>4
  <2>2. x * x = 36 * (r * r)
    OBVIOUS
  <2> HIDE DEF x
  <2>3. x * x <= x * y /\ x * y \in Int /\ x * x \in Int
    BY <2>1, FactorKeepsOrder
  <2>4. y * x <= y * y /\ y * x \in Int
    BY <2>1, FactorKeepsOrder
  <2>5. x * y = y * x
    BY <2>1
  <2>6. w <= q /\ q \in Nat /\ w \in Int /\ q \in Int
    BY <1>1, <2>2, <2>3, <2>4, <2>5
  <2> HIDE DEF q, w
  <2>7. q * w <= q * q /\ q * w \in Int /\ w * q = q * w
    BY <2>6, FactorKeepsOrder
  <2>8. w * q <= q * q
    BY <2>7
  <2> QED
    BY <1>2, <2>8 DEF w, q
<1> QED
  BY <1>3, <1>4

\* What it gains to the left is bounded.
LEMMA TestToTheLeft ==
    ASSUME NEW v \in Nat, NEW r \in Nat, r * r <= v, NEW t \in Nat
    PROVE  (8 * v) * (t * t) - (t * t) * (t * t) + (48 * (v * r)) * t <= 34 * (4 * (v * v))
<1> DEFINE a == t * t
           b == r * t
           c == r * r
           w == 8 * v
           vv == v * v
<1>1. a \in Nat /\ b \in Nat /\ c \in Nat /\ w \in Nat /\ vv \in Nat
  OBVIOUS
<1>2. 6 * b <= 9 * c + a
  <2>1. (3 * r - t) * (3 * r - t) >= 0
    <3> DEFINE x == 3 * r - t
    <3>1. x \in Int
      OBVIOUS
    <3> HIDE DEF x
    <3>2. x * x >= 0
      BY <3>1
    <3> QED
      BY <3>2 DEF x
  <2>2. (3 * r - t) * (3 * r - t) = 9 * c + a - 6 * b
    OBVIOUS
  <2> QED
    BY <1>1, <2>1, <2>2
<1>3. (48 * (v * r)) * t = w * (6 * b)
  OBVIOUS
<1>4. w * (6 * b) <= w * (9 * c + a) /\ w * (6 * b) \in Int
  <2> DEFINE x == 6 * b
             y == 9 * c + a
  <2>1. x \in Int /\ y \in Int /\ x <= y /\ w \in Nat
    BY <1>1, <1>2
  <2> HIDE DEF x, y, w
  <2>2. w * x <= w * y /\ w * x \in Int
    BY <2>1, FactorKeepsOrder
  <2> QED
    BY <2>2 DEF x, y
<1>5. w * (9 * c + a) = 72 * (v * c) + w * a
  <2> HIDE DEF c, a
  <2> QED
    BY <1>1
<1>6. v * c <= vv /\ v * c \in Int
  <2>1. v \in Nat /\ c \in Int /\ v \in Int /\ c <= v
    BY <1>1
  <2> HIDE DEF c
  <2> QED
    BY <2>1, FactorKeepsOrder
<1>7. 2 * (w * a) - a * a <= 64 * vv
  <2>1. (w - a) * (w - a) >= 0
    <3> DEFINE x == w - a
    <3>1. x \in Int
      BY <1>1
    <3> HIDE DEF x
    <3>2. x * x >= 0
      BY <3>1
    <3> QED
      BY <3>2 DEF x
  <2>2. (w - a) * (w - a) = w * w + a * a - 2 * (w * a)
    <3> HIDE DEF w, a
    <3> QED
      BY <1>1
  <2>3. w * w = 64 * vv
    OBVIOUS
  <2>4. w * a \in Int /\ a * a \in Int
    BY <1>1
  <2> HIDE DEF w, a, vv
  <2> QED
    BY <1>1, <2>1, <2>2, <2>3, <2>4
<1>8. w * a \in Int /\ a * a \in Int
  BY <1>1
<1>9. (8 * v) * (t * t) = w * a /\ (t * t) * (t * t) = a * a /\ v * v = vv
  OBVIOUS
<1> HIDE DEF w, a, b, c, vv
<1>10. w * a - a * a + w * (6 * b) <= 34 * (4 * vv)
  BY <1>1, <1>4, <1>5, <1>6, <1>7, <1>8
<1> QED
  BY <1>3, <1>9, <1>10

\* The total weight is the expectation of one.
LEMMA TotalIsExpected ==
    ASSUME NEW p, Dist(p)
    PROVE  TotalWeight(p) = Expect(p, Ones(DOMAIN p))
<1> DEFINE A == DOMAIN p
           w == Weighted(p, Ones(A))
<1>1. p = [x \in A |-> p[x]] /\ \A x \in A : p[x] \in Nat
  BY DEF Dist
<1>2. w = [x \in A |-> p[x] * 1]
  BY DEF Weighted, Ones
<1>3. \A x \in A : p[x] * 1 = p[x]
  BY <1>1
<1>4. w = p
  <2>1. w = [x \in A |-> w[x]] /\ \A x \in A : w[x] = p[x]
    BY <1>2, <1>3
  <2> HIDE DEF w, A
  <2> QED
    BY <1>1, <2>1
<1> QED
  BY <1>4, TotalOfDist DEF Expect

\* One up to s, nothing beyond.
AtMost(f, s) == [x \in DOMAIN f |-> IF x <= s THEN 1 ELSE 0]

\* Its expectation is the weight up to s.
LEMMA ExpectAtMost ==
    ASSUME NEW p, Dist(p), NEW s \in Int
    PROVE  Expect(p, AtMost(p, s)) = Sigma(p, NotAbove(p, s))
<1> DEFINE A == DOMAIN p
           N == NotAbove(p, s)
           R == A \ N
           w == Weighted(p, AtMost(p, s))
<1>1. IsFiniteSet(A) /\ \A x \in A : p[x] \in Nat
  BY DEF Dist
<1>2. N \subseteq A /\ IsFiniteSet(N)
  BY EndsOfDist
<1>3. \A x \in N : w[x] = p[x] * 1
  BY DEF Weighted, AtMost, NotAbove
<1>4. \A x \in R : w[x] = p[x] * 0
  BY DEF Weighted, AtMost, NotAbove
<1> HIDE DEF A, N, w
<1>5. \A y \in N : p[y] \in Nat
  BY <1>1, <1>2
<1>6. \A y \in N : w[y] = p[y]
  BY <1>3, <1>5
<1>7. \A y \in R : w[y] = 0
  BY <1>1, <1>4
<1>8. \A x \in A : w[x] \in Int
  BY <1>1, <1>2, <1>5, <1>6, <1>7
<1>9. R \subseteq A /\ R = A \ N
  OBVIOUS
<1> HIDE DEF R
<1>10. Sigma(w, A) = Sigma(w, N) + Sigma(w, R)
  BY <1>1, <1>2, <1>8, <1>9, SigmaSplit
<1>11. Sigma(w, N) = Sigma(p, N)
  BY <1>2, <1>5, <1>6, SigmaSame
<1>12. IsFiniteSet(R)
  BY <1>1, <1>9, FS_Subset
<1>13. Sigma(w, R) = 0
  BY <1>7, <1>12, SigmaOfNothing
<1>14. Sigma(p, N) \in Nat
  BY <1>2, <1>5, SigmaNat
<1> QED
  BY <1>10, <1>11, <1>13, <1>14 DEF Expect, w, A, N

\* A thirty-fourth of n draws of n, and more, falls at their mean or below.
LEMMA TailOfDraws ==
    ASSUME NEW p, NEW n \in Nat \ {0}, NEW s \in Int, NEW v \in Nat, Scatter(p, n, s, v, n)
    PROVE  /\ Dist(p)
           /\ Expect(p, Ones(DOMAIN p)) \in Nat \ {0}
           /\ Expect(p, Ones(DOMAIN p)) <= 34 * Sigma(p, NotAbove(p, s))
<1> DEFINE A == DOMAIN p
           u == Deviation(p, n, n * s)
           u2 == Square(u)
           u4 == Fourth(u)
           w == Expect(p, Ones(A))
           i == AtMost(p, s)
           tail == Sigma(p, NotAbove(p, s))
           e2 == Expect(p, u2)
           e4 == Expect(p, u4)
<1>1. /\ Dist(p) /\ A = DOMAIN p /\ A \subseteq Int /\ IsFiniteSet(A)
      /\ \A x \in A : p[x] \in Nat \ {0}
  BY DEF Scatter, Dist
<1>2. /\ w \in Nat \ {0} /\ Expect(p, u) = 0 /\ n * e2 = (n * v) * w
      /\ (n * n) * e4 <= ((n * n + 3 * (n * n)) * (v * v)) * w
  BY DEF Scatter
<1>3. \A x \in A : /\ u[x] = n * x - n * s
                   /\ u2[x] = u[x] * u[x] /\ u4[x] = (u[x] * u[x]) * (u[x] * u[x])
                   /\ i[x] = IF x <= s THEN 1 ELSE 0
  BY DEF Deviation, Square, Fourth, AtMost
<1>4. tail \in Nat /\ Expect(p, i) = tail
  BY <1>1, EndsOfDist, ExpectAtMost
<1> HIDE DEF A, u, u2, u4, i, w, tail
<1>5. \A x \in A : u[x] \in Int /\ (x <= s => u[x] <= 0) /\ (x > s => u[x] > 0) /\ (u[x] = 0 => x = s)
  <2> TAKE x \in A
  <2>1. x \in Int /\ n \in Nat /\ n * (x - s) = n * x - n * s /\ n * x \in Int /\ n * s \in Int
    BY <1>1
  <2>2. ASSUME NEW a \in Int, a > 0 PROVE n * a > 0
    BY <2>2, PositiveProduct
  <2>3. x > s => n * (x - s) > 0
    BY <2>1, <2>2
  <2>4. s > x => n * (s - x) > 0
    BY <2>1, <2>2
  <2>5. n * (s - x) = n * s - n * x
    BY <2>1
  <2>6. x = s => n * (x - s) = 0
    BY <2>1
  <2>7. u[x] \in Int /\ u[x] = n * (x - s)
    BY <1>3, <2>1
  <2>8. x < s => u[x] < 0
    BY <2>1, <2>4, <2>5, <2>7
  <2>9. (x > s => u[x] > 0) /\ (x = s => u[x] = 0)
    BY <2>3, <2>6, <2>7
  <2> QED
    BY <2>1, <2>7, <2>8, <2>9
<1>6. \A x \in A : u2[x] \in Nat /\ u4[x] \in Nat /\ i[x] \in Int
  <2> TAKE x \in A
  <2>1. u[x] * u[x] \in Nat
    BY <1>5
  <2>2. (u[x] * u[x]) * (u[x] * u[x]) \in Nat
    BY <2>1
  <2> QED
    BY <1>1, <1>3, <2>1, <2>2
<1>7. e2 \in Int /\ e4 \in Int
  BY <1>1, <1>6, ExpectIsInteger
<1> HIDE DEF e2, e4
<1>8. e2 = v * w
  <2>1. v * w \in Int /\ n * (v * w) = (n * v) * w
    BY <1>2
  <2> QED
    BY <1>2, <1>7, <2>1, FactorCancels
<1>9. e4 <= 4 * ((v * v) * w)
  <2> DEFINE c == n * n
             b == 4 * ((v * v) * w)
  <2>1. c \in Nat \ {0}
    BY PositiveProduct
  <2>2. b \in Int
    <3>1. v * v \in Int
      OBVIOUS
    <3>2. (v * v) * w \in Int
      BY <1>2, <3>1
    <3> QED
      BY <3>2
  <2>3. ((n * n + 3 * (n * n)) * (v * v)) * w = c * b
    BY <1>2
  <2> HIDE DEF b
  <2>4. c * e4 <= c * b
    BY <1>2, <2>3
  <2> HIDE DEF c
  <2>5. e4 <= b
    BY <1>7, <2>1, <2>2, <2>4, FactorCancels
  <2> QED
    BY <2>5 DEF b
<1>10. CASE v = 0
  <2>1. e2 = 0
    BY <1>2, <1>8, <1>10
  <2> DEFINE q == Weighted(p, u2)
  <2>2. \A x \in A : q[x] = p[x] * u2[x]
    BY <1>1 DEF Weighted
  <2> HIDE DEF q
  <2>3. \A x \in A : q[x] \in Nat
    <3> TAKE x \in A
    <3>1. p[x] \in Nat /\ u2[x] \in Nat
      BY <1>1, <1>6
    <3>2. p[x] * u2[x] \in Nat
      BY <3>1
    <3> QED
      BY <2>2, <3>2
  <2>4. \A x \in A : q[x] <= Sigma(q, A)
    BY <1>1, <2>3, SigmaNat
  <2>5. Sigma(q, A) = 0
    BY <1>1, <2>1 DEF e2, Expect, q
  <2>6. \A x \in A : x = s
    <3> TAKE x \in A
    <3>1. q[x] = 0 /\ p[x] \in Nat \ {0} /\ u2[x] \in Nat
      BY <1>1, <1>6, <2>3, <2>4, <2>5
    <3>2. u2[x] = 0
      BY <2>2, <3>1, PositiveProduct
    <3>3. u[x] \in Int /\ u[x] * u[x] = 0
      BY <1>3, <1>5, <3>2
    <3>4. u[x] = 0
      BY <3>3
    <3> QED
      BY <1>5, <3>4
  <2>7. NotAbove(p, s) = A
    BY <1>1, <2>6 DEF NotAbove
  <2>8. w = tail
    BY <1>1, <2>7, TotalIsExpected, TotalOfDist DEF w, tail, A
  <2>9. w <= 34 * tail
    BY <1>2, <2>8
  <2> QED
    BY <1>1, <1>2, <2>9 DEF w, tail, A
<1>11. CASE v # 0
  <2>1. PICK r \in Nat \ {0} : r * r <= v /\ v < 4 * (r * r)
    <3>1. v \in Nat \ {0}
      BY <1>11
    <3> QED
      BY <3>1, RoughRoot
  <2> DEFINE c8 == 8 * v
             c48 == 0 - 48 * (v * r)
             one == 1
             less == -1
             big == 34 * (4 * (v * v))
             nil == 0
             m == Linear(A, c8, u2, less, u4)
             q == Linear(A, one, m, c48, u)
             b == Linear(A, big, i, nil, i)
  <2>2. /\ c8 \in Int /\ c48 \in Int /\ one \in Int /\ less \in Int /\ nil \in Int
        /\ v * v \in Nat /\ big \in Int /\ big >= 0
    <3>1. v * r \in Int /\ v * v \in Nat
      BY <2>1
    <3>2. 48 * (v * r) \in Int
      BY <3>1
    <3>3. 34 * (4 * (v * v)) \in Nat
      BY <3>1
    <3> QED
      BY <3>1, <3>2, <3>3
  <2> HIDE DEF c8, c48, one, less, big, nil
  <2>3. \A x \in A : u2[x] \in Int /\ u4[x] \in Int
    BY <1>6
  <2>4. /\ \A x \in A : m[x] \in Int /\ m[x] = c8 * u2[x] + less * u4[x]
        /\ Expect(p, u2) \in Int /\ Expect(p, u4) \in Int
        /\ Expect(p, m) = c8 * Expect(p, u2) + less * Expect(p, u4)
    BY ONLY <1>1, <2>2, <2>3, ExpectLinear
  <2>5. \A x \in A : m[x] \in Int /\ u[x] \in Int
    BY <1>5, <2>4
  <2> HIDE DEF m
  <2>6. /\ \A x \in A : q[x] \in Int /\ q[x] = one * m[x] + c48 * u[x]
        /\ Expect(p, m) \in Int
        /\ Expect(p, q) = one * Expect(p, m) + c48 * Expect(p, u)
    BY ONLY <1>1, <2>2, <2>5, ExpectLinear
  <2>7. \A x \in A : i[x] \in Int /\ i[x] \in Int
    BY <1>6
  <2>8. /\ \A x \in A : b[x] \in Int /\ b[x] = big * i[x] + nil * i[x]
        /\ Expect(p, b) = big * Expect(p, i) + nil * Expect(p, i)
    BY ONLY <1>1, <2>2, <2>7, ExpectLinear
  <2> HIDE DEF q, b
  <2>9. \A x \in A : q[x] <= b[x]
    <3> TAKE x \in A
    <3> DEFINE y == u[x]
    <3>1. y \in Int /\ u2[x] = y * y /\ u4[x] = (y * y) * (y * y) /\ u2[x] \in Int /\ u4[x] \in Int
      BY <1>3, <1>5, <2>3
    <3>2. nil * i[x] = 0 /\ i[x] \in Int
      BY <1>6 DEF nil
    <3>3. m[x] = c8 * u2[x] - u4[x] /\ q[x] = m[x] + c48 * y /\ b[x] = big * i[x]
      <4>1. c8 * u2[x] \in Int /\ c48 * y \in Int /\ big * i[x] \in Int
        BY <2>2, <3>1, <3>2
      <4> HIDE DEF y
      <4>2. less * u4[x] = 0 - u4[x] /\ one * m[x] = m[x]
        BY <2>5, <3>1 DEF less, one
      <4> QED
        BY <2>4, <2>6, <2>8, <3>1, <3>2, <4>1, <4>2 DEF y
    <3> HIDE DEF y
    <3>4. CASE x <= s
      <4> DEFINE t == 0 - y
      <4>1. t \in Nat /\ y = 0 - t
        BY <1>5, <3>1, <3>4 DEF y
      <4> HIDE DEF t
      <4>2. y * y = t * t /\ c48 * y = (48 * (v * r)) * t
        BY <2>1, <4>1 DEF c48
      <4>3. (8 * v) * (t * t) - (t * t) * (t * t) + (48 * (v * r)) * t <= big
        BY <2>1, <4>1, TestToTheLeft DEF big
      <4>4. b[x] = big
        BY <1>3, <2>2, <3>3, <3>4
      <4>5. q[x] = (8 * v) * (t * t) - (t * t) * (t * t) + (48 * (v * r)) * t
        BY <3>1, <3>3, <4>2 DEF c8
      <4> QED
        BY <4>3, <4>4, <4>5
    <3>5. CASE ~(x <= s)
      <4>1. y \in Nat
        BY <1>1, <1>5, <3>1, <3>5 DEF y
      <4>2. (8 * v) * (y * y) - (y * y) * (y * y) <= (48 * (v * r)) * y
        BY <2>1, <4>1, TestToTheRight
      <4>3. c48 * y = 0 - (48 * (v * r)) * y /\ (48 * (v * r)) * y \in Int
        <5>1. 48 * (v * r) \in Int
          BY <2>1
        <5> QED
          BY <4>1, <5>1 DEF c48
      <4>4. b[x] = 0
        BY <1>3, <2>2, <3>3, <3>5
      <4>5. m[x] <= (48 * (v * r)) * y /\ m[x] \in Int
        BY <2>5, <3>1, <3>3, <4>2 DEF c8
      <4> QED
        BY <3>3, <4>3, <4>4, <4>5
    <3> QED
      BY <3>4, <3>5
  <2>10. \A x \in DOMAIN p : q[x] \in Int /\ b[x] \in Int /\ q[x] <= b[x]
    BY <1>1, <2>6, <2>8, <2>9
  <2>11. Expect(p, q) <= Expect(p, b)
    BY <1>1, <2>10, ExpectOrder
  <2>12. Expect(p, b) = big * tail
    BY <1>4, <2>2, <2>8 DEF nil
  <2>13. Expect(p, q) = c8 * e2 - e4
    <3>1. c48 * Expect(p, u) = 0
      BY <1>2, <2>2
    <3>2. Expect(p, q) = Expect(p, m)
      BY <2>6, <3>1 DEF one
    <3>3. c8 * e2 \in Int /\ less * e4 = 0 - e4
      BY <1>7, <2>2 DEF less
    <3> QED
      BY <1>7, <2>4, <3>2, <3>3 DEF e2, e4
  <2> DEFINE vv == 4 * (v * v)
             t34 == 34 * tail
  <2>14. c8 * e2 = 2 * (vv * w)
    BY <1>2, <1>8 DEF c8
  <2>15. 4 * ((v * v) * w) = vv * w
    BY <1>2
  <2>16. big * tail = vv * t34
    BY <1>4 DEF big
  <2>17. vv \in Nat \ {0} /\ t34 \in Int
    <3>1. v * v \in Nat \ {0}
      BY <1>11, PositiveProduct
    <3> QED
      BY <1>4, <3>1
  <2> HIDE DEF vv, t34
  <2>18. vv * w \in Int /\ vv * t34 \in Int
    BY <1>2, <2>17
  <2>19. vv * w <= vv * t34
    BY <1>7, <1>9, <2>11, <2>12, <2>13, <2>14, <2>15, <2>16, <2>18
  <2>20. w <= t34
    <3>1. w \in Int
      BY <1>2
    <3> QED
      BY <2>17, <2>19, <3>1, FactorCancels
  <2> QED
    BY <1>1, <1>2, <2>20 DEF w, t34, tail, A
<1> QED
  BY <1>10, <1>11

\* The interval of a resampled sum holds the sum, once a fortieth of the weight or
\* less is left out on either side.
LEMMA IntervalHoldsMean ==
    ASSUME NEW values, IsFiniteSet(DOMAIN values), DOMAIN values # {},
           \A i \in DOMAIN values : values[i] \in Int,
           NEW n, n = Cardinality(DOMAIN values), NEW odds \in Nat, odds >= 40
    PROVE  /\ Sigma(values, DOMAIN values) \in Int
           /\ Lower(Times(Choice(values), n), odds) <= Sigma(values, DOMAIN values)
           /\ Sigma(values, DOMAIN values) <= Upper(Times(Choice(values), n), odds)
<1> DEFINE D == DOMAIN values
<1>1. ASSUME NEW f, DOMAIN f = D, \A i \in D : f[i] \in Int
      PROVE  /\ Dist(Choice(f)) /\ Dist(Times(Choice(f), n)) /\ Sigma(f, D) \in Int
             /\ \E x \in FirmSet(Times(Choice(f), n), odds) : x \in Int /\ x <= Sigma(f, D)
  <2> DEFINE s == Sigma(f, D)
             c == Choice(f)
             p == Times(c, n)
             N == NotAbove(p, s)
             x == Max(N)
  <2>0. IsFiniteSet(D) /\ D # {} /\ \A i \in D : f[i] \in Int /\ f[i] <= f[i]
    BY <1>1
  <2>1. n \in Nat \ {0}
    BY FS_CardinalityType, FS_EmptySet
  <2>2. s \in Int
    BY <2>0, SigmaOrder
  <2>3. PICK v : Drift(c, n, s, v)
    BY <1>1, <2>0, ChoiceDrift
  <2>4. Dist(c) /\ v \in Nat
    BY <2>3 DEF Drift
  <2> HIDE DEF s, c, p
  <2>5. Scatter(p, n, s, v, n)
    BY <2>3, ScatterOfDraws DEF p
  <2>6. /\ Dist(p) /\ Expect(p, Ones(DOMAIN p)) \in Nat \ {0}
        /\ Expect(p, Ones(DOMAIN p)) <= 34 * Sigma(p, N)
    BY <2>1, <2>2, <2>4, <2>5, TailOfDraws
  <2>7. /\ N \subseteq DOMAIN p /\ IsFiniteSet(N) /\ SumFunctionOnSet(p, N) = Sigma(p, N) /\ Sigma(p, N) \in Nat
    BY <2>6, EndsOfDist
  <2>8. DOMAIN p \subseteq Int /\ \A y \in N : y <= s
    BY <2>6 DEF Dist, NotAbove
  <2>9. N # {}
    <3> SUFFICES ASSUME N = {} PROVE FALSE
      OBVIOUS
    <3> HIDE DEF N
    <3>1. \A y \in N : p[y] = 0
      OBVIOUS
    <3>2. Sigma(p, N) = 0
      BY <2>7, <3>1, SigmaOfNothing
    <3> QED
      BY <2>6, <3>2
  <2>10. x \in N /\ \A y \in N : y <= x
    <3> HIDE DEF N
    <3>1. N \subseteq Int
      BY <2>7, <2>8
    <3> QED
      BY <2>7, <2>9, <3>1, Greatest
  <2>11. NotAbove(p, x) = N
    <3> HIDE DEF x
    <3> QED
      BY <2>2, <2>7, <2>8, <2>10 DEF NotAbove
  <2> HIDE DEF N, x
  <2>12. SumFunctionOnSet(p, N) * odds > TotalWeight(p)
    <3> DEFINE g == Sigma(p, N)
               w == TotalWeight(p)
    <3>1. g \in Nat /\ w \in Nat \ {0} /\ w <= 34 * g
      BY <2>6, <2>7, TotalIsExpected
    <3> HIDE DEF g, w
    <3>2. g >= 1
      BY <3>1
    <3>3. g * 40 <= g * odds
      <4>1. 40 \in Int /\ odds \in Int
        OBVIOUS
      <4> QED
        BY <3>1, <4>1, FactorKeepsOrder
    <3>4. g * odds \in Int
      BY <3>1
    <3>5. g * odds > w
      BY <3>1, <3>2, <3>3, <3>4
    <3> QED
      BY <2>7, <3>5 DEF g, w
  <2>13. x \in FirmSet(p, odds)
    BY <2>7, <2>10, <2>11, <2>12 DEF FirmSet
  <2>14. x \in Int /\ x <= s
    BY <2>7, <2>8, <2>10
  <2> QED
    BY <2>2, <2>4, <2>6, <2>13, <2>14 DEF s, c, p
<1> DEFINE f == values
           g == [i \in D |-> -values[i]]
           p == Times(Choice(f), n)
           s == Sigma(f, D)
<1>2. /\ Dist(Choice(f)) /\ Dist(p) /\ s \in Int
      /\ \E x \in FirmSet(p, odds) : x \in Int /\ x <= s
  BY <1>1
<1>3. DOMAIN g = D /\ \A i \in D : g[i] \in Int /\ g[i] = -values[i]
  OBVIOUS
<1> HIDE DEF g, p, s
<1>4. /\ Lower(p, odds) \in Int /\ \A x \in LowerSet(p, odds) : Lower(p, odds) <= x
      /\ Upper(p, odds) \in Int /\ \A x \in UpperSet(p, odds) : x <= Upper(p, odds)
  BY <1>2, QuantilesBound
<1>5. Lower(p, odds) <= s
  <2>1. PICK x \in FirmSet(p, odds) : x \in Int /\ x <= s
    BY <1>2
  <2>2. SumFunctionOnSet(p, NotAbove(p, x)) = Sigma(p, NotAbove(p, x)) /\ Sigma(p, NotAbove(p, x)) \in Nat
    BY <1>2, EndsOfDist
  <2>3. TotalWeight(p) \in Nat
    BY <1>2, TotalOfDist
  <2>4. x \in LowerSet(p, odds)
    BY <2>1, <2>2, <2>3 DEF FirmSet, LowerSet
  <2> QED
    BY <1>2, <1>4, <2>1, <2>4
<1>6. PICK y \in FirmSet(Times(Choice(g), n), odds) : y \in Int /\ y <= Sigma(g, D)
  BY <1>1, <1>3
<1>7. Times(Choice(g), n) = Negated(p)
  <2>1. Choice(g) = Negated(Choice(f))
    BY <1>3, ChoiceNegated
  <2>2. n \in Nat
    BY FS_CardinalityType
  <2> QED
    BY <1>2, <2>1, <2>2, TimesNegated DEF p
<1>8. -y \in UpperSet(p, odds)
  <2>1. UpperSet(p, odds) \subseteq Int
    BY <1>2 DEF UpperSet, Dist
  <2>2. FirmSet(Negated(p), odds) = Opposite(UpperSet(p, odds))
    BY <1>2, QuantilesMirrored
  <2> QED
    BY <1>6, <1>7, <2>1, <2>2, OppositeSet
<1>9. Sigma(g, D) = -s
  <2>1. IsFiniteSet(D) /\ \A i \in D : values[i] \in Int /\ g[i] = -values[i]
    BY <1>3
  <2>2. Sigma(g, D) = -Sigma(values, D)
    BY <2>1, SigmaNegated
  <2> QED
    BY <2>2 DEF s
<1>10. s <= Upper(p, odds)
  <2>1. -y <= Upper(p, odds)
    BY <1>4, <1>8
  <2> QED
    BY <1>2, <1>4, <1>6, <1>9, <2>1
<1> QED
  BY <1>2, <1>5, <1>10 DEF p, s
=============================================================================
