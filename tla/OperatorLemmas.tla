---------------------------- MODULE OperatorLemmas ----------------------------
(***************************************************************************)
(* Facts about the operators the models are built from: smallest elements, *)
(* sums, ratios and rankings, for every argument.  Induction over a finite *)
(* set goes by a smallest counterexample.                                  *)
(***************************************************************************)
EXTENDS Sequences, FiniteSetsExt, Functions, Fractions, FiniteSetTheorems, WellFoundedInduction, TLAPS

\* A set of natural numbers has a least one, which Min finds.
LEMMA LeastOf ==
  ASSUME NEW T, T \subseteq Nat, T # {}
  PROVE  Min(T) \in T /\ \A y \in T : Min(T) <= y
  <1>1. PICK R : R = OpToRel(<, Nat)
    OBVIOUS
  <1>2. IsWellFoundedOn(R, Nat)
    BY <1>1, NatLessThanWellFounded, Zenon
  <1>3. PICK x \in T : \A y \in T : ~(<<y, x>> \in R)
    BY <1>2, WFMin
  <1>4. \A y \in T : y < x => <<y, x>> \in R
    BY <1>1 DEF OpToRel
  <1>5. \A y \in T : ~(y < x)
    BY <1>3, <1>4, Zenon
  <1>6. x \in Nat /\ \A y \in T : y \in Nat
    OBVIOUS
  <1>7. \A y \in T : x <= y
    BY <1>5, <1>6
  <1> QED
    BY <1>7, Zenon DEF Min

LEMMA PairMin ==
  ASSUME NEW a \in Int, NEW b \in Int
  PROVE  Min({a, b}) = IF a <= b THEN a ELSE b
  BY DEF Min

LEMMA PairMax ==
  ASSUME NEW a \in Int, NEW b \in Int
  PROVE  Max({a, b}) = IF a <= b THEN b ELSE a
  BY DEF Max

\* A function of 1..n is a sequence of length n.
LEMMA LenOf ==
  ASSUME NEW n \in Nat, NEW f, f = [i \in 1..n |-> f[i]]
  PROVE  Len(f) = n /\ DOMAIN f = 1..n
  <1>1. PICK T : T = {f[i] : i \in 1..n}
    OBVIOUS
  <1>2. f \in [1..n -> T]
    BY <1>1
  <1>3. f \in Seq(T) /\ Len(f) = n
    BY <1>2
  <1> QED
    BY <1>2, <1>3

-----------------------------------------------------------------------------
(* Recursion over the subsets of a finite set, and sums. *)

\* c takes an element of every subset of S but the empty one; it follows g over what c takes, from b.
Takes(c, S) == \A s \in SUBSET S : s # {} => c[s] \in s
Follows(it, S, b, c, g) == \A s \in SUBSET S : it[s] = IF s = {} THEN b ELSE g[<<c[s], it[s \ {c[s]}]>>]

\* A recursive definition that takes one element after the other out of a finite set defines a function.
LEMMA FiniteRecursion ==
  ASSUME NEW S, IsFiniteSet(S), NEW V, NEW b \in V, NEW c, Takes(c, S),
         NEW g \in [S \X V -> V]
  PROVE  \E it \in [SUBSET S -> V] : Follows(it, S, b, c, g)
  <1> DEFINE Small(n) == {s \in SUBSET S : Cardinality(s) <= n}
             Defines(it, n) == /\ it \in [Small(n) -> V]
                               /\ \A s \in Small(n) : it[s] = IF s = {} THEN b ELSE g[<<c[s], it[s \ {c[s]}]>>]
             Fails == {n \in Nat : ~\E it : Defines(it, n)}
  <1>1. \A s \in SUBSET S : IsFiniteSet(s) /\ Cardinality(s) \in Nat /\ Cardinality(s) <= Cardinality(S)
    BY FS_Subset, FS_CardinalityType
  <1>2. Cardinality(S) \in Nat
    BY <1>1
  <1>3. \A s \in SUBSET S : s # {} => /\ c[s] \in S /\ s \ {c[s]} \in SUBSET S
                                      /\ Cardinality(s \ {c[s]}) = Cardinality(s) - 1
    <2> TAKE s \in SUBSET S
    <2> HAVE s # {}
    <2>1. c[s] \in s /\ IsFiniteSet(s)
      BY <1>1 DEF Takes
    <2>2. Cardinality(s \ {c[s]}) = Cardinality(s) - 1
      BY <2>1, FS_RemoveElement
    <2> QED
      BY <2>1, <2>2
  <1>4. ASSUME NEW n \in Nat, n # 0, NEW it, Defines(it, n - 1)
        PROVE  \E new : Defines(new, n)
    <2>1. PICK new : new = [s \in Small(n) |-> IF s = {} THEN b ELSE g[<<c[s], it[s \ {c[s]}]>>]]
      OBVIOUS
    <2>2. \A s \in Small(n) : s # {} => s \ {c[s]} \in Small(n - 1) /\ c[s] \in S
      BY <1>1, <1>3
    <2>3. \A s \in Small(n - 1) : s \in Small(n)
      BY <1>1
    <2>4. \A s \in Small(n - 1) : it[s] \in V
      BY <1>4
    <2>5. \A s \in Small(n) : s # {} => it[s \ {c[s]}] \in V
      BY <2>2, <2>4
    <2>6. \A s \in Small(n) : s # {} => g[<<c[s], it[s \ {c[s]}]>>] \in V
      BY <2>2, <2>5
    <2>7. \A s \in Small(n) : new[s] = IF s = {} THEN b ELSE g[<<c[s], it[s \ {c[s]}]>>]
      BY <2>1
    <2>8. new \in [Small(n) -> V]
      BY <2>1, <2>6
    <2>9. \A s \in Small(n - 1) : new[s] = it[s]
      BY <1>4, <2>3, <2>7
    <2>10. \A s \in Small(n) : new[s] = IF s = {} THEN b ELSE g[<<c[s], new[s \ {c[s]}]>>]
      BY <2>2, <2>7, <2>9
    <2> QED
      BY <2>8, <2>10
  <1>5. \E it : Defines(it, 0)
    <2>1. PICK it : it = [s \in Small(0) |-> b]
      OBVIOUS
    <2>2. \A s \in Small(0) : s = {}
      BY <1>1, FS_EmptySet
    <2>3. it \in [Small(0) -> V]
      BY <2>1
    <2>4. \A s \in Small(0) : it[s] = IF s = {} THEN b ELSE g[<<c[s], it[s \ {c[s]}]>>]
      BY <2>1, <2>2
    <2>5. Defines(it, 0)
      BY <2>3, <2>4
    <2> HIDE DEF Defines
    <2> QED
      BY <2>5
  <1> HIDE DEF Defines
  <1>6. Fails = {}
    <2> SUFFICES ASSUME Fails # {} PROVE FALSE
      OBVIOUS
    <2>1. PICK n : n = Min(Fails)
      OBVIOUS
    <2>2. n \in Fails /\ \A m \in Fails : n <= m
      <3>1. Fails \subseteq Nat
        OBVIOUS
      <3> HIDE DEF Fails
      <3> QED
        BY <2>1, <3>1, LeastOf
    <2>3. n \in Nat /\ ~\E it : Defines(it, n)
      BY <2>2, Zenon
    <2>4. n # 0
      BY <1>5, <2>3, Zenon
    <2>5. n - 1 \in Nat /\ ~(n <= n - 1)
      BY <2>3, <2>4
    <2>6. \E it : Defines(it, n - 1)
      BY <2>2, <2>5, Zenon
    <2> QED
      BY <1>4, <2>3, <2>4, <2>6, Zenon
  <1>7. PICK it : Defines(it, Cardinality(S))
    BY <1>2, <1>6, Zenon
  <1>8. Small(Cardinality(S)) = SUBSET S
    BY <1>1
  <1> QED
    BY <1>7, <1>8 DEF Defines, Follows

\* What a function of the subsets of a finite set has for the empty set and keeps when an element is added, it has
\* for all: the sets that lack it include a smallest one.
LEMMA FiniteInduction ==
  ASSUME NEW S, IsFiniteSet(S), NEW Holds \in SUBSET (SUBSET S), {} \in Holds,
         \A s \in SUBSET S : s # {} => \E x \in s : s \ {x} \in Holds => s \in Holds
  PROVE  \A s \in SUBSET S : s \in Holds
  <1> DEFINE Missing == (SUBSET S) \ Holds
             Sizes == {Cardinality(s) : s \in Missing}
  <1> SUFFICES ASSUME Missing # {} PROVE FALSE
    OBVIOUS
  <1>1. \A s \in SUBSET S : IsFiniteSet(s) /\ Cardinality(s) \in Nat
    BY FS_Subset, FS_CardinalityType
  <1>2. Sizes \subseteq Nat /\ Sizes # {}
    BY <1>1
  <1>3. PICK n : n = Min(Sizes)
    OBVIOUS
  <1>4. n \in Sizes /\ \A m \in Sizes : n <= m
    <2> HIDE DEF Sizes
    <2> QED
      BY <1>2, <1>3, LeastOf
  <1>5. PICK s \in Missing : n = Cardinality(s)
    BY <1>4
  <1>6. s \in SUBSET S /\ s \notin Holds /\ s # {}
    <2>1. s \in SUBSET S /\ s \notin Holds
      BY <1>5, Zenon
    <2>2. ASSUME s = {} PROVE FALSE
      BY <2>1, <2>2
    <2> QED
      BY <2>1, <2>2
  <1>7. PICK x \in s : s \ {x} \in Holds => s \in Holds
    BY <1>6
  <1>8. s \ {x} \in Missing
    BY <1>6, <1>7
  <1>9. Cardinality(s \ {x}) = Cardinality(s) - 1
    BY <1>1, <1>6, FS_RemoveElement
  <1>10. n <= Cardinality(s \ {x})
    BY <1>4, <1>8
  <1> QED
    BY <1>1, <1>5, <1>6, <1>9, <1>10

\* The sum of a function of natural numbers over a finite set is a natural number, and no term exceeds it.
LEMMA SumNat ==
  ASSUME NEW f, IsFiniteSet(DOMAIN f), \A x \in DOMAIN f : f[x] \in Nat
  PROVE  SumFunction(f) \in Nat /\ \A x \in DOMAIN f : f[x] <= SumFunction(f)
  <1> DEFINE S == DOMAIN f
             First(s) == CHOOSE x \in s : TRUE
             Adds(it) == it = [s \in SUBSET S |-> IF s = {} THEN 0 ELSE f[First(s)] + it[s \ {First(s)}]]
             sum == CHOOSE it : Adds(it)
  <1>1. SumFunction(f) = sum[S]
    BY Zenon DEF SumFunction, SumFunctionOnSet, FoldFunctionOnSet, MapThenFoldSet
  <1>2. \A s \in SUBSET S : s # {} => First(s) \in s
    OBVIOUS
  <1>3. \E it : Adds(it)
    <2>1. PICK c : c = [s \in SUBSET S |-> First(s)]
      OBVIOUS
    <2>2. PICK g : g = [p \in S \X Nat |-> f[p[1]] + p[2]]
      OBVIOUS
    <2>3. \A s \in SUBSET S : s # {} => c[s] \in s
      BY <1>2, <2>1
    <2>4. g \in [S \X Nat -> Nat] /\ \A x \in S, n \in Nat : g[<<x, n>>] = f[x] + n
      BY <2>2
    <2>5. PICK it \in [SUBSET S -> Nat] : Follows(it, S, 0, c, g)
      <3>1. IsFiniteSet(S) /\ 0 \in Nat /\ g \in [S \X Nat -> Nat]
        BY <2>4
      <3>2. Takes(c, S)
        BY <2>3 DEF Takes
      <3> HIDE DEF S
      <3> QED
        BY <3>1, <3>2, FiniteRecursion
    <2>6. \A s \in SUBSET S : it[s] = IF s = {} THEN 0 ELSE f[First(s)] + it[s \ {First(s)}]
      <3> TAKE s \in SUBSET S
      <3>1. CASE s = {}
        BY <2>5, <3>1 DEF Follows
      <3>2. ASSUME s # {} PROVE it[s] = f[First(s)] + it[s \ {First(s)}]
        <4>1. c[s] = First(s) /\ c[s] \in S /\ s \ {c[s]} \in SUBSET S
          BY <2>1, <2>3, <3>2
        <4>2. it[s \ {c[s]}] \in Nat
          BY <2>5, <4>1
        <4>3. it[s] = g[<<c[s], it[s \ {c[s]}]>>]
          BY <2>5, <3>2 DEF Follows
        <4> HIDE DEF First, S
        <4>4. g[<<c[s], it[s \ {c[s]}]>>] = f[c[s]] + it[s \ {c[s]}]
          BY <2>4, <4>1, <4>2, Zenon
        <4> QED
          BY <4>1, <4>3, <4>4, Zenon
      <3> QED
        BY <3>1, <3>2
    <2> HIDE DEF First, S
    <2>7. it = [s \in SUBSET S |-> IF s = {} THEN 0 ELSE f[First(s)] + it[s \ {First(s)}]]
      BY <2>5, <2>6
    <2> QED
      BY <2>7, Zenon
  <1>4. PICK it : it = sum
    OBVIOUS
  <1>5. Adds(it)
    <2> HIDE DEF Adds
    <2> QED
      BY <1>3, <1>4, Zenon
  <1> HIDE DEF First
  <1>6. it[{}] = 0 /\ \A s \in SUBSET S : s # {} => it[s] = f[First(s)] + it[s \ {First(s)}]
    BY <1>5
  <1> HIDE DEF Adds, sum
  <1>7. PICK Holds : Holds = {s \in SUBSET S : it[s] \in Nat /\ \A x \in s : f[x] <= it[s]}
    OBVIOUS
  <1>8. Holds \in SUBSET (SUBSET S) /\ {} \in Holds
    BY <1>6, <1>7
  <1>9. \A s \in SUBSET S : s # {} => \E x \in s : s \ {x} \in Holds => s \in Holds
    <2> TAKE s \in SUBSET S
    <2> HAVE s # {}
    <2>1. PICK x : x = First(s)
      OBVIOUS
    <2>2. x \in s /\ x \in S
      BY <1>2, <2>1
    <2>3. it[s] = f[x] + it[s \ {x}]
      BY <1>6, <2>1
    <2>4. f[x] \in Nat
      BY <2>2
    <2>5. ASSUME s \ {x} \in Holds PROVE s \in Holds
      <3>1. it[s \ {x}] \in Nat /\ \A y \in s \ {x} : f[y] <= it[s \ {x}]
        BY <1>7, <2>5
      <3>2. it[s] \in Nat /\ f[x] <= it[s] /\ it[s \ {x}] <= it[s]
        BY <2>3, <2>4, <3>1
      <3>3. \A y \in s : f[y] <= it[s]
        <4> TAKE y \in s
        <4>1. CASE y = x
          BY <3>2, <4>1
        <4>2. ASSUME y # x PROVE f[y] <= it[s]
          <5>1. y \in s \ {x} /\ f[y] \in Nat
            BY <4>2
          <5> QED
            BY <3>1, <3>2, <5>1
        <4> QED
          BY <4>1, <4>2
      <3> QED
        BY <1>7, <3>2, <3>3
    <2> QED
      BY <2>2, <2>5
  <1>10. S \in Holds
    <2>1. IsFiniteSet(S)
      OBVIOUS
    <2> HIDE DEF S
    <2>2. \A s \in SUBSET S : s \in Holds
      BY <1>8, <1>9, <2>1, FiniteInduction
    <2> QED
      BY <2>2
  <1> QED
    BY <1>1, <1>4, <1>7, <1>10

-----------------------------------------------------------------------------
(* Ratios. *)

\* What the fractions of the models are: a natural number over a positive one.
Ratio == Nat \X (Nat \ {0})

LEMMA ProductNat ==
  ASSUME NEW a \in Nat, NEW b \in Nat
  PROVE  a * b \in Nat
  OBVIOUS

LEMMA ProductMonotone ==
  ASSUME NEW a \in Int, NEW b \in Int, NEW c \in Nat, a >= b
  PROVE  a * c >= b * c
  OBVIOUS

LEMMA ProductCancel ==
  ASSUME NEW a \in Int, NEW b \in Int, NEW c \in Nat \ {0}, a * c >= b * c
  PROVE  a >= b
  OBVIOUS

LEMMA RatioParts ==
  ASSUME NEW f \in Ratio
  PROVE  f[1] \in Nat /\ f[2] \in Nat \ {0} /\ f = <<f[1], f[2]>>
  BY DEF Ratio

LEMMA AtLeastTotal ==
  ASSUME NEW f \in Ratio, NEW g \in Ratio
  PROVE  /\ AtLeast(f, f)
         /\ AtLeast(f, g) \/ AtLeast(g, f)
  <1>1. PICK a, b, c, d : a = f[1] /\ b = f[2] /\ c = g[1] /\ d = g[2]
    OBVIOUS
  <1>2. a \in Nat /\ b \in Nat /\ c \in Nat /\ d \in Nat
    BY <1>1, RatioParts
  <1>3. a * d \in Int /\ c * b \in Int /\ a * b \in Int
    BY <1>2
  <1>4. a * d >= c * b \/ c * b >= a * d
    BY <1>3
  <1>5. a * b >= a * b
    BY <1>3
  <1> QED
    BY <1>1, <1>4, <1>5 DEF AtLeast

\* At least is transitive; the last ratio may be a threshold nobody has checked.
LEMMA AtLeastTransitive ==
  ASSUME NEW f \in Ratio, NEW g \in Ratio, NEW h, h[1] \in Int, h[2] \in Nat \ {0}, AtLeast(f, g), AtLeast(g, h)
  PROVE  AtLeast(f, h)
  <1>1. PICK a, b, c, d, x, y : a = f[1] /\ b = f[2] /\ c = g[1] /\ d = g[2] /\ x = h[1] /\ y = h[2]
    OBVIOUS
  <1>2. a \in Nat /\ b \in Nat \ {0} /\ c \in Nat /\ d \in Nat \ {0} /\ x \in Int /\ y \in Nat \ {0}
    BY <1>1, RatioParts
  <1>3. a * d >= c * b /\ c * y >= x * d
    BY <1>1 DEF AtLeast
  <1>4. a * d \in Int /\ c * b \in Int /\ c * y \in Int /\ x * d \in Int /\ a * y \in Int /\ x * b \in Int
    BY <1>2
  <1>5. (a * d) * y >= (c * b) * y
    BY <1>2, <1>3, <1>4, ProductMonotone
  <1>6. (c * y) * b >= (x * d) * b
    BY <1>2, <1>3, <1>4, ProductMonotone
  <1>7. (a * d) * y = (a * y) * d /\ (c * b) * y = (c * y) * b /\ (x * d) * b = (x * b) * d
    BY <1>2
  <1>8. (a * y) * d \in Int /\ (c * y) * b \in Int /\ (x * b) * d \in Int
    BY <1>2
  <1>9. (a * y) * d >= (x * b) * d
    BY <1>5, <1>6, <1>7, <1>8
  <1>10. a * y >= x * b
    BY <1>2, <1>4, <1>9, ProductCancel
  <1> QED
    BY <1>1, <1>10 DEF AtLeast

LEMMA LargerRatio ==
  ASSUME NEW f \in Ratio, NEW g \in Ratio
  PROVE  /\ Larger(f, g) \in Ratio /\ Smaller(f, g) \in Ratio
         /\ AtLeast(Larger(f, g), f) /\ AtLeast(Larger(f, g), g)
  BY AtLeastTotal DEF Larger, Smaller

\* What reaches a threshold still does when it is compared with something else.
LEMMA LargerReaches ==
  ASSUME NEW f \in Ratio, NEW g \in Ratio, NEW h, h[1] \in Int, h[2] \in Nat \ {0}, AtLeast(f, h)
  PROVE  AtLeast(Larger(f, g), h)
  <1>1. PICK m : m = Larger(f, g)
    OBVIOUS
  <1>2. m \in Ratio /\ AtLeast(m, f)
    BY <1>1, LargerRatio
  <1>3. AtLeast(m, h)
    BY <1>2, AtLeastTransitive
  <1> QED
    BY <1>1, <1>3

LEMMA SafeRatio ==
  ASSUME NEW n \in Nat, NEW d \in Nat
  PROVE  /\ safeRatio(n, d) \in Ratio /\ Capped(safeRatio(n, d)) \in Ratio
         /\ d # 0 => Capped(<<n, d>>) \in Ratio
  <1>1. Zero \in Ratio /\ One \in Ratio /\ (d # 0 => <<n, d>> \in Ratio)
    BY DEF Zero, One, Ratio
  <1>2. safeRatio(n, d) \in Ratio
    BY <1>1 DEF safeRatio
  <1> QED
    BY <1>1, <1>2, LargerRatio DEF Capped

LEMMA PercentParts ==
  ASSUME NEW p \in Int
  PROVE  Percent(p)[1] \in Int /\ Percent(p)[2] \in Nat \ {0} /\ Percent(p)[1] = p /\ Percent(p)[2] = 100
  BY DEF Percent

LEMMA PortionNat ==
  ASSUME NEW n \in Nat, NEW f \in Ratio
  PROVE  Portion(n, f) \in Nat
  <1>1. PICK a, b : a = f[1] /\ b = f[2]
    OBVIOUS
  <1>2. a \in Nat /\ b \in Nat \ {0}
    BY <1>1, RatioParts
  <1>3. n * a \in Nat
    BY <1>2
  <1>4. (n * a) \div b \in Nat
    BY <1>2, <1>3
  <1> QED
    BY <1>1, <1>4 DEF Portion

-----------------------------------------------------------------------------
(* Rankings. *)

\* A finite set under a strict order has an element with none before it.
LEMMA FirstOfOrder ==
  ASSUME NEW S, IsFiniteSet(S), S # {}, NEW R, \A i \in S : <<i, i>> \notin R,
         \A i, j, k \in S : <<i, j>> \in R /\ <<j, k>> \in R => <<i, k>> \in R
  PROVE  \E i \in S : \A j \in S : <<j, i>> \notin R
  <1> DEFINE Before(i) == {j \in S : <<j, i>> \in R}
  <1>1. PICK size : size = [i \in S |-> Cardinality(Before(i))]
    OBVIOUS
  <1>2. \A i \in S : IsFiniteSet(Before(i)) /\ size[i] \in Nat /\ size[i] = Cardinality(Before(i))
    BY <1>1, FS_Subset, FS_CardinalityType
  <1>3. \A i, j \in S : <<j, i>> \in R => size[j] < size[i]
    <2> SUFFICES ASSUME NEW i \in S, NEW j \in S, <<j, i>> \in R PROVE size[j] < size[i]
      OBVIOUS
    <2>1. Before(j) \subseteq Before(i) /\ j \in Before(i) /\ j \notin Before(j)
      OBVIOUS
    <2>2. Before(j) # Before(i)
      BY <2>1, Zenon
    <2> HIDE DEF Before
    <2>3. Cardinality(Before(j)) <= Cardinality(Before(i)) /\ Cardinality(Before(j)) # Cardinality(Before(i))
      BY <1>2, <2>1, <2>2, FS_Subset
    <2> QED
      BY <1>2, <2>3
  <1> HIDE DEF Before
  <1>4. {size[i] : i \in S} \subseteq Nat /\ {size[i] : i \in S} # {}
    BY <1>2
  <1>5. PICK n : n = Min({size[i] : i \in S})
    OBVIOUS
  <1>6. n \in {size[i] : i \in S} /\ \A m \in {size[i] : i \in S} : n <= m
    BY <1>4, <1>5, LeastOf
  <1>7. PICK i \in S : n = size[i]
    BY <1>6
  <1>8. \A j \in S : size[i] <= size[j]
    BY <1>6, <1>7
  <1>9. ASSUME NEW j \in S, <<j, i>> \in R PROVE FALSE
    BY <1>2, <1>3, <1>7, <1>8, <1>9
  <1> QED
    BY <1>7, <1>9, Zenon
=============================================================================
