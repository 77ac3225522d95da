---------------------------- MODULE NaturalSets ----------------------------
(***************************************************************************)
(* Sets of natural numbers: the least member, which makes induction by the *)
(* least counterexample possible, the greatest of a finite set, and what   *)
(* Min and Max choose; and sums over finite sets.                          *)
(***************************************************************************)
EXTENDS Integers, FiniteSetsExt, Functions, FiniteSetTheorems, WellFoundedInduction, TLAPS

\* Every set of natural numbers has a least member.
LEMMA LeastNat ==
  ASSUME NEW T \in SUBSET Nat, T # {}
  PROVE  \E n \in T : \A m \in T : n <= m
<1>1. PICK n \in T : \A m \in T : ~ (<<m, n>> \in OpToRel(<, Nat))
  BY WFMin, NatLessThanWellFounded
<1>2. \A m \in T : ~ (m < n)
  BY <1>1 DEF OpToRel
<1> QED
  BY <1>2

\* Induction by the least counterexample.
LEMMA LeastOutside ==
  ASSUME NEW T \in SUBSET Nat, T # {}
  PROVE  \E n \in T : n \in Nat /\ \A m \in Nat : m < n => m \notin T
<1>1. PICK n \in T : \A m \in T : n <= m
  BY LeastNat
<1> QED
  BY <1>1

\* Min chooses it.
LEMMA MinIsLeast ==
  ASSUME NEW T \in SUBSET Nat, T # {}
  PROVE  Min(T) \in T /\ \A m \in T : Min(T) <= m
BY LeastNat DEF Min

\* A finite set of natural numbers has a greatest member.
LEMMA GreatestNat ==
  ASSUME NEW T \in SUBSET Nat, T # {}, IsFiniteSet(T)
  PROVE  \E n \in T : \A m \in T : m <= n
<1> DEFINE Open(S) == S # {} /\ IsFiniteSet(S) /\ \A n \in S : \E m \in S : ~ (m <= n)
           Sizes == {c \in Nat : \E S \in SUBSET Nat : Open(S) /\ Cardinality(S) = c}
<1>1. SUFFICES ASSUME Open(T) PROVE FALSE
  OBVIOUS
<1>2. Cardinality(T) \in Sizes
  BY <1>1, FS_CardinalityType
<1>3. PICK c \in Sizes : \A d \in Sizes : c <= d
  BY <1>2, LeastNat
<1>4. PICK S \in SUBSET Nat : Open(S) /\ Cardinality(S) = c
  BY <1>3
<1>5. PICK x \in S : TRUE
  BY <1>4
<1>6. IsFiniteSet(S \ {x}) /\ Cardinality(S \ {x}) = c - 1 /\ c - 1 \in Nat
  <2>1. IsFiniteSet(S) /\ Cardinality(S) = c
    BY <1>4
  <2>2. IsFiniteSet(S \ {x}) /\ Cardinality(S \ {x}) = Cardinality(S) - 1
    BY <1>5, <2>1, FS_RemoveElement
  <2>3. Cardinality(S \ {x}) \in Nat
    BY <2>2, FS_CardinalityType
  <2> HIDE DEF Open
  <2> QED
    BY <2>1, <2>2, <2>3
<1>7. ~ Open(S \ {x})
  <2>1. SUFFICES ASSUME Open(S \ {x}) PROVE FALSE
    OBVIOUS
  <2>2. c - 1 \in Sizes
    BY <1>6, <2>1
  <2> QED
    BY <1>3, <2>2
<1>8. CASE S \ {x} = {}
  BY <1>4, <1>5, <1>8
<1>9. CASE S \ {x} # {}
  <2>1. PICK g \in S \ {x} : \A m \in S \ {x} : m <= g
    BY <1>6, <1>7, <1>9
  <2>2. \E n \in S : \A m \in S : m <= n
    <3>1. CASE x <= g
      BY <2>1, <3>1
    <3>2. CASE g <= x
      <4>1. \A m \in S \ {x} : m <= x
        BY <2>1, <3>2, <1>5
      <4> QED
        BY <4>1, <1>5
    <3> QED
      BY <3>1, <3>2, <1>5, <2>1
  <2> QED
    BY <1>4, <2>2
<1> QED
  BY <1>8, <1>9

\* Max chooses it.
LEMMA MaxIsGreatest ==
  ASSUME NEW T \in SUBSET Nat, T # {}, IsFiniteSet(T)
  PROVE  Max(T) \in T /\ \A m \in T : m <= Max(T)
<1>1. \E n \in T : \A m \in T : n >= m
  BY GreatestNat
<1> QED
  BY <1>1 DEF Max

----------------------------------------------------------------------------
(* Sums over finite sets.                                                  *)

Pick(s) == CHOOSE x \in s : TRUE

\* The function SumFunctionOnSet is defined with, on a set D of sets.
IsSum(f, D, g) == g = [s \in D |-> IF s = {} THEN 0 ELSE f[Pick(s)] + g[s \ {Pick(s)}]]

\* Taking away the chosen member, and the sizes of what is left.
LEMMA PickOne ==
  ASSUME NEW s, s # {}, IsFiniteSet(s)
  PROVE  /\ Pick(s) \in s /\ IsFiniteSet(s \ {Pick(s)})
         /\ Cardinality(s) \in Nat /\ Cardinality(s \ {Pick(s)}) \in Nat
         /\ Cardinality(s \ {Pick(s)}) = Cardinality(s) - 1
<1>1. Pick(s) \in s
  BY DEF Pick
<1> QED
  BY <1>1, FS_RemoveElement, FS_CardinalityType

LEMMA SumExists ==
  ASSUME NEW f, NEW S, IsFiniteSet(S)
  PROVE  \E g : IsSum(f, SUBSET S, g)
<1> DEFINE D(n) == {s \in SUBSET S : Cardinality(s) <= n}
           Bad == {n \in Nat : ~ \E g : IsSum(f, D(n), g)}
<1>1. \A s \in SUBSET S : IsFiniteSet(s) /\ Cardinality(s) \in Nat /\ Cardinality(s) <= Cardinality(S)
  BY FS_Subset, FS_CardinalityType
<1>2. Bad = {}
  <2>1. SUFFICES ASSUME Bad # {} PROVE FALSE
    OBVIOUS
  <2>2. PICK n \in Bad : \A m \in Bad : n <= m
    BY <2>1, LeastNat
  <2>3. n # 0
    <3>1. SUFFICES ASSUME n = 0 PROVE FALSE
      OBVIOUS
    <3>2. \A s \in D(0) : s = {}
      <4> SUFFICES ASSUME NEW s \in D(0) PROVE s = {}
        OBVIOUS
      <4>1. IsFiniteSet(s) /\ Cardinality(s) = 0
        BY <1>1
      <4> QED
        BY <4>1, FS_EmptySet
    <3> DEFINE g == [s \in D(0) |-> 0]
    <3>3. IsSum(f, D(0), g)
      BY <3>2 DEF IsSum
    <3> QED
      BY <2>2, <3>1, <3>3
  <2>4. n - 1 \in Nat /\ n - 1 \notin Bad
    <3>1. Bad \subseteq Nat
      OBVIOUS
    <3> HIDE DEF Bad
    <3> QED
      BY <2>2, <2>3, <3>1
  <2>5. PICK g : IsSum(f, D(n - 1), g)
    BY <2>4
  <2> DEFINE h == [s \in D(n) |-> IF s = {} THEN 0 ELSE f[Pick(s)] + g[s \ {Pick(s)}]]
  <2>6. \A s \in D(n - 1) : h[s] = g[s]
    <3>1. \A s \in D(n - 1) : s \in D(n)
      BY <1>1, <2>2
    <3>2. \A s \in D(n - 1) : g[s] = IF s = {} THEN 0 ELSE f[Pick(s)] + g[s \ {Pick(s)}]
      BY <2>5 DEF IsSum
    <3> QED
      BY <3>1, <3>2
  <2>7. \A s \in D(n) : s # {} => s \ {Pick(s)} \in D(n - 1)
    <3> SUFFICES ASSUME NEW s \in D(n), s # {} PROVE s \ {Pick(s)} \in D(n - 1)
      OBVIOUS
    <3>1. Cardinality(s \ {Pick(s)}) = Cardinality(s) - 1 /\ Cardinality(s) \in Nat
      BY <1>1, PickOne
    <3>2. Cardinality(s \ {Pick(s)}) <= n - 1
      BY <2>2, <3>1
    <3> QED
      BY <3>2
  <2>8. h = [s \in D(n) |-> IF s = {} THEN 0 ELSE f[Pick(s)] + h[s \ {Pick(s)}]]
    <3> HIDE DEF D
    <3> QED
      BY <2>6, <2>7
  <2>9. IsSum(f, D(n), h)
    BY <2>8 DEF IsSum
  <2> QED
    BY <2>2, <2>9
<1>3. D(Cardinality(S)) = SUBSET S
  BY <1>1
<1>4. Cardinality(S) \in Nat
  BY FS_CardinalityType
<1> QED
  BY <1>2, <1>3, <1>4

\* What the sum over a subset is does not depend on the set around it.
LEMMA SumUnique ==
  \A f, S, T, g, h : IsFiniteSet(S) /\ T \subseteq S /\ IsSum(f, SUBSET S, g) /\ IsSum(f, SUBSET T, h)
                       => g[T] = h[T]
<1> SUFFICES ASSUME NEW f, NEW S, NEW T, NEW g, NEW h, IsFiniteSet(S), T \subseteq S,
                    IsSum(f, SUBSET S, g), IsSum(f, SUBSET T, h)
             PROVE  g[T] = h[T]
  OBVIOUS
<1> DEFINE Bad == {n \in Nat : \E s \in SUBSET T : Cardinality(s) = n /\ g[s] # h[s]}
<1>1. \A s \in SUBSET T : IsFiniteSet(s) /\ Cardinality(s) \in Nat
  BY FS_Subset, FS_CardinalityType
<1>2. Bad = {}
  <2>1. SUFFICES ASSUME Bad # {} PROVE FALSE
    OBVIOUS
  <2>2. PICK n \in Bad : n \in Nat /\ \A m \in Nat : m < n => m \notin Bad
    BY <2>1, LeastOutside
  <2>3. PICK s \in SUBSET T : Cardinality(s) = n /\ g[s] # h[s]
    BY <2>2
  <2>4. /\ g[s] = IF s = {} THEN 0 ELSE f[Pick(s)] + g[s \ {Pick(s)}]
        /\ h[s] = IF s = {} THEN 0 ELSE f[Pick(s)] + h[s \ {Pick(s)}]
    BY DEF IsSum
  <2>5. s # {}
    BY <2>3, <2>4
  <2> DEFINE r == s \ {Pick(s)}
  <2>6. r \in SUBSET T /\ Cardinality(r) \in Nat /\ Cardinality(r) < n
    BY <1>1, <2>3, <2>5, PickOne
  <2>7. g[r] # h[r]
    BY <2>3, <2>4, <2>5
  <2>8. Cardinality(r) \notin Bad
    <3> HIDE DEF r, Bad
    <3> QED
      BY <2>2, <2>6
  <2> HIDE DEF r
  <2> QED
    BY <2>6, <2>7, <2>8
<1> QED
  BY <1>1, <1>2

\* One step of the sum.
LEMMA SumStep ==
  ASSUME NEW f
  PROVE  /\ SumFunctionOnSet(f, {}) = 0
         /\ \A S : IsFiniteSet(S) /\ S # {} =>
              SumFunctionOnSet(f, S) = f[Pick(S)] + SumFunctionOnSet(f, S \ {Pick(S)})
<1> DEFINE iter(S) == CHOOSE g : IsSum(f, SUBSET S, g)
<1>1. ASSUME NEW S
      PROVE  SumFunctionOnSet(f, S) = iter(S)[S]
  BY DEF SumFunctionOnSet, FoldFunctionOnSet, MapThenFoldSet, IsSum, Pick
<1>2. ASSUME NEW S, IsFiniteSet(S)
      PROVE  IsSum(f, SUBSET S, iter(S))
  BY <1>2, SumExists
<1> HIDE DEF iter
<1>3. SumFunctionOnSet(f, {}) = 0
  BY <1>1, <1>2, FS_EmptySet DEF IsSum
<1>4. ASSUME NEW S, IsFiniteSet(S), S # {}
      PROVE  SumFunctionOnSet(f, S) = f[Pick(S)] + SumFunctionOnSet(f, S \ {Pick(S)})
  <2> DEFINE T == S \ {Pick(S)}
  <2>1. T \in SUBSET S /\ IsFiniteSet(T)
    BY <1>4, PickOne
  <2>2. iter(S)[S] = f[Pick(S)] + iter(S)[T]
    BY <1>2, <1>4 DEF IsSum
  <2>3. iter(S)[T] = iter(T)[T]
    <3>1. IsSum(f, SUBSET S, iter(S)) /\ IsSum(f, SUBSET T, iter(T))
      BY <1>2, <1>4, <2>1
    <3> DEFINE g == iter(S)
               h == iter(T)
    <3>2. IsFiniteSet(S) /\ T \in SUBSET S /\ IsSum(f, SUBSET S, g) /\ IsSum(f, SUBSET T, h)
      BY <1>4, <2>1, <3>1
    <3> HIDE DEF T, g, h
    <3>3. g[T] = h[T]
      BY <3>2, SumUnique
    <3> QED
      BY <3>3 DEF g, h
  <2> QED
    BY <1>1, <2>2, <2>3
<1> QED
  BY <1>3, <1>4

\* A sum of integers is an integer, one of natural numbers a natural number.
LEMMA SumType ==
  ASSUME NEW f, NEW N \in {Int, Nat}, NEW S, IsFiniteSet(S), \A x \in S : f[x] \in N
  PROVE  SumFunctionOnSet(f, S) \in N
<1> DEFINE Bad == {n \in Nat : \E s \in SUBSET S : Cardinality(s) = n /\ SumFunctionOnSet(f, s) \notin N}
<1>1. \A s \in SUBSET S : IsFiniteSet(s) /\ Cardinality(s) \in Nat
  BY FS_Subset, FS_CardinalityType
<1>2. Bad = {}
  <2>1. SUFFICES ASSUME Bad # {} PROVE FALSE
    OBVIOUS
  <2>2. PICK n \in Bad : n \in Nat /\ \A m \in Nat : m < n => m \notin Bad
    BY <2>1, LeastOutside
  <2>3. PICK s \in SUBSET S : Cardinality(s) = n /\ SumFunctionOnSet(f, s) \notin N
    BY <2>2
  <2>4. s # {}
    <3>1. SumFunctionOnSet(f, {}) = 0 /\ 0 \in N
      BY SumStep
    <3> QED
      BY <2>3, <3>1
  <2> DEFINE r == s \ {Pick(s)}
  <2>5. r \in SUBSET S /\ Cardinality(r) \in Nat /\ Cardinality(r) < n /\ Pick(s) \in S
    BY <1>1, <2>3, <2>4, PickOne
  <2>6. SumFunctionOnSet(f, s) = f[Pick(s)] + SumFunctionOnSet(f, r)
    BY <1>1, <2>4, SumStep
  <2>7. Cardinality(r) \notin Bad
    <3> HIDE DEF r, Bad
    <3> QED
      BY <2>2, <2>5
  <2>8. SumFunctionOnSet(f, r) \in N
    <3> HIDE DEF r
    <3> QED
      BY <2>5, <2>7
  <2>9. \A x, y \in N : x + y \in N
    OBVIOUS
  <2> HIDE DEF r
  <2> QED
    BY <2>3, <2>5, <2>6, <2>8, <2>9
<1> QED
  BY <1>1, <1>2

\* The order in which members are taken does not matter.
LEMMA SumAdd ==
  ASSUME NEW f, NEW S, IsFiniteSet(S), \A x \in S : f[x] \in Int
  PROVE  \A x \in S : SumFunctionOnSet(f, S) = f[x] + SumFunctionOnSet(f, S \ {x})
<1> DEFINE Sum(s) == SumFunctionOnSet(f, s)
           Adds(s) == \A x \in s : Sum(s) = f[x] + Sum(s \ {x})
           Bad == {n \in Nat : \E s \in SUBSET S : Cardinality(s) = n /\ ~ Adds(s)}
<1>1. \A s \in SUBSET S : IsFiniteSet(s) /\ Cardinality(s) \in Nat /\ Sum(s) \in Int
  <2> SUFFICES ASSUME NEW s \in SUBSET S PROVE IsFiniteSet(s) /\ Cardinality(s) \in Nat /\ Sum(s) \in Int
    OBVIOUS
  <2>1. IsFiniteSet(s)
    BY FS_Subset
  <2>2. \A x \in s : f[x] \in Int
    OBVIOUS
  <2> QED
    BY <2>1, <2>2, FS_CardinalityType, SumType
<1>2. Bad = {}
  <2>1. SUFFICES ASSUME Bad # {} PROVE FALSE
    OBVIOUS
  <2>2. PICK n \in Bad : n \in Nat /\ \A m \in Nat : m < n => m \notin Bad
    BY <2>1, LeastOutside
  <2>3. PICK s \in SUBSET S : Cardinality(s) = n /\ ~ Adds(s)
    BY <2>2
  <2>4. PICK x \in s : Sum(s) # f[x] + Sum(s \ {x})
    BY <2>3
  <2> DEFINE p == Pick(s)
             r == s \ {p}
             q == s \ {x}
             w == r \ {x}
  <2>5. p \in s /\ Sum(s) = f[p] + Sum(r)
    BY <1>1, <2>4, PickOne, SumStep
  <2>6. x # p
    BY <2>4, <2>5
  <2>7. Cardinality(r) < n /\ Cardinality(q) < n /\ r \in SUBSET S /\ q \in SUBSET S
    <3>1. IsFiniteSet(s)
      BY <1>1
    <3>2. Cardinality(s \ {p}) = Cardinality(s) - 1 /\ Cardinality(s \ {x}) = Cardinality(s) - 1
      BY <2>4, <2>5, <3>1, FS_RemoveElement
    <3>3. Cardinality(s) \in Nat
      BY <1>1
    <3> QED
      BY <2>3, <3>2, <3>3
  <2>8. \A u \in SUBSET S : Cardinality(u) < n => Adds(u)
    <3>1. \A u \in SUBSET S : Cardinality(u) \in Nat
      BY <1>1
    <3>2. \A u \in SUBSET S : Cardinality(u) < n => Cardinality(u) \notin Bad
      <4> HIDE DEF Bad
      <4> QED
        BY <2>2, <3>1
    <3> HIDE DEF Adds
    <3> QED
      BY <3>1, <3>2
  <2>9. Sum(r) = f[x] + Sum(w)
    <3>1. x \in r
      BY <2>4, <2>6
    <3> HIDE DEF r
    <3> QED
      BY <2>7, <2>8, <3>1
  <2>10. Sum(q) = f[p] + Sum(w)
    <3>1. p \in q /\ q \ {p} = w
      BY <2>5, <2>6
    <3> HIDE DEF q, w
    <3> QED
      BY <2>7, <2>8, <3>1
  <2>11. f[x] \in Int /\ f[p] \in Int /\ Sum(w) \in Int
    BY <1>1, <2>4, <2>5
  <2> HIDE DEF Sum, r, w
  <2> QED
    BY <2>4, <2>5, <2>9, <2>10, <2>11
<1> QED
  BY <1>1, <1>2

\* The sum over two sets apart.
LEMMA SumUnion ==
  ASSUME NEW f, NEW S, IsFiniteSet(S), NEW T, IsFiniteSet(T), S \cap T = {},
         \A x \in S \cup T : f[x] \in Int
  PROVE  SumFunctionOnSet(f, S \cup T) = SumFunctionOnSet(f, S) + SumFunctionOnSet(f, T)
<1> DEFINE Sum(s) == SumFunctionOnSet(f, s)
           Bad == {n \in Nat : \E t \in SUBSET T : Cardinality(t) = n /\ Sum(S \cup t) # Sum(S) + Sum(t)}
<1>1. \A s \in SUBSET (S \cup T) : IsFiniteSet(s) /\ Cardinality(s) \in Nat /\ Sum(s) \in Int
  <2> SUFFICES ASSUME NEW s \in SUBSET (S \cup T)
               PROVE  IsFiniteSet(s) /\ Cardinality(s) \in Nat /\ Sum(s) \in Int
    OBVIOUS
  <2>1. IsFiniteSet(s)
    BY FS_Union, FS_Subset
  <2>2. \A x \in s : f[x] \in Int
    OBVIOUS
  <2> QED
    BY <2>1, <2>2, FS_CardinalityType, SumType
<1>2. Bad = {}
  <2>1. SUFFICES ASSUME Bad # {} PROVE FALSE
    OBVIOUS
  <2>2. PICK n \in Bad : n \in Nat /\ \A m \in Nat : m < n => m \notin Bad
    BY <2>1, LeastOutside
  <2>3. PICK t \in SUBSET T : Cardinality(t) = n /\ Sum(S \cup t) # Sum(S) + Sum(t)
    BY <2>2
  <2>4. t # {}
    <3>1. SUFFICES ASSUME t = {} PROVE FALSE
      OBVIOUS
    <3>2. S \cup t = S
      BY <3>1
    <3>3. Sum(t) = 0
      BY <3>1, SumStep
    <3>4. Sum(S \cup t) = Sum(S)
      BY <3>2
    <3>5. Sum(S) \in Int
      BY <1>1
    <3> HIDE DEF Sum
    <3> QED
      BY <2>3, <3>3, <3>4, <3>5
  <2>5. PICK x \in t : TRUE
    BY <2>4
  <2> DEFINE r == t \ {x}
  <2>6. r \in SUBSET T /\ Cardinality(r) \in Nat /\ Cardinality(r) < n
    <3>1. IsFiniteSet(t) /\ Cardinality(t) \in Nat
      BY <1>1
    <3>2. Cardinality(t \ {x}) = Cardinality(t) - 1
      BY <2>5, <3>1, FS_RemoveElement
    <3> QED
      BY <1>1, <2>3, <3>1, <3>2
  <2>7. Sum(S \cup r) = Sum(S) + Sum(r)
    <3>1. Cardinality(r) \notin Bad
      <4> HIDE DEF r, Bad
      <4> QED
        BY <2>2, <2>6
    <3> HIDE DEF r, Sum
    <3> QED
      BY <2>6, <3>1
  <2>8. Sum(t) = f[x] + Sum(r)
    <3>1. IsFiniteSet(t) /\ \A y \in t : f[y] \in Int
      BY <1>1
    <3> QED
      BY <2>5, <3>1, SumAdd
  <2>9. Sum(S \cup t) = f[x] + Sum(S \cup r)
    <3>1. IsFiniteSet(S \cup t) /\ \A y \in S \cup t : f[y] \in Int
      BY <1>1
    <3>2. (S \cup t) \ {x} = S \cup r /\ x \in S \cup t
      BY <2>5
    <3> QED
      BY <3>1, <3>2, SumAdd
  <2>10. f[x] \in Int /\ Sum(S) \in Int /\ Sum(r) \in Int
    BY <1>1, <2>5
  <2> HIDE DEF Sum, r
  <2> QED
    BY <2>3, <2>7, <2>8, <2>9, <2>10
<1>3. Cardinality(T) \in Nat /\ T \in SUBSET T
  BY FS_CardinalityType
<1> QED
  BY <1>2, <1>3

\* What is taken out of a set of natural numbers and what is put in, some of
\* which may have been there, bounds the sum of what is then in it.
LEMMA SumExchange ==
  ASSUME NEW f, NEW U, IsFiniteSet(U), NEW I, I \subseteq U, NEW O, IsFiniteSet(O),
         NEW V, V \subseteq (U \ I) \cup O, \A x \in U \cup O : f[x] \in Nat
  PROVE  /\ IsFiniteSet(V)
         /\ SumFunctionOnSet(f, V) <= SumFunctionOnSet(f, U) - SumFunctionOnSet(f, I) + SumFunctionOnSet(f, O)
<1> DEFINE Sum(s) == SumFunctionOnSet(f, s)
           W == (U \ I) \cup O
           P == O \ (U \ I)
<1>1. \A s \in SUBSET (U \cup O) : IsFiniteSet(s) /\ Sum(s) \in Nat
  <2> SUFFICES ASSUME NEW s \in SUBSET (U \cup O) PROVE IsFiniteSet(s) /\ Sum(s) \in Nat
    OBVIOUS
  <2>1. IsFiniteSet(s)
    BY FS_Union, FS_Subset
  <2>2. \A x \in s : f[x] \in Nat
    OBVIOUS
  <2> QED
    BY <2>1, <2>2, SumType
<1>2. ASSUME NEW s \in SUBSET (U \cup O), NEW t \in SUBSET s
      PROVE  Sum(s) = Sum(t) + Sum(s \ t)
  <2> DEFINE r == s \ t
  <2>1. IsFiniteSet(t) /\ IsFiniteSet(r)
    BY <1>1
  <2>2. t \cup r = s /\ t \cap r = {} /\ \A x \in t \cup r : f[x] \in Int
    OBVIOUS
  <2> HIDE DEF r
  <2>3. SumFunctionOnSet(f, t \cup r) = SumFunctionOnSet(f, t) + SumFunctionOnSet(f, r)
    BY <2>1, <2>2, SumUnion
  <2> QED
    BY <2>2, <2>3 DEF r
<1>3. W \in SUBSET (U \cup O) /\ V \in SUBSET W /\ V \in SUBSET (U \cup O)
  OBVIOUS
<1>4. Sum(W) = Sum(V) + Sum(W \ V)
  BY <1>2, <1>3
<1>5. Sum(W) = Sum(U \ I) + Sum(P)
  <2>1. W \ (U \ I) = P /\ U \ I \in SUBSET W
    OBVIOUS
  <2> QED
    BY <1>2, <1>3, <2>1
<1>6. Sum(U) = Sum(I) + Sum(U \ I)
  BY <1>2
<1>7. Sum(O) = Sum(P) + Sum(O \ P)
  BY <1>2
<1>8. /\ Sum(V) \in Nat /\ Sum(W \ V) \in Nat /\ Sum(U \ I) \in Nat /\ Sum(P) \in Nat
      /\ Sum(I) \in Nat /\ Sum(O \ P) \in Nat /\ Sum(U) \in Nat /\ Sum(O) \in Nat
  BY <1>1, <1>3
<1>9. IsFiniteSet(V)
  BY <1>1, <1>3
<1>10. Sum(V) <= Sum(U) - Sum(I) + Sum(O)
  <2> HIDE DEF Sum, W, P
  <2> QED
    BY <1>4, <1>5, <1>6, <1>7, <1>8
<1> QED
  BY <1>9, <1>10
=============================================================================
