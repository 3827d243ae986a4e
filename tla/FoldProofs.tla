----------------------------- MODULE FoldProofs -----------------------------
(***************************************************************************)
(* What the library's folds compute: sums over finite sets, one element at *)
(* a time, and sums over sequences. The provers see of a fold no more than *)
(* its definition, a recursive function chosen by its equation; that there *)
(* is one, and what it yields, is proved here from the smallest set or     *)
(* number for which it would not be so.                                    *)
(***************************************************************************)
EXTENDS Integers, Sequences, SequencesExt, FiniteSetsExt,
        SequenceTheorems, FiniteSetTheorems, WellFoundedInduction, TLAPS

\* A nonempty set of natural numbers has a least element.
LEMMA LeastNat ==
  ASSUME NEW T \in SUBSET Nat, T # {}
  PROVE  \E x \in T : \A y \in T : x <= y
<1>1. \E x \in T : \A y \in T : ~(<<y, x>> \in OpToRel(<, Nat))
  BY NatLessThanWellFounded, WFMin
<1>2. PICK x \in T : \A y \in T : ~(<<y, x>> \in OpToRel(<, Nat))
  BY <1>1
<1>3. ASSUME NEW y \in T, y < x PROVE FALSE
  <2>1. <<y, x>> \in Nat \X Nat
    OBVIOUS
  <2>2. <<y, x>>[1] < <<y, x>>[2]
    BY <1>3
  <2>3. <<y, x>> \in OpToRel(<, Nat)
    BY <2>1, <2>2, Zenon DEF OpToRel
  <2> QED
    BY <1>2, <2>3
<1> QED
  BY <1>3

\* A nonempty set of numbers up to n has a least and a greatest element.
LEMMA IntervalExtremes ==
  ASSUME NEW n \in Nat, NEW T \in SUBSET (1..n), T # {}
  PROVE  /\ \E x \in T : \A y \in T : x <= y
         /\ \E x \in T : \A y \in T : y <= x
<1>1. \E x \in T : \A y \in T : x <= y
  <2>1. T \in SUBSET Nat
    OBVIOUS
  <2> QED
    BY <2>1, LeastNat
<1>2. \E x \in T : \A y \in T : y <= x
  <2> DEFINE U == {n - x : x \in T}
  <2>1. U \in SUBSET Nat /\ U # {}
    <3>1. \A x \in T : n - x \in Nat
      OBVIOUS
    <3> QED
      BY <3>1
  <2> HIDE DEF U
  <2>2. PICK u \in U : \A v \in U : u <= v
    BY <2>1, LeastNat
  <2>3. PICK x \in T : u = n - x
    BY <2>2 DEF U
  <2>4. \A y \in T : n - y \in U
    BY DEF U
  <2>5. \A y \in T : y <= x
    BY <2>2, <2>3, <2>4
  <2> QED
    BY <2>5
<1> QED
  BY <1>1, <1>2

-----------------------------------------------------------------------------
(* Sums over finite sets, from the definition of the library's fold.       *)

\* The element a fold takes first, and the function it is defined by.
First(s) == CHOOSE x \in s : TRUE
IsSumOf(g, f, S) ==
  g = [s \in SUBSET S |-> IF s = {} THEN 0 ELSE f[First(s)] + g[s \ {First(s)}]]
Partial(f, s) == (CHOOSE g : IsSumOf(g, f, s))[s]

LEMMA SumIsPartial ==
  ASSUME NEW f, NEW S
  PROVE  SumFunctionOnSet(f, S) = Partial(f, S)
BY DEF SumFunctionOnSet, FoldFunctionOnSet, MapThenFoldSet, IsSumOf, First, Partial

\* A function takes finitely many values on a finite set.
LEMMA FiniteImage ==
  ASSUME NEW S, IsFiniteSet(S), NEW f
  PROVE  IsFiniteSet({f[x] : x \in S})
<1> DEFINE T == {f[x] : x \in S}
           g == [x \in S |-> f[x]]
<1>1. g \in Surjection(S, T)
  BY DEF Surjection
<1> HIDE DEF T, g
<1>2. IsFiniteSet(T)
  BY <1>1, FS_Surjection
<1> QED
  BY <1>2 DEF T

\* Of some subsets of a finite set there is one with none of the others in it:
\* what holds of a set when it holds of its proper subsets holds of all.
LEMMA SmallestSet ==
  ASSUME NEW S, IsFiniteSet(S), NEW B \in SUBSET SUBSET S, B # {}
  PROVE  \E s \in B : \A t \in B : t \subseteq s => t = s
<1>1. \A s \in B : IsFiniteSet(s) /\ Cardinality(s) \in Nat
  BY FS_Subset, FS_CardinalityType
<1> DEFINE C == {Cardinality(s) : s \in B}
<1>2. C \in SUBSET Nat /\ C # {}
  BY <1>1
<1>3. PICK n \in C : \A m \in C : n <= m
  <2> HIDE DEF C
  <2> QED
    BY <1>2, LeastNat
<1>4. PICK s \in B : n = Cardinality(s)
  OBVIOUS
<1>5. ASSUME NEW t \in B, t \subseteq s PROVE t = s
  <2>1. Cardinality(s) <= Cardinality(t)
    BY <1>3, <1>4
  <2>2. IsFiniteSet(s) /\ t \in SUBSET s
    BY <1>1, <1>5
  <2>3. Cardinality(t) <= Cardinality(s) /\ (Cardinality(s) = Cardinality(t) => s = t)
    BY <2>2, FS_Subset
  <2>4. Cardinality(s) \in Nat /\ Cardinality(t) \in Nat
    BY <1>1
  <2> QED
    BY <2>1, <2>3, <2>4
<1> QED
  BY <1>5

LEMMA FirstIn == ASSUME NEW s, s # {} PROVE First(s) \in s
BY DEF First

\* The function a sum is defined by is determined, and one for a set is one for
\* its subsets.
LEMMA SumRestricts ==
  ASSUME NEW f, NEW S, NEW g, IsSumOf(g, f, S), NEW T \in SUBSET S
  PROVE  IsSumOf([s \in SUBSET T |-> g[s]], f, T)
<1> DEFINE h == [s \in SUBSET T |-> g[s]]
<1>1. ASSUME NEW s \in SUBSET T
      PROVE  h[s] = IF s = {} THEN 0 ELSE f[First(s)] + h[s \ {First(s)}]
  <2>1. s \in SUBSET S /\ s \ {First(s)} \in SUBSET T
    OBVIOUS
  <2>2. g[s] = IF s = {} THEN 0 ELSE f[First(s)] + g[s \ {First(s)}]
    BY <2>1 DEF IsSumOf
  <2> QED
    BY <2>1, <2>2
<1> QED
  BY <1>1 DEF IsSumOf

LEMMA SumUnique ==
  ASSUME NEW f, NEW S, IsFiniteSet(S), NEW g, IsSumOf(g, f, S), NEW h, IsSumOf(h, f, S)
  PROVE  \A s \in SUBSET S : g[s] = h[s]
<1> DEFINE B == {s \in SUBSET S : g[s] # h[s]}
<1> SUFFICES ASSUME B # {} PROVE FALSE
  OBVIOUS
<1>1. PICK s \in B : \A t \in B : t \subseteq s => t = s
  <2>1. B \in SUBSET SUBSET S
    OBVIOUS
  <2> HIDE DEF B
  <2> QED
    BY <2>1, SmallestSet
<1>2. s \in SUBSET S /\ g[s] # h[s]
  OBVIOUS
<1>3. /\ g[s] = IF s = {} THEN 0 ELSE f[First(s)] + g[s \ {First(s)}]
      /\ h[s] = IF s = {} THEN 0 ELSE f[First(s)] + h[s \ {First(s)}]
  BY <1>2 DEF IsSumOf
<1>4. s # {} /\ g[s \ {First(s)}] # h[s \ {First(s)}]
  BY <1>2, <1>3
<1>5. s \ {First(s)} \in B /\ s \ {First(s)} # s
  BY <1>2, <1>4, FirstIn
<1> QED
  BY <1>1, <1>5

LEMMA PartialStep ==
  ASSUME NEW f, NEW S, IsFiniteSet(S), \E g : IsSumOf(g, f, S), S # {}
  PROVE  Partial(f, S) = f[First(S)] + Partial(f, S \ {First(S)})
<1> DEFINE G == CHOOSE g : IsSumOf(g, f, S)
<1> DEFINE T == S \ {First(S)}
<1> DEFINE H == CHOOSE g : IsSumOf(g, f, T)
<1>1. IsSumOf(G, f, S)
  OBVIOUS
<1>2. T \in SUBSET S /\ IsFiniteSet(T)
  BY FS_Subset
<1>3. IsSumOf([s \in SUBSET T |-> G[s]], f, T)
  BY <1>1, <1>2, SumRestricts
<1>4. IsSumOf(H, f, T)
  BY <1>3
<1>5. G[S] = f[First(S)] + G[T]
  BY <1>1 DEF IsSumOf
<1> HIDE DEF G, H, T
<1>6. [s \in SUBSET T |-> G[s]][T] = H[T]
  BY <1>2, <1>3, <1>4, SumUnique
<1> QED
  BY <1>5, <1>6 DEF Partial, G, H, T

LEMMA SumExists ==
  ASSUME NEW f, NEW S, IsFiniteSet(S)
  PROVE  \E g : IsSumOf(g, f, S)
<1> DEFINE B == {s \in SUBSET S : ~\E g : IsSumOf(g, f, s)}
<1> SUFFICES ASSUME B # {} PROVE FALSE
  OBVIOUS
<1>1. PICK s \in B : \A t \in B : t \subseteq s => t = s
  <2>1. B \in SUBSET SUBSET S
    OBVIOUS
  <2> HIDE DEF B
  <2> QED
    BY <2>1, SmallestSet
<1>2. s \in SUBSET S /\ IsFiniteSet(s) /\ ~\E g : IsSumOf(g, f, s)
  BY FS_Subset
<1>3. ASSUME NEW t \in SUBSET s, t # s PROVE IsFiniteSet(t) /\ \E g : IsSumOf(g, f, t)
  BY <1>1, <1>2, <1>3, FS_Subset
<1> DEFINE g == [u \in SUBSET s |-> IF u = {} THEN 0
                                    ELSE f[First(u)] + Partial(f, u \ {First(u)})]
<1>4. ASSUME NEW u \in SUBSET s, u # s PROVE g[u] = Partial(f, u)
  <2>1. CASE u = {}
    <3>1. PICK h : IsSumOf(h, f, u)
      BY <1>3, <1>4
    <3>2. \A k : IsSumOf(k, f, u) => k[u] = 0
      BY <2>1 DEF IsSumOf
    <3> QED
      BY <2>1, <3>1, <3>2 DEF Partial
  <2>2. CASE u # {}
    BY <1>3, <1>4, <2>2, PartialStep
  <2> QED
    BY <2>1, <2>2
<1>5. ASSUME NEW u \in SUBSET s, u # {} PROVE Partial(f, u \ {First(u)}) = g[u \ {First(u)}]
  <2>1. u \ {First(u)} \in SUBSET s /\ u \ {First(u)} # s
    BY <1>5, FirstIn
  <2> HIDE DEF g
  <2> QED
    BY <1>4, <2>1
<1>6. g = [u \in SUBSET s |-> IF u = {} THEN 0 ELSE f[First(u)] + g[u \ {First(u)}]]
  BY <1>5
<1> HIDE DEF g
<1>7. IsSumOf(g, f, s)
  BY <1>6 DEF IsSumOf
<1> QED
  BY <1>2, <1>7

\* The sum over a set, one element at a time.
LEMMA SumUnfolds ==
  ASSUME NEW f, NEW S, IsFiniteSet(S)
  PROVE  /\ S = {} => SumFunctionOnSet(f, S) = 0
         /\ S # {} => SumFunctionOnSet(f, S)
                        = f[First(S)] + SumFunctionOnSet(f, S \ {First(S)})
<1>1. \E g : IsSumOf(g, f, S)
  BY SumExists
<1>2. S # {} => SumFunctionOnSet(f, S) = f[First(S)] + SumFunctionOnSet(f, S \ {First(S)})
  BY <1>1, PartialStep, SumIsPartial
<1>3. ASSUME S = {} PROVE SumFunctionOnSet(f, S) = 0
  <2>1. \A k : IsSumOf(k, f, S) => k[S] = 0
    BY <1>3 DEF IsSumOf
  <2> QED
    BY <1>1, <2>1, SumIsPartial DEF Partial
<1> QED
  BY <1>2, <1>3

LEMMA SumType ==
  ASSUME NEW S, IsFiniteSet(S), NEW f, \A x \in S : f[x] \in Int
  PROVE  SumFunctionOnSet(f, S) \in Int
<1> DEFINE B == {s \in SUBSET S : SumFunctionOnSet(f, s) \notin Int}
<1> SUFFICES ASSUME B # {} PROVE FALSE
  OBVIOUS
<1>1. PICK s \in B : \A t \in B : t \subseteq s => t = s
  <2>1. B \in SUBSET SUBSET S
    OBVIOUS
  <2> HIDE DEF B
  <2> QED
    BY <2>1, SmallestSet
<1>2. s \in SUBSET S /\ IsFiniteSet(s) /\ SumFunctionOnSet(f, s) \notin Int
  BY FS_Subset
<1>3. s # {} /\ SumFunctionOnSet(f, s) = f[First(s)] + SumFunctionOnSet(f, s \ {First(s)})
  <2>1. s = {} => SumFunctionOnSet(f, s) = 0
    BY <1>2, SumUnfolds
  <2> QED
    BY <1>2, <2>1, SumUnfolds
<1>4. f[First(s)] \in Int /\ s \ {First(s)} # s /\ s \ {First(s)} \in SUBSET S
  BY <1>2, <1>3, FirstIn
<1>5. SumFunctionOnSet(f, s \ {First(s)}) \in Int
  BY <1>1, <1>4
<1> QED
  BY <1>2, <1>3, <1>4, <1>5

\* Any element can be taken out of a sum.
LEMMA SumTakeOut ==
  ASSUME NEW S, IsFiniteSet(S), NEW f, \A x \in S : f[x] \in Int, NEW a \in S
  PROVE  SumFunctionOnSet(f, S) = f[a] + SumFunctionOnSet(f, S \ {a})
<1> DEFINE Sum(s) == SumFunctionOnSet(f, s)
<1> DEFINE B == {s \in SUBSET S : \E x \in s : Sum(s) # f[x] + Sum(s \ {x})}
<1> SUFFICES ASSUME B # {} PROVE FALSE
  OBVIOUS
<1>1. PICK s \in B : \A t \in B : t \subseteq s => t = s
  <2>1. B \in SUBSET SUBSET S
    OBVIOUS
  <2> HIDE DEF B
  <2> QED
    BY <2>1, SmallestSet
<1>2. PICK x \in s : Sum(s) # f[x] + Sum(s \ {x})
  OBVIOUS
<1>3. s \in SUBSET S /\ IsFiniteSet(s) /\ s # {}
  BY FS_Subset
<1> DEFINE p == First(s)
<1>4. p \in s /\ Sum(s) = f[p] + Sum(s \ {p})
  BY <1>3, FirstIn, SumUnfolds
<1>5. x # p
  BY <1>2, <1>4
<1>6. s \ {p} \notin B /\ s \ {x} \notin B
  BY <1>1, <1>4
<1>7. Sum(s \ {p}) = f[x] + Sum((s \ {p}) \ {x}) /\ Sum(s \ {x}) = f[p] + Sum((s \ {x}) \ {p})
  BY <1>3, <1>4, <1>5, <1>6
<1>8. (s \ {p}) \ {x} = (s \ {x}) \ {p}
  OBVIOUS
<1> DEFINE r == Sum((s \ {x}) \ {p})
<1>9. f[x] \in Int /\ f[p] \in Int /\ r \in Int
  <2>1. (s \ {x}) \ {p} \in SUBSET S
    BY <1>3
  <2>2. IsFiniteSet((s \ {x}) \ {p}) /\ \A y \in (s \ {x}) \ {p} : f[y] \in Int
    BY <2>1, FS_Subset
  <2> QED
    BY <1>3, <1>4, <2>2, SumType
<1> HIDE DEF Sum, p, r
<1>10. Sum(s) = f[p] + (f[x] + r) /\ Sum(s \ {x}) = f[p] + r
  BY <1>4, <1>7, <1>8 DEF r
<1> QED
  BY <1>2, <1>9, <1>10

\* Sums of functions that agree are equal.
LEMMA SumAgrees ==
  ASSUME NEW S, IsFiniteSet(S), NEW f, NEW g, \A x \in S : f[x] = g[x]
  PROVE  SumFunctionOnSet(f, S) = SumFunctionOnSet(g, S)
<1> DEFINE B == {s \in SUBSET S : SumFunctionOnSet(f, s) # SumFunctionOnSet(g, s)}
<1> SUFFICES ASSUME B # {} PROVE FALSE
  OBVIOUS
<1>1. PICK s \in B : \A t \in B : t \subseteq s => t = s
  <2>1. B \in SUBSET SUBSET S
    OBVIOUS
  <2> HIDE DEF B
  <2> QED
    BY <2>1, SmallestSet
<1>2. s \in SUBSET S /\ IsFiniteSet(s) /\ SumFunctionOnSet(f, s) # SumFunctionOnSet(g, s)
  BY FS_Subset
<1>3. /\ s # {} /\ SumFunctionOnSet(f, s) = f[First(s)] + SumFunctionOnSet(f, s \ {First(s)})
      /\ SumFunctionOnSet(g, s) = g[First(s)] + SumFunctionOnSet(g, s \ {First(s)})
  BY <1>2, SumUnfolds
<1>4. f[First(s)] = g[First(s)] /\ s \ {First(s)} # s /\ s \ {First(s)} \in SUBSET S
  BY <1>2, <1>3, FirstIn
<1>5. SumFunctionOnSet(f, s \ {First(s)}) = SumFunctionOnSet(g, s \ {First(s)})
  BY <1>1, <1>4
<1> QED
  BY <1>2, <1>3, <1>4, <1>5

\* A sum over one element more.
LEMMA SumInsert ==
  ASSUME NEW S, IsFiniteSet(S), NEW a, a \notin S, NEW f, \A x \in S \cup {a} : f[x] \in Int
  PROVE  /\ SumFunctionOnSet(f, S) \in Int
         /\ SumFunctionOnSet(f, S \cup {a}) = f[a] + SumFunctionOnSet(f, S)
<1>1. IsFiniteSet(S \cup {a}) /\ (S \cup {a}) \ {a} = S
  BY FS_AddElement
<1>2. SumFunctionOnSet(f, S \cup {a}) = f[a] + SumFunctionOnSet(f, (S \cup {a}) \ {a})
  BY <1>1, SumTakeOut
<1> QED
  BY <1>1, <1>2, SumType

\* A sum after one of its terms has changed.
LEMMA SumUpdate ==
  ASSUME NEW S, IsFiniteSet(S), NEW a \in S,
         NEW f, \A x \in S : f[x] \in Int, NEW g, \A x \in S : g[x] \in Int,
         \A x \in S \ {a} : g[x] = f[x]
  PROVE  SumFunctionOnSet(g, S) = SumFunctionOnSet(f, S) + (g[a] - f[a])
<1>1. IsFiniteSet(S \ {a})
  BY FS_RemoveElement
<1>2. SumFunctionOnSet(f, S \ {a}) = SumFunctionOnSet(g, S \ {a})
  BY <1>1, SumAgrees
<1>3. /\ SumFunctionOnSet(f, S) = f[a] + SumFunctionOnSet(f, S \ {a})
      /\ SumFunctionOnSet(g, S) = g[a] + SumFunctionOnSet(g, S \ {a})
  BY SumTakeOut
<1>4. SumFunctionOnSet(f, S \ {a}) \in Int /\ f[a] \in Int /\ g[a] \in Int
  BY <1>1, SumType
<1> QED
  BY <1>2, <1>3, <1>4

\* A sum over the positions of a list that has become longer by one.
LEMMA SumAppend ==
  ASSUME NEW n \in Nat, NEW f, NEW g, \A i \in 1..(n + 1) : g[i] \in Int,
         \A i \in 1..n : g[i] = f[i]
  PROVE  /\ SumFunctionOnSet(f, 1..n) \in Int
         /\ SumFunctionOnSet(g, 1..(n + 1)) = SumFunctionOnSet(f, 1..n) + g[n + 1]
<1>1. IsFiniteSet(1..n) /\ 1..(n + 1) = (1..n) \cup {n + 1} /\ n + 1 \notin 1..n
  BY FS_Interval
<1>2. /\ SumFunctionOnSet(g, 1..n) \in Int
      /\ SumFunctionOnSet(g, (1..n) \cup {n + 1}) = g[n + 1] + SumFunctionOnSet(g, 1..n)
  BY <1>1, SumInsert
<1>3. SumFunctionOnSet(f, 1..n) = SumFunctionOnSet(g, 1..n)
  BY <1>1, SumAgrees
<1>4. g[n + 1] \in Int
  OBVIOUS
<1>5. \A a, b \in Int : a + b = b + a
  OBVIOUS
<1>6. SumFunctionOnSet(g, 1..(n + 1)) = SumFunctionOnSet(f, 1..n) + g[n + 1]
  BY <1>1, <1>2, <1>3, <1>4, <1>5, Zenon
<1> QED
  BY <1>2, <1>3, <1>6, Zenon

\* A sum of equal terms.
LEMMA SumConstant ==
  ASSUME NEW S, IsFiniteSet(S), NEW c \in Int, NEW f, \A x \in S : f[x] = c
  PROVE  SumFunctionOnSet(f, S) = Cardinality(S) * c
<1> DEFINE B == {s \in SUBSET S : SumFunctionOnSet(f, s) # Cardinality(s) * c}
<1> SUFFICES ASSUME B # {} PROVE FALSE
  OBVIOUS
<1>1. PICK s \in B : \A t \in B : t \subseteq s => t = s
  <2>1. B \in SUBSET SUBSET S
    OBVIOUS
  <2> HIDE DEF B
  <2> QED
    BY <2>1, SmallestSet
<1>2. s \in SUBSET S /\ IsFiniteSet(s) /\ SumFunctionOnSet(f, s) # Cardinality(s) * c
  BY FS_Subset
<1>3. s # {}
  <2>1. Cardinality({}) = 0 /\ SumFunctionOnSet(f, {}) = 0
    BY FS_EmptySet, SumUnfolds
  <2> QED
    BY <1>2, <2>1
<1> DEFINE t == s \ {First(s)}
<1>4. First(s) \in s /\ t \in SUBSET S /\ t # s /\ t \subseteq s
  BY <1>2, <1>3, FirstIn
<1>5. SumFunctionOnSet(f, t) = Cardinality(t) * c
  BY <1>1, <1>4
<1>6. SumFunctionOnSet(f, s) = c + SumFunctionOnSet(f, t)
  BY <1>2, <1>3, <1>4, SumUnfolds
<1>7. Cardinality(t) = Cardinality(s) - 1
  BY <1>2, <1>4, FS_RemoveElement
<1>8. Cardinality(s) \in Nat
  BY <1>2, FS_CardinalityType
<1> DEFINE n == Cardinality(s)
           m == Cardinality(t)
<1>9. SumFunctionOnSet(f, s) = c + m * c /\ m = n - 1 /\ n \in Nat
  BY <1>5, <1>6, <1>7, <1>8
<1> HIDE DEF n, m, t
<1>10. c + (n - 1) * c = n * c
  BY <1>9
<1> QED
  BY <1>2, <1>9, <1>10 DEF n

\* A sum does not change when terms that are 0 are left out.
LEMMA SumOutside ==
  ASSUME NEW S, IsFiniteSet(S), NEW A \in SUBSET S, NEW f, \A x \in S : f[x] \in Int,
         \A x \in S \ A : f[x] = 0
  PROVE  SumFunctionOnSet(f, A) = SumFunctionOnSet(f, S)
<1> DEFINE Sum(s) == SumFunctionOnSet(f, s)
<1> DEFINE B == {s \in SUBSET S : Sum(A \cap s) # Sum(s)}
<1> SUFFICES ASSUME B # {} PROVE FALSE
  <2>1. A \cap S = A
    OBVIOUS
  <2> QED
    BY <2>1
<1>1. PICK s \in B : \A t \in B : t \subseteq s => t = s
  <2>1. B \in SUBSET SUBSET S
    OBVIOUS
  <2> HIDE DEF B
  <2> QED
    BY <2>1, SmallestSet
<1>2. s \in SUBSET S /\ IsFiniteSet(s) /\ Sum(A \cap s) # Sum(s)
  BY FS_Subset
<1>3. s # {}
  <2>1. s = {} => A \cap s = s
    OBVIOUS
  <2> QED
    BY <1>2, <2>1
<1>4. PICK a \in s : TRUE
  BY <1>3
<1> DEFINE t == s \ {a}
<1>5. t \in SUBSET S /\ t \subseteq s /\ t # s /\ IsFiniteSet(t)
  BY <1>2, <1>4, FS_RemoveElement
<1>6. Sum(A \cap t) = Sum(t)
  BY <1>1, <1>5
<1>7. Sum(s) = f[a] + Sum(t) /\ Sum(t) \in Int /\ f[a] \in Int
  <2>1. \A x \in s : f[x] \in Int
    BY <1>2
  <2>2. \A x \in t : f[x] \in Int
    BY <2>1
  <2> QED
    BY <1>2, <1>4, <1>5, <2>1, <2>2, SumTakeOut, SumType
<1>8. CASE a \in A
  <2> DEFINE r == A \cap s
  <2>1. IsFiniteSet(r) /\ a \in r /\ r \ {a} = A \cap t /\ \A x \in r : f[x] \in Int
    BY <1>2, <1>4, <1>8, FS_Subset
  <2> HIDE DEF r
  <2>2. Sum(r) = f[a] + Sum(r \ {a})
    BY <2>1, SumTakeOut
  <2> QED
    BY <1>2, <1>6, <1>7, <2>1, <2>2 DEF r
<1>9. CASE a \notin A
  <2>1. f[a] = 0 /\ A \cap s = A \cap t
    BY <1>2, <1>4, <1>9
  <2>2. Sum(A \cap t) # Sum(s)
    BY <1>2, <2>1
  <2> HIDE DEF Sum, t
  <2> QED
    BY <1>6, <1>7, <2>1, <2>2
<1> QED
  BY <1>8, <1>9

\* A sum of larger terms, over more elements, is not smaller.
LEMMA SumBelow ==
  ASSUME NEW S, IsFiniteSet(S), NEW A \in SUBSET S,
         NEW f, \A x \in A : f[x] \in Nat, NEW g, \A x \in S : g[x] \in Nat,
         \A x \in A : f[x] <= g[x]
  PROVE  SumFunctionOnSet(f, A) <= SumFunctionOnSet(g, S)
<1> DEFINE F(s) == SumFunctionOnSet(f, s)
           G(s) == SumFunctionOnSet(g, s)
<1> DEFINE B == {s \in SUBSET S : ~(F(A \cap s) <= G(s))}
<1> SUFFICES ASSUME B # {} PROVE FALSE
  <2>1. A \cap S = A
    OBVIOUS
  <2> QED
    BY <2>1
<1>1. PICK s \in B : \A t \in B : t \subseteq s => t = s
  <2>1. B \in SUBSET SUBSET S
    OBVIOUS
  <2> HIDE DEF B
  <2> QED
    BY <2>1, SmallestSet
<1>2. s \in SUBSET S /\ IsFiniteSet(s) /\ ~(F(A \cap s) <= G(s))
  BY FS_Subset
<1>3. s # {}
  <2>1. s = {} => F(A \cap s) = 0 /\ G(s) = 0
    <3>1. s = {} => A \cap s = {}
      OBVIOUS
    <3>2. F({}) = 0 /\ G({}) = 0
      BY FS_EmptySet, SumUnfolds
    <3> QED
      BY <3>1, <3>2
  <2> HIDE DEF F, G
  <2> QED
    BY <1>2, <2>1
<1>4. PICK a \in s : TRUE
  BY <1>3
<1> DEFINE t == s \ {a}
<1>5. t \in SUBSET S /\ t \subseteq s /\ t # s /\ IsFiniteSet(t)
  BY <1>2, <1>4, FS_RemoveElement
<1>6. F(A \cap t) <= G(t)
  BY <1>1, <1>5
<1>7. G(s) = g[a] + G(t) /\ G(t) \in Int /\ g[a] \in Nat
  <2>1. \A x \in s : g[x] \in Int
    BY <1>2
  <2>2. \A x \in t : g[x] \in Int
    BY <2>1
  <2>3. g[a] \in Nat
    BY <1>2, <1>4
  <2> QED
    BY <1>2, <1>4, <1>5, <2>1, <2>2, <2>3, SumTakeOut, SumType
<1>8. F(A \cap t) \in Int
  <2> DEFINE r == A \cap t
  <2>1. IsFiniteSet(r) /\ \A x \in r : f[x] \in Int
    BY <1>5, FS_Subset
  <2> HIDE DEF r
  <2>2. F(r) \in Int
    BY <2>1, SumType
  <2> QED
    BY <2>2 DEF r
<1>9. CASE a \in A
  <2> DEFINE r == A \cap s
  <2>1. IsFiniteSet(r) /\ a \in r /\ r \ {a} = A \cap t /\ \A x \in r : f[x] \in Int
    BY <1>2, <1>4, <1>9, FS_Subset
  <2> HIDE DEF r
  <2>2. F(r) = f[a] + F(r \ {a})
    BY <2>1, SumTakeOut
  <2>3. f[a] \in Nat /\ f[a] <= g[a]
    BY <1>9
  <2>4. F(r) = f[a] + F(A \cap t)
    BY <2>1, <2>2
  <2>5. ~(F(r) <= G(s))
    BY <1>2 DEF r
  <2> HIDE DEF F, G, t
  <2> QED
    BY <1>6, <1>7, <1>8, <2>3, <2>4, <2>5
<1>10. CASE a \notin A
  <2>1. A \cap s = A \cap t
    BY <1>4, <1>10
  <2>2. ~(F(A \cap t) <= G(s))
    BY <1>2, <2>1
  <2> HIDE DEF F, G, t
  <2> QED
    BY <1>6, <1>7, <1>8, <2>2
<1> QED
  BY <1>9, <1>10

LEMMA SumZero ==
  ASSUME NEW S, IsFiniteSet(S), NEW f, \A x \in S : f[x] = 0
  PROVE  SumFunctionOnSet(f, S) = 0
<1>1. {} \in SUBSET S /\ (\A x \in S : f[x] \in Int) /\ \A x \in S \ {} : f[x] = 0
  OBVIOUS
<1>2. SumFunctionOnSet(f, {}) = SumFunctionOnSet(f, S)
  BY <1>1, SumOutside
<1>3. SumFunctionOnSet(f, {}) = 0
  BY FS_EmptySet, SumUnfolds
<1> QED
  BY <1>2, <1>3

LEMMA SumNat ==
  ASSUME NEW S, IsFiniteSet(S), NEW f, \A x \in S : f[x] \in Nat
  PROVE  SumFunctionOnSet(f, S) \in Nat
<1>1. {} \in SUBSET S /\ (\A x \in {} : f[x] \in Nat) /\ \A x \in {} : f[x] <= f[x]
  OBVIOUS
<1>2. SumFunctionOnSet(f, {}) <= SumFunctionOnSet(f, S)
  BY <1>1, SumBelow
<1>3. SumFunctionOnSet(f, {}) = 0
  BY FS_EmptySet, SumUnfolds
<1>4. SumFunctionOnSet(f, S) \in Int
  <2>1. \A x \in S : f[x] \in Int
    OBVIOUS
  <2> QED
    BY <2>1, SumType
<1> QED
  BY <1>2, <1>3, <1>4

\* The sum of what val says of the elements of a list.
SumOver(val, s) == SumFunctionOnSet([i \in DOMAIN s |-> val[s[i]]], DOMAIN s)

LEMMA SumOverEmpty == \A val : SumOver(val, <<>>) = 0
<1> SUFFICES ASSUME NEW val PROVE SumOver(val, <<>>) = 0
  OBVIOUS
<1>1. DOMAIN <<>> = {}
  BY EmptySeq
<1>2. \A f : SumFunctionOnSet(f, {}) = 0
  BY FS_EmptySet, SumUnfolds
<1> QED
  BY <1>1, <1>2 DEF SumOver

LEMMA SumOverType ==
  ASSUME NEW S, NEW val, \A x \in S : val[x] \in Int, NEW s \in Seq(S)
  PROVE  SumOver(val, s) \in Int
<1> DEFINE D == DOMAIN s
           f == [i \in D |-> val[s[i]]]
<1>1. D = 1..Len(s) /\ Len(s) \in Nat /\ \A i \in D : s[i] \in S
  BY ElementOfSeq, LenProperties
<1>2. \A i \in D : f[i] \in Int
  BY <1>1
<1>3. SumOver(val, s) = SumFunctionOnSet(f, D)
  BY DEF SumOver
<1> HIDE DEF D, f
<1>4. \A n \in Nat : IsFiniteSet(1..n)
  BY FS_Interval
<1>5. IsFiniteSet(D)
  BY <1>1, <1>4
<1> QED
  BY <1>2, <1>3, <1>5, SumType

LEMMA SumOverAppend ==
  ASSUME NEW S, NEW val, \A x \in S : val[x] \in Int, NEW s \in Seq(S), NEW t \in S
  PROVE  /\ SumOver(val, s) \in Int /\ SumOver(val, Append(s, t)) \in Int
         /\ SumOver(val, Append(s, t)) = SumOver(val, s) + val[t]
<1> DEFINE n == Len(s)
           q == Append(s, t)
           f == [i \in 1..n |-> val[s[i]]]
           g == [i \in 1..(n + 1) |-> val[q[i]]]
<1>1. n \in Nat /\ DOMAIN s = 1..n /\ \A i \in 1..n : s[i] \in S
  BY ElementOfSeq, LenProperties
<1>2. DOMAIN q = 1..(n + 1) /\ q[n + 1] = t /\ \A i \in 1..n : q[i] = s[i]
  BY AppendProperties, LenProperties
<1> HIDE DEF n, q
<1>3. /\ \A i \in 1..n : i \in 1..(n + 1)
      /\ \A i \in 1..(n + 1) : i \in 1..n \/ i = n + 1
      /\ n + 1 \in 1..(n + 1)
  BY <1>1
<1>4. /\ \A i \in 1..(n + 1) : g[i] \in Int
      /\ \A i \in 1..n : g[i] = f[i]
      /\ g[n + 1] = val[t]
  BY <1>1, <1>2, <1>3
<1> HIDE DEF f, g
<1>5. /\ SumFunctionOnSet(f, 1..n) \in Int
      /\ SumFunctionOnSet(g, 1..(n + 1)) = SumFunctionOnSet(f, 1..n) + g[n + 1]
  BY <1>1, <1>4, SumAppend
<1>6. /\ SumOver(val, s) = SumFunctionOnSet(f, 1..n)
      /\ SumOver(val, q) = SumFunctionOnSet(g, 1..(n + 1))
  BY <1>1, <1>2 DEF SumOver, f, g
<1>7. val[t] \in Int
  OBVIOUS
<1>8. SumOver(val, s) \in Int /\ SumOver(val, q) = SumOver(val, s) + val[t]
  BY <1>4, <1>5, <1>6, Zenon
<1>9. SumOver(val, q) \in Int
  BY <1>7, <1>8
<1> QED
  BY <1>8, <1>9 DEF q

\* An element at the end of a list that follows another.
LEMMA ConcatAppend ==
  ASSUME NEW S, NEW a \in Seq(S), NEW b \in Seq(S), NEW t \in S
  PROVE  a \o Append(b, t) = Append(a \o b, t)
<1>1. <<t>> \in Seq(S) /\ a \o b \in Seq(S)
  BY ConcatProperties
<1>2. Append(b, t) = b \o <<t>> /\ Append(a \o b, t) = (a \o b) \o <<t>>
  BY <1>1, AppendIsConcat
<1>3. (a \o b) \o <<t>> = a \o (b \o <<t>>)
  BY <1>1, ConcatAssociative
<1> QED
  BY <1>2, <1>3, Zenon

-----------------------------------------------------------------------------
(* Folds over sequences (FoldLeft).                                        *)

\* The greatest number of a set of numbers up to n, and the set without it.
LEMMA Greatest ==
  ASSUME NEW n \in Nat, NEW t \in SUBSET (1..n), t # {}
  PROVE  Max(t) \in t /\ \A k \in t : k <= Max(t)
<1>1. \E x \in t : \A y \in t : y <= x
  BY IntervalExtremes
<1>2. \A x, y \in t : x >= y <=> y <= x
  OBVIOUS
<1>3. \E x \in t : \A y \in t : x >= y
  BY <1>1, <1>2
<1>4. Max(t) \in t /\ \A y \in t : Max(t) >= y
  BY <1>3 DEF Max
<1> QED
  BY <1>2, <1>4

\* The recursive function a fold over a sequence of n elements is defined by, with
\* F[k][v] for what the k-th element makes of v.
IsFoldOf(h, n, base, F) ==
  \A t \in SUBSET (1..n) : h[t] = IF t = {} THEN base ELSE F[Max(t)][h[t \ {Max(t)}]]

\* There is such a function.
LEMMA FoldExists ==
  ASSUME NEW n \in Nat, NEW V, NEW base \in V, NEW F \in [1..n -> [V -> V]]
  PROVE  \E h \in [SUBSET (1..n) -> V] : IsFoldOf(h, n, base, F)
<1> DEFINE Good(S, h) == \A t \in SUBSET S :
             h[t] = IF t = {} THEN base ELSE F[Max(t)][h[t \ {Max(t)}]]
           B == {S \in SUBSET (1..n) : ~\E h \in [SUBSET S -> V] : Good(S, h)}
<1>1. ASSUME B # {} PROVE FALSE
  <2>1. PICK S \in B : \A T \in B : T \subseteq S => T = S
    <3> DEFINE N == 1..n
    <3>1. IsFiniteSet(N)
      BY FS_Interval
    <3>2. B \in SUBSET SUBSET N
      OBVIOUS
    <3> HIDE DEF B, N
    <3> QED
      BY <1>1, <3>1, <3>2, SmallestSet
  <2>2. S \in SUBSET (1..n) /\ ~\E h \in [SUBSET S -> V] : Good(S, h)
    OBVIOUS
  <2>3. S # {}
    <3>1. ASSUME S = {} PROVE Good(S, [t \in SUBSET S |-> base])
      BY <3>1
    <3>2. [t \in SUBSET S |-> base] \in [SUBSET S -> V]
      OBVIOUS
    <3> QED
      BY <2>2, <3>1, <3>2
  <2> DEFINE m == Max(S)
             R == S \ {m}
  <2>4. m \in S /\ \A k \in S : k <= m
    BY <2>2, <2>3, Greatest
  <2>5. R \in SUBSET (1..n) /\ R # S
    BY <2>2, <2>4
  <2>6. \E h \in [SUBSET R -> V] : Good(R, h)
    <3>1. R \notin B
      <4> HIDE DEF B
      <4> QED
        BY <2>1, <2>5
    <3> QED
      BY <2>5, <3>1
  <2>7. PICK h \in [SUBSET R -> V] : Good(R, h)
    BY <2>6
  <2> DEFINE g == [t \in SUBSET S |-> IF m \in t THEN F[m][h[t \ {m}]] ELSE h[t]]
  <2> HIDE DEF m
  <2>8. \A t \in SUBSET S : t \ {m} \in SUBSET R /\ (m \notin t => t \in SUBSET R)
    OBVIOUS
  <2>9. g \in [SUBSET S -> V]
    <3>1. m \in 1..n
      BY <2>2, <2>4
    <3>2. F[m] \in [V -> V]
      BY <3>1
    <3>3. \A t \in SUBSET S : (IF m \in t THEN F[m][h[t \ {m}]] ELSE h[t]) \in V
      BY <2>7, <2>8, <3>2
    <3> QED
      BY <3>3
  <2>10. Good(S, g)
    <3>1. ASSUME NEW t \in SUBSET S, m \in t
          PROVE  t # {} /\ Max(t) = m /\ g[t] = F[m][g[t \ {m}]]
      <4>1. t \in SUBSET (1..n) /\ t # {}
        BY <2>2, <3>1
      <4>2. Max(t) \in t /\ \A k \in t : k <= Max(t)
        BY <4>1, Greatest
      <4>3. Max(t) = m
        <5>1. Max(t) <= m /\ m <= Max(t) /\ Max(t) \in 1..n /\ m \in 1..n
          BY <2>2, <2>4, <3>1, <4>1, <4>2
        <5> QED
          BY <5>1
      <4>4. t \ {m} \in SUBSET S /\ m \notin t \ {m}
        OBVIOUS
      <4> QED
        BY <3>1, <4>1, <4>3, <4>4
    <3>2. ASSUME NEW t \in SUBSET S, m \notin t
          PROVE  g[t] = IF t = {} THEN base ELSE F[Max(t)][g[t \ {Max(t)}]]
      <4>1. t \in SUBSET R /\ t \ {Max(t)} \in SUBSET S /\ m \notin t \ {Max(t)}
        BY <3>2
      <4>2. g[t] = h[t] /\ g[t \ {Max(t)}] = h[t \ {Max(t)}]
        BY <3>2, <4>1
      <4> QED
        BY <2>7, <4>1, <4>2
    <3> HIDE DEF g
    <3> QED
      BY <3>1, <3>2
  <2> QED
    BY <2>2, <2>9, <2>10
<1>2. 1..n \notin B
  BY <1>1
<1> QED
  BY <1>2 DEF IsFoldOf

\* The numbers up to k, from which a fold takes k first.
LEMMA NumbersUpTo ==
  ASSUME NEW n \in Nat, NEW k \in 1..n
  PROVE  /\ 1..k \in SUBSET (1..n) /\ 1..k # {} /\ Max(1..k) = k
         /\ (1..k) \ {k} = 1..(k - 1) /\ 1..(k - 1) \in SUBSET (1..n)
<1>1. 1..k \in SUBSET (1..n) /\ 1..k # {} /\ k \in 1..k
  OBVIOUS
<1>2. Max(1..k) \in 1..k /\ \A j \in 1..k : j <= Max(1..k)
  BY <1>1, Greatest
<1>3. Max(1..k) = k
  BY <1>1, <1>2
<1>4. (1..k) \ {k} = 1..(k - 1) /\ 1..(k - 1) \in SUBSET (1..n)
  OBVIOUS
<1> QED
  BY <1>1, <1>3, <1>4

\* What holds before the first element and is kept by each holds after the last.
LEMMA UpTo ==
  ASSUME NEW n \in Nat, NEW G, 0 \in G, \A k \in 1..n : k - 1 \in G => k \in G
  PROVE  \A k \in 0..n : k \in G
<1> DEFINE T == {k \in 0..n : k \notin G}
<1>1. ASSUME T # {} PROVE FALSE
  <2>1. T \in SUBSET Nat
    OBVIOUS
  <2>2. PICK k \in T : \A j \in T : k <= j
    BY <1>1, <2>1, LeastNat
  <2>3. k \in 1..n /\ k - 1 \in 0..n /\ ~(k <= k - 1)
    OBVIOUS
  <2>4. k - 1 \in G
    BY <2>2, <2>3
  <2> QED
    BY <2>2, <2>3, <2>4
<1> QED
  BY <1>1

=============================================================================
