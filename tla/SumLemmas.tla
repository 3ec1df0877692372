------------------------------ MODULE SumLemmas ------------------------------
(***************************************************************************)
(* Sums over finite sets: what SumFunctionOnSet(f, S) is for every finite  *)
(* set S.  The induction principles of the library take the formula to be  *)
(* proved as a parameter; here they are used in the form "a set of         *)
(* counterexamples that is not empty has a least one".                     *)
(***************************************************************************)
EXTENDS Integers, FiniteSets, Functions, FiniteSetTheorems, TLAPS

LEMMA LeastNumber ==
    ASSUME NEW T, T \subseteq Nat, T # {}
    PROVE  \E n \in T : \A m \in T : n <= m
<1> DEFINE Less == {p \in Nat \X Nat : p[1] < p[2]}
<1>1. IsWellFoundedOn(Less, Nat)
  BY NatLessThanWellFounded DEF OpToRel
<1>2. \A m, n \in Nat : <<m, n>> \in Less <=> m < n
  OBVIOUS
<1> HIDE DEF Less
<1>3. PICK n \in T : \A m \in T : <<m, n>> \notin Less
  BY <1>1, WFMin
<1>4. ASSUME NEW m \in T PROVE n <= m
  <2>1. m \in Nat /\ n \in Nat
    OBVIOUS
  <2>2. ~(m < n)
    BY <1>2, <1>3, <2>1
  <2> QED
    BY <2>1, <2>2
<1> QED
  BY <1>4

LEMMA SmallestSet ==
    ASSUME NEW S, IsFiniteSet(S), NEW Bad, Bad \subseteq SUBSET S, Bad # {}
    PROVE  \E T \in Bad : \A U \in SUBSET T : U # T => U \notin Bad
<1>1. IsWellFoundedOn(StrictSubsetOrdering(S), SUBSET S)
  BY FS_StrictSubsetOrderingWellFounded, FS_FiniteSubsetsOfFinite
<1>2. PICK T \in Bad : \A U \in Bad : <<U, T>> \notin StrictSubsetOrdering(S)
  BY <1>1, WFMin
<1>3. \A U \in SUBSET T : U # T => U \notin Bad
  <2> SUFFICES ASSUME NEW U \in SUBSET T, U # T, U \in Bad PROVE FALSE
    OBVIOUS
  <2> QED
    BY <1>2 DEF StrictSubsetOrdering
<1> QED
  BY <1>3

-----------------------------------------------------------------------------
(***************************************************************************)
(* The recursion behind the sum.  Layer by layer of the subsets of S, a    *)
(* function satisfies its equation, and there is only one.                 *)
(***************************************************************************)
First(s) == CHOOSE x \in s : TRUE

SumFrom(f, g, s) == IF s = {} THEN 0 ELSE f[First(s)] + g[s \ {First(s)}]

IsTable(f, domain, g) == g = [s \in domain |-> SumFrom(f, g, s)]

LEMMA FirstIsElement == ASSUME NEW s, s # {} PROVE First(s) \in s
  BY DEF First

Layer(S, n) == {s \in SUBSET S : Cardinality(s) <= n}

LEMMA LayersHaveTables ==
    ASSUME NEW f, NEW S, IsFiniteSet(S), NEW n \in Nat
    PROVE  \E g : IsTable(f, Layer(S, n), g)
<1> DEFINE Bad == {m \in Nat : ~ \E g : IsTable(f, Layer(S, m), g)}
<1>1. SUFFICES ASSUME Bad # {} PROVE FALSE
  OBVIOUS
<1>2. PICK m \in Bad : \A k \in Bad : m <= k
  BY <1>1, LeastNumber
<1>3. \A s \in SUBSET S : IsFiniteSet(s) /\ Cardinality(s) \in Nat
  BY FS_Subset, FS_CardinalityType
<1>4. CASE m = 0
  <2> DEFINE g == [s \in Layer(S, 0) |-> 0]
  <2>1. \A s \in Layer(S, 0) : s = {}
    BY <1>3, FS_EmptySet DEF Layer
  <2>2. \A s \in Layer(S, 0) : SumFrom(f, g, s) = 0
    BY <2>1 DEF SumFrom
  <2>3. IsTable(f, Layer(S, 0), g)
    BY <2>2 DEF IsTable
  <2> QED
    BY <1>4, <2>3
<1>5. CASE m # 0
  <2>1. m - 1 \in Nat /\ m - 1 \notin Bad
    BY <1>2, <1>5
  <2>2. PICK h : IsTable(f, Layer(S, m - 1), h)
    BY <2>1
  <2> DEFINE g == [s \in Layer(S, m) |-> SumFrom(f, h, s)]
  <2>3. ASSUME NEW s \in Layer(S, m), s # {}
        PROVE  g[s \ {First(s)}] = h[s \ {First(s)}]
    <3> DEFINE t == s \ {First(s)}
    <3>1. t \in SUBSET S /\ Cardinality(t) = Cardinality(s) - 1
      BY <1>3, <2>3, FirstIsElement, FS_RemoveElement DEF Layer
    <3>2. t \in Layer(S, m - 1) /\ t \in Layer(S, m)
      BY <1>3, <3>1 DEF Layer
    <3> HIDE DEF t
    <3>3. h[t] = SumFrom(f, h, t)
      BY <2>2, <3>2 DEF IsTable
    <3> QED
      BY <3>2, <3>3 DEF t
  <2>4. ASSUME NEW s \in Layer(S, m) PROVE SumFrom(f, g, s) = SumFrom(f, h, s)
    <3> HIDE DEF g
    <3> QED
      BY <2>3 DEF SumFrom
  <2>5. IsTable(f, Layer(S, m), g)
    BY <2>4 DEF IsTable
  <2> QED
    BY <2>5
<1> QED
  BY <1>4, <1>5

LEMMA SumHasTable ==
    ASSUME NEW f, NEW S, IsFiniteSet(S)
    PROVE  \E g : IsTable(f, SUBSET S, g) /\ SumFunctionOnSet(f, S) = g[S]
<1>1. Cardinality(S) \in Nat /\ Layer(S, Cardinality(S)) = SUBSET S
  BY FS_CardinalityType, FS_Subset DEF Layer
<1>2. \E g : IsTable(f, SUBSET S, g)
  <2>1. \E g : IsTable(f, Layer(S, Cardinality(S)), g)
    BY <1>1, LayersHaveTables
  <2> QED
    BY <1>1, <2>1
<1> DEFINE iter == CHOOSE g : IsTable(f, SUBSET S, g)
<1>3. IsTable(f, SUBSET S, iter)
  BY <1>2
<1>4. SumFunctionOnSet(f, S) = iter[S]
  BY DEF SumFunctionOnSet, FoldFunctionOnSet, MapThenFoldSet, IsTable, SumFrom, First
<1> QED
  BY <1>3, <1>4

LEMMA TablesAgree ==
    ASSUME NEW f, NEW S, NEW T \in SUBSET S, IsFiniteSet(S)
    PROVE  \A g, h : IsTable(f, SUBSET S, g) /\ IsTable(f, SUBSET T, h) => g[T] = h[T]
<1> SUFFICES ASSUME NEW g, NEW h, IsTable(f, SUBSET S, g), IsTable(f, SUBSET T, h)
             PROVE  g[T] = h[T]
  OBVIOUS
<1> DEFINE Bad == {U \in SUBSET T : g[U] # h[U]}
<1>1. SUFFICES ASSUME Bad # {} PROVE FALSE
  OBVIOUS
<1>2. IsFiniteSet(T) /\ Bad \subseteq SUBSET T
  BY FS_Subset
<1> HIDE DEF Bad
<1>3. PICK U \in Bad : \A V \in SUBSET U : V # U => V \notin Bad
  BY <1>1, <1>2, SmallestSet
<1> USE DEF Bad
<1>4. g[U] = SumFrom(f, g, U) /\ h[U] = SumFrom(f, h, U)
  BY DEF IsTable
<1>5. U # {}
  BY <1>4 DEF SumFrom
<1>6. g[U \ {First(U)}] = h[U \ {First(U)}]
  BY <1>3, <1>5, FirstIsElement
<1> QED
  BY <1>4, <1>6 DEF SumFrom

-----------------------------------------------------------------------------
(***************************************************************************)
(* The sum as its equation: it does not matter in which order the elements *)
(* are taken.                                                              *)
(***************************************************************************)
LEMMA SumOfNothing ==
    ASSUME NEW f
    PROVE  SumFunctionOnSet(f, {}) = 0
<1>1. PICK g : IsTable(f, SUBSET {}, g) /\ SumFunctionOnSet(f, {}) = g[{}]
  BY SumHasTable, FS_EmptySet
<1> QED
  BY <1>1 DEF IsTable, SumFrom

LEMMA SumUnfolds ==
    ASSUME NEW f, NEW S, IsFiniteSet(S), S # {}
    PROVE  SumFunctionOnSet(f, S) = f[First(S)] + SumFunctionOnSet(f, S \ {First(S)})
<1> DEFINE T == S \ {First(S)}
<1>1. IsFiniteSet(T) /\ T \in SUBSET S
  BY FS_Subset
<1> HIDE DEF T
<1>2. PICK g : IsTable(f, SUBSET S, g) /\ SumFunctionOnSet(f, S) = g[S]
  BY SumHasTable
<1>3. PICK h : IsTable(f, SUBSET T, h) /\ SumFunctionOnSet(f, T) = h[T]
  BY <1>1, SumHasTable
<1>4. g[T] = h[T]
  <2>1. IsTable(f, SUBSET S, g) /\ IsTable(f, SUBSET T, h)
    BY <1>2, <1>3
  <2>2. \A p, q : IsTable(f, SUBSET S, p) /\ IsTable(f, SUBSET T, q) => p[T] = q[T]
    BY <1>1, TablesAgree
  <2> QED
    BY <2>1, <2>2
<1>5. g[S] = f[First(S)] + g[T]
  BY <1>2 DEF IsTable, SumFrom, T
<1> QED
  BY <1>2, <1>3, <1>4, <1>5 DEF T

LEMMA SumType ==
    ASSUME NEW f, NEW S, IsFiniteSet(S), \A x \in S : f[x] \in Int
    PROVE  SumFunctionOnSet(f, S) \in Int
<1> DEFINE Bad == {T \in SUBSET S : SumFunctionOnSet(f, T) \notin Int}
<1>1. SUFFICES ASSUME Bad # {} PROVE FALSE
  OBVIOUS
<1>0. Bad \subseteq SUBSET S
  OBVIOUS
<1> HIDE DEF Bad
<1>2. PICK T \in Bad : \A U \in SUBSET T : U # T => U \notin Bad
  BY <1>0, <1>1, SmallestSet
<1> USE DEF Bad
<1>3. IsFiniteSet(T) /\ T # {}
  <2>1. T \in SUBSET S /\ SumFunctionOnSet(f, T) # 0
    OBVIOUS
  <2> QED
    BY <2>1, FS_Subset, SumOfNothing
<1>4. First(T) \in T
  BY <1>3, FirstIsElement
<1>5. SumFunctionOnSet(f, T \ {First(T)}) \in Int
  BY <1>2, <1>4
<1> QED
  BY <1>3, <1>4, <1>5, SumUnfolds

LEMMA SumWithout ==
    ASSUME NEW f, NEW S, IsFiniteSet(S), NEW x \in S, \A y \in S : f[y] \in Int
    PROVE  SumFunctionOnSet(f, S) = f[x] + SumFunctionOnSet(f, S \ {x})
<1> DEFINE Bad == {T \in SUBSET S : \E z \in T : SumFunctionOnSet(f, T) # f[z] + SumFunctionOnSet(f, T \ {z})}
<1>1. SUFFICES ASSUME Bad # {} PROVE FALSE
  OBVIOUS
<1>0. Bad \subseteq SUBSET S
  OBVIOUS
<1> HIDE DEF Bad
<1>2. PICK T \in Bad : \A U \in SUBSET T : U # T => U \notin Bad
  BY <1>0, <1>1, SmallestSet
<1> USE DEF Bad
<1>3. PICK z \in T : SumFunctionOnSet(f, T) # f[z] + SumFunctionOnSet(f, T \ {z})
  BY <1>2
<1> DEFINE c == First(T)
<1>4. IsFiniteSet(T) /\ c \in T
  BY FS_Subset, FirstIsElement
<1>5. SumFunctionOnSet(f, T) = f[c] + SumFunctionOnSet(f, T \ {c})
  BY <1>4, SumUnfolds
<1>6. c # z
  BY <1>3, <1>5
<1> HIDE DEF c
<1>7. SumFunctionOnSet(f, T \ {c}) = f[z] + SumFunctionOnSet(f, (T \ {c}) \ {z})
  <2>1. T \ {c} \notin Bad
    BY <1>2, <1>4
  <2> QED
    BY <1>6, <2>1
<1>8. SumFunctionOnSet(f, T \ {z}) = f[c] + SumFunctionOnSet(f, (T \ {z}) \ {c})
  <2>1. T \ {z} \notin Bad
    BY <1>2
  <2> QED
    BY <1>4, <1>6, <2>1
<1>9. (T \ {c}) \ {z} = (T \ {z}) \ {c}
  OBVIOUS
<1>10. SumFunctionOnSet(f, (T \ {c}) \ {z}) \in Int /\ f[c] \in Int /\ f[z] \in Int
  <2>1. IsFiniteSet((T \ {c}) \ {z})
    BY <1>4, FS_RemoveElement
  <2> QED
    BY <1>4, <2>1, SumType
<1> DEFINE rest == SumFunctionOnSet(f, (T \ {c}) \ {z})
<1>11. SumFunctionOnSet(f, T) = f[c] + (f[z] + rest)
  BY <1>5, <1>7
<1>12. SumFunctionOnSet(f, T \ {z}) = f[c] + rest
  BY <1>8, <1>9
<1> HIDE DEF rest
<1>13. rest \in Int /\ f[c] \in Int /\ f[z] \in Int
  BY <1>10 DEF rest
<1> QED
  BY <1>3, <1>11, <1>12, <1>13

LEMMA SumWith ==
    ASSUME NEW f, NEW S, IsFiniteSet(S), NEW x, x \notin S, \A y \in S \cup {x} : f[y] \in Int
    PROVE  SumFunctionOnSet(f, S \cup {x}) = f[x] + SumFunctionOnSet(f, S)
<1>1. IsFiniteSet(S \cup {x}) /\ (S \cup {x}) \ {x} = S
  BY FS_AddElement
<1> QED
  BY <1>1, SumWithout

-----------------------------------------------------------------------------
(***************************************************************************)
(* Induction over the subsets of a finite set, and what follows for sums.  *)
(***************************************************************************)
LEMMA SubsetInduction ==
    ASSUME NEW S, IsFiniteSet(S), NEW Good, {} \in Good,
           \A T \in SUBSET S : \A x \in S \ T : T \in Good => T \cup {x} \in Good
    PROVE  S \in Good
<1> DEFINE Bad == {T \in SUBSET S : T \notin Good}
<1>0. Bad \subseteq SUBSET S
  OBVIOUS
<1>1. SUFFICES ASSUME Bad # {} PROVE FALSE
  OBVIOUS
<1> HIDE DEF Bad
<1>2. PICK T \in Bad : \A U \in SUBSET T : U # T => U \notin Bad
  BY <1>0, <1>1, SmallestSet
<1> USE DEF Bad
<1>3. PICK x \in T : TRUE
  OBVIOUS
<1>4. T \ {x} \in Good
  BY <1>2
<1>5. (T \ {x}) \cup {x} = T
  OBVIOUS
<1>6. x \in S \ (T \ {x}) /\ T \ {x} \in SUBSET S
  OBVIOUS
<1>7. (T \ {x}) \cup {x} \in Good
  BY <1>4, <1>6
<1> QED
  BY <1>5, <1>7

LEMMA SumTypeNat ==
    ASSUME NEW f, NEW S, IsFiniteSet(S), \A x \in S : f[x] \in Nat
    PROVE  SumFunctionOnSet(f, S) \in Nat
<1> DEFINE Good == {T \in SUBSET S : SumFunctionOnSet(f, T) \in Nat}
<1>1. {} \in Good
  BY SumOfNothing
<1>2. ASSUME NEW T \in SUBSET S, NEW x \in S \ T, T \in Good
      PROVE  T \cup {x} \in Good
  <2>1. SumFunctionOnSet(f, T \cup {x}) = f[x] + SumFunctionOnSet(f, T)
    BY FS_Subset, SumWith
  <2> QED
    BY <1>2, <2>1
<1> HIDE DEF Good
<1>3. S \in Good
  BY <1>1, <1>2, SubsetInduction
<1> QED
  BY <1>3 DEF Good

(***************************************************************************)
(* What is added up pointwise is added up in the sum; a smaller function   *)
(* has a smaller sum.                                                      *)
(***************************************************************************)
LEMMA SumMonotone ==
    ASSUME NEW f, NEW g, NEW S, IsFiniteSet(S),
           \A x \in S : f[x] \in Int /\ g[x] \in Int /\ f[x] <= g[x]
    PROVE  SumFunctionOnSet(f, S) <= SumFunctionOnSet(g, S)
<1> DEFINE Good == {T \in SUBSET S : SumFunctionOnSet(f, T) <= SumFunctionOnSet(g, T)}
<1>1. {} \in Good
  BY SumOfNothing
<1>2. ASSUME NEW T \in SUBSET S, NEW x \in S \ T, T \in Good
      PROVE  T \cup {x} \in Good
  <2>1. IsFiniteSet(T)
    BY FS_Subset
  <2>2. /\ SumFunctionOnSet(f, T \cup {x}) = f[x] + SumFunctionOnSet(f, T)
        /\ SumFunctionOnSet(g, T \cup {x}) = g[x] + SumFunctionOnSet(g, T)
    BY <2>1, SumWith
  <2>3. SumFunctionOnSet(f, T) \in Int /\ SumFunctionOnSet(g, T) \in Int
    BY <2>1, SumType
  <2> QED
    BY <1>2, <2>2, <2>3
<1> HIDE DEF Good
<1>3. S \in Good
  BY <1>1, <1>2, SubsetInduction
<1> QED
  BY <1>3 DEF Good

LEMMA SumSame ==
    ASSUME NEW f, NEW g, NEW S, IsFiniteSet(S), \A x \in S : f[x] \in Int /\ g[x] = f[x]
    PROVE  SumFunctionOnSet(f, S) = SumFunctionOnSet(g, S)
<1>1. SumFunctionOnSet(f, S) <= SumFunctionOnSet(g, S)
  BY SumMonotone
<1>2. SumFunctionOnSet(g, S) <= SumFunctionOnSet(f, S)
  BY SumMonotone
<1>3. SumFunctionOnSet(f, S) \in Int /\ SumFunctionOnSet(g, S) \in Int
  BY SumType
<1> QED
  BY <1>1, <1>2, <1>3

LEMMA SumOfSums ==
    ASSUME NEW f, NEW g, NEW h, NEW S, IsFiniteSet(S),
           \A x \in S : f[x] \in Int /\ g[x] \in Int /\ h[x] = f[x] + g[x]
    PROVE  SumFunctionOnSet(h, S) = SumFunctionOnSet(f, S) + SumFunctionOnSet(g, S)
<1> DEFINE Good == {T \in SUBSET S : SumFunctionOnSet(h, T) = SumFunctionOnSet(f, T) + SumFunctionOnSet(g, T)}
<1>1. {} \in Good
  BY SumOfNothing
<1>2. ASSUME NEW T \in SUBSET S, NEW x \in S \ T, T \in Good
      PROVE  T \cup {x} \in Good
  <2>1. IsFiniteSet(T)
    BY FS_Subset
  <2>2. \A y \in T \cup {x} : h[y] \in Int
    OBVIOUS
  <2>3. /\ SumFunctionOnSet(f, T \cup {x}) = f[x] + SumFunctionOnSet(f, T)
        /\ SumFunctionOnSet(g, T \cup {x}) = g[x] + SumFunctionOnSet(g, T)
        /\ SumFunctionOnSet(h, T \cup {x}) = h[x] + SumFunctionOnSet(h, T)
    BY <2>1, <2>2, SumWith
  <2>4. SumFunctionOnSet(f, T) \in Int /\ SumFunctionOnSet(g, T) \in Int
    BY <2>1, SumType
  <2> QED
    BY <1>2, <2>3, <2>4
<1> HIDE DEF Good
<1>3. S \in Good
  BY <1>1, <1>2, SubsetInduction
<1> QED
  BY <1>3 DEF Good

LEMMA SumOfZeros ==
    ASSUME NEW f, NEW S, IsFiniteSet(S), \A x \in S : f[x] = 0
    PROVE  SumFunctionOnSet(f, S) = 0
<1>1. SumFunctionOnSet(f, S) = SumFunctionOnSet(f, S) + SumFunctionOnSet(f, S)
  BY SumOfSums
<1>2. SumFunctionOnSet(f, S) \in Int
  BY SumType
<1>3. \A n \in Int : n = n + n => n = 0
  OBVIOUS
<1> QED
  BY <1>1, <1>2, <1>3

LEMMA SumOfEqualParts ==
    ASSUME NEW f, NEW S, IsFiniteSet(S), NEW q \in Int, \A x \in S : f[x] = q
    PROVE  SumFunctionOnSet(f, S) = q * Cardinality(S)
<1> DEFINE Good == {T \in SUBSET S : SumFunctionOnSet(f, T) = q * Cardinality(T)}
<1>1. {} \in Good
  BY SumOfNothing, FS_EmptySet
<1>2. ASSUME NEW T \in SUBSET S, NEW x \in S \ T, T \in Good
      PROVE  T \cup {x} \in Good
  <2>1. IsFiniteSet(T) /\ Cardinality(T) \in Nat /\ Cardinality(T \cup {x}) = Cardinality(T) + 1
    BY FS_Subset, FS_CardinalityType, FS_AddElement
  <2>2. SumFunctionOnSet(f, T \cup {x}) = q + SumFunctionOnSet(f, T)
    BY <2>1, SumWith
  <2>3. \A n \in Nat : q * (n + 1) = q + q * n
    OBVIOUS
  <2> QED
    BY <1>2, <2>1, <2>2, <2>3
<1> HIDE DEF Good
<1>3. S \in Good
  BY <1>1, <1>2, SubsetInduction
<1> QED
  BY <1>3 DEF Good

(***************************************************************************)
(* A sum in parts, a part of a sum, and the sum over an image.             *)
(***************************************************************************)
LEMMA SumInParts ==
    ASSUME NEW f, NEW S, IsFiniteSet(S), NEW P \in SUBSET S, \A x \in S : f[x] \in Int
    PROVE  SumFunctionOnSet(f, S) = SumFunctionOnSet(f, P) + SumFunctionOnSet(f, S \ P)
<1> DEFINE Good == {T \in SUBSET P : SumFunctionOnSet(f, S) = SumFunctionOnSet(f, T) + SumFunctionOnSet(f, S \ T)}
<1>0. IsFiniteSet(P)
  BY FS_Subset
<1>1. {} \in Good
  <2>1. S \ {} = S
    OBVIOUS
  <2> QED
    BY <2>1, SumOfNothing, SumType
<1>2. ASSUME NEW T \in SUBSET P, NEW x \in P \ T, T \in Good
      PROVE  T \cup {x} \in Good
  <2>1. IsFiniteSet(T) /\ IsFiniteSet(S \ T) /\ IsFiniteSet(S \ (T \cup {x}))
    BY FS_Subset
  <2>2. SumFunctionOnSet(f, T \cup {x}) = f[x] + SumFunctionOnSet(f, T)
    BY <2>1, SumWith
  <2>3. SumFunctionOnSet(f, S \ T) = f[x] + SumFunctionOnSet(f, (S \ T) \ {x})
    BY <2>1, SumWithout
  <2>4. (S \ T) \ {x} = S \ (T \cup {x})
    OBVIOUS
  <2>5. SumFunctionOnSet(f, T) \in Int /\ SumFunctionOnSet(f, S \ (T \cup {x})) \in Int /\ f[x] \in Int
    BY <2>1, SumType
  <2> DEFINE rest == SumFunctionOnSet(f, S \ (T \cup {x}))
             part == SumFunctionOnSet(f, T)
  <2>6. SumFunctionOnSet(f, S) = part + (f[x] + rest)
    BY <1>2, <2>3, <2>4
  <2> HIDE DEF rest, part
  <2>7. SumFunctionOnSet(f, S) = (f[x] + part) + rest
    BY <2>5, <2>6 DEF rest, part
  <2> QED
    BY <2>2, <2>7 DEF rest, part
<1> HIDE DEF Good
<1>3. P \in Good
  BY <1>0, <1>1, <1>2, SubsetInduction
<1> QED
  BY <1>3 DEF Good

LEMMA SumOfPart ==
    ASSUME NEW f, NEW S, IsFiniteSet(S), NEW P \in SUBSET S, \A x \in S : f[x] \in Nat
    PROVE  SumFunctionOnSet(f, P) <= SumFunctionOnSet(f, S)
<1>1. SumFunctionOnSet(f, S) = SumFunctionOnSet(f, P) + SumFunctionOnSet(f, S \ P)
  BY SumInParts
<1>2. IsFiniteSet(P) /\ IsFiniteSet(S \ P)
  BY FS_Subset
<1>3. SumFunctionOnSet(f, P) \in Nat /\ SumFunctionOnSet(f, S \ P) \in Nat
  BY <1>2, SumTypeNat
<1> QED
  BY <1>1, <1>3

LEMMA FiniteImage ==
    ASSUME NEW S, IsFiniteSet(S), NEW e
    PROVE  IsFiniteSet({e[x] : x \in S})
<1> DEFINE Good == {T \in SUBSET S : IsFiniteSet({e[x] : x \in T})}
<1>1. {} \in Good
  <2>1. {e[x] : x \in {}} = {}
    OBVIOUS
  <2> QED
    BY <2>1, FS_EmptySet
<1>2. ASSUME NEW T \in SUBSET S, NEW y \in S \ T, T \in Good
      PROVE  T \cup {y} \in Good
  <2>1. {e[x] : x \in T \cup {y}} = {e[x] : x \in T} \cup {e[y]}
    OBVIOUS
  <2>2. IsFiniteSet({e[x] : x \in T} \cup {e[y]})
    <3> DEFINE image == {e[x] : x \in T}
    <3>1. IsFiniteSet(image)
      BY <1>2
    <3> HIDE DEF image
    <3>2. IsFiniteSet(image \cup {e[y]})
      BY <3>1, FS_AddElement
    <3> QED
      BY <3>2 DEF image
  <2>3. IsFiniteSet({e[x] : x \in T \cup {y}})
    BY <2>1, <2>2
  <2> QED
    BY <2>3
<1> HIDE DEF Good
<1>3. S \in Good
  BY <1>1, <1>2, SubsetInduction
<1> QED
  BY <1>3 DEF Good

LEMMA SumOfImage ==
    ASSUME NEW f, NEW h, NEW e, NEW S, IsFiniteSet(S),
           \A x \in S : f[e[x]] \in Nat /\ h[x] \in Nat /\ f[e[x]] <= h[x]
    PROVE  SumFunctionOnSet(f, {e[x] : x \in S}) <= SumFunctionOnSet(h, S)
<1> DEFINE Im(T) == {e[x] : x \in T}
           Good == {T \in SUBSET S : SumFunctionOnSet(f, Im(T)) <= SumFunctionOnSet(h, T)}
<1>1. {} \in Good
  <2>1. Im({}) = {}
    OBVIOUS
  <2> QED
    BY <2>1, SumOfNothing
<1>2. ASSUME NEW T \in SUBSET S, NEW y \in S \ T, T \in Good
      PROVE  T \cup {y} \in Good
  <2>1. IsFiniteSet(T) /\ IsFiniteSet(Im(T))
    BY FS_Subset, FiniteImage
  <2>2. Im(T \cup {y}) = Im(T) \cup {e[y]}
    OBVIOUS
  <2>3. \A z \in Im(T) \cup {e[y]} : f[z] \in Nat
    OBVIOUS
  <2> HIDE DEF Im
  <2>4. SumFunctionOnSet(h, T \cup {y}) = h[y] + SumFunctionOnSet(h, T)
    BY <2>1, SumWith
  <2>5. SumFunctionOnSet(f, Im(T)) \in Nat /\ SumFunctionOnSet(h, T) \in Nat
    BY <2>1, <2>3, SumTypeNat
  <2>6. SumFunctionOnSet(f, Im(T)) <= SumFunctionOnSet(h, T)
    BY <1>2
  <2>7. CASE e[y] \in Im(T)
    <3>1. Im(T) \cup {e[y]} = Im(T)
      BY <2>7
    <3>2. SumFunctionOnSet(f, Im(T)) <= h[y] + SumFunctionOnSet(h, T)
      BY <2>5, <2>6
    <3> QED
      BY <2>2, <2>4, <3>1, <3>2
  <2>8. CASE e[y] \notin Im(T)
    <3>1. SumFunctionOnSet(f, Im(T) \cup {e[y]}) = f[e[y]] + SumFunctionOnSet(f, Im(T))
      BY <2>1, <2>3, <2>8, SumWith
    <3>2. f[e[y]] + SumFunctionOnSet(f, Im(T)) <= h[y] + SumFunctionOnSet(h, T)
      BY <2>5, <2>6
    <3> QED
      BY <2>2, <2>4, <3>1, <3>2
  <2> QED
    BY <2>7, <2>8
<1> HIDE DEF Good
<1>3. S \in Good
  BY <1>1, <1>2, SubsetInduction
<1> QED
  BY <1>3 DEF Good

(***************************************************************************)
(* One part of a sum changes.                                              *)
(***************************************************************************)
LEMMA SumAfterChange ==
    ASSUME NEW f, NEW g, NEW S, IsFiniteSet(S), NEW x \in S,
           \A y \in S : f[y] \in Int /\ g[y] \in Int /\ (y # x => g[y] = f[y])
    PROVE  SumFunctionOnSet(g, S) = SumFunctionOnSet(f, S) - f[x] + g[x]
<1>1. IsFiniteSet(S \ {x})
  BY FS_Subset
<1>2. /\ SumFunctionOnSet(f, S) = f[x] + SumFunctionOnSet(f, S \ {x})
      /\ SumFunctionOnSet(g, S) = g[x] + SumFunctionOnSet(g, S \ {x})
  BY SumWithout
<1>3. SumFunctionOnSet(f, S \ {x}) = SumFunctionOnSet(g, S \ {x})
  BY <1>1, SumSame
<1>4. SumFunctionOnSet(f, S \ {x}) \in Int
  BY <1>1, SumType
<1> QED
  BY <1>2, <1>3, <1>4
=============================================================================
