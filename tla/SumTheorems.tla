---------------------------- MODULE SumTheorems ----------------------------
(***************************************************************************)
(* Sums over a finite set, as the community modules define them            *)
(* (SumFunctionOnSet), and the induction they need.                        *)
(*                                                                         *)
(* The induction theorems of the library have an operator as parameter and *)
(* cannot be instantiated by the provers.  FiniteSetInduction and NatLeast *)
(* say the same of a set: they follow from the theorem that the subsets of *)
(* a finite set are well founded.  SumFunctionOnSet is a recursive         *)
(* function; that the recursion has a solution is shown by exhibiting one, *)
(* the number of cells in as many columns as the set has elements.         *)
(***************************************************************************)
EXTENDS Functions, FiniteSetTheorems, TLAPS

\* A family of subsets of S has {} and is closed under adding an element of S.
InductiveFamily(S, F) ==
    /\ {} \in F
    /\ \A T \in SUBSET S : \A x \in S : T \in F /\ x \notin T => T \cup {x} \in F

\* Some set of a non-empty family of finite sets has no other set of the family
\* below it.
LEMMA FiniteMinimal ==
    ASSUME NEW U, NEW F \in SUBSET FiniteSubsetsOf(U), F # {}
    PROVE  \E s \in F : \A r \in F : r \subseteq s => r = s
<1>1. IsWellFoundedOn(StrictSubsetOrdering(U), FiniteSubsetsOf(U))
  BY FS_StrictSubsetOrderingWellFounded
<1>2. F \subseteq FiniteSubsetsOf(U)
  OBVIOUS
<1>3. PICK s \in F : \A r \in F : ~(<<r, s>> \in StrictSubsetOrdering(U))
  BY <1>1, <1>2, WFMin, Zenon
<1>4. QED
  BY <1>3 DEF StrictSubsetOrdering, FiniteSubsetsOf

\* Induction over a finite set, one element at a time.
LEMMA FiniteSetInduction ==
    ASSUME NEW S, IsFiniteSet(S), NEW F, InductiveFamily(S, F)
    PROVE  S \in F
<1> DEFINE E == (SUBSET S) \ F
<1>1. SUFFICES ASSUME S \notin F PROVE FALSE
  OBVIOUS
<1>2. E \in SUBSET FiniteSubsetsOf(S)
  BY FS_Subset DEF FiniteSubsetsOf
<1>3. E # {}
  BY <1>1
<1>4. PICK T \in E : \A r \in E : r \subseteq T => r = T
  <2> HIDE DEF E
  <2> QED BY <1>2, <1>3, FiniteMinimal
<1>5. T # {}
  BY <1>4 DEF InductiveFamily
<1>6. PICK x \in T : TRUE
  BY <1>5
<1>7. T \ {x} \in SUBSET S /\ x \in S /\ x \notin T \ {x} /\ T = (T \ {x}) \cup {x}
  BY <1>4, <1>6
<1>8. T \ {x} \notin E
  BY <1>4, <1>6
<1>9. QED
  BY <1>4, <1>7, <1>8 DEF InductiveFamily

\* Every non-empty set of natural numbers has a least element.
LEMMA NatLeast ==
    ASSUME NEW S \in SUBSET Nat, S # {}
    PROVE  \E n \in S : \A m \in S : n <= m
<1> DEFINE F == {1 .. n : n \in S}
<1>1. F \in SUBSET FiniteSubsetsOf(Nat)
  BY FS_Interval DEF FiniteSubsetsOf
<1>2. F # {}
  <2>1. PICK n \in S : TRUE
    OBVIOUS
  <2>2. 1 .. n \in F
    OBVIOUS
  <2> QED BY <2>2
<1>3. PICK s \in F : \A r \in F : r \subseteq s => r = s
  <2> HIDE DEF F
  <2> QED BY <1>1, <1>2, FiniteMinimal
<1>4. PICK n \in S : s = 1 .. n
  OBVIOUS
<1>5. ASSUME NEW m \in S, m < n PROVE FALSE
  <2>1. 1 .. m \in F /\ 1 .. m \subseteq 1 .. n
    BY <1>5
  <2>2. 1 .. m = 1 .. n
    BY <1>3, <1>4, <2>1
  <2>3. n \in 1 .. n /\ n \notin 1 .. m
    BY <1>5
  <2> QED BY <2>2, <2>3
<1>6. QED
  BY <1>5
-----------------------------------------------------------------------------
\* f[x] cells for each x in S.
Cells(f, S) == UNION {{x} \X (1 .. f[x]) : x \in S}

\* The number of cells is finite, and each element contributes its own.
LEMMA CellsAdd ==
    ASSUME NEW f, NEW T, NEW x, x \notin T, f[x] \in Nat, IsFiniteSet(Cells(f, T))
    PROVE  /\ IsFiniteSet(Cells(f, T \cup {x}))
           /\ Cardinality(Cells(f, T \cup {x})) = Cardinality(Cells(f, T)) + f[x]
<1> DEFINE C == {x} \X (1 .. f[x])
<1>1. Cells(f, T \cup {x}) = Cells(f, T) \cup C
  BY DEF Cells
<1>2. Cells(f, T) \cap C = {}
  BY DEF Cells
<1>3. IsFiniteSet({x}) /\ Cardinality({x}) = 1
  BY FS_Singleton
<1>4. IsFiniteSet(1 .. f[x]) /\ Cardinality(1 .. f[x]) = f[x]
  <2>1. ASSUME NEW n \in Nat PROVE IsFiniteSet(1 .. n) /\ Cardinality(1 .. n) = n
    BY FS_Interval
  <2> QED BY <2>1
<1>5. IsFiniteSet(C) /\ Cardinality(C) = 1 * f[x]
  <2>1. ASSUME NEW S, NEW T2, IsFiniteSet(S), IsFiniteSet(T2)
        PROVE  IsFiniteSet(S \X T2) /\ Cardinality(S \X T2) = Cardinality(S) * Cardinality(T2)
    BY <2>1, FS_Product, Zenon
  <2>2. IsFiniteSet(C) /\ Cardinality(C) = Cardinality({x}) * Cardinality(1 .. f[x])
    BY <1>3, <1>4, <2>1, Zenon
  <2> QED BY <1>3, <1>4, <2>2
<1>6. Cardinality(Cells(f, T)) \in Nat
  BY FS_CardinalityType
<1> HIDE DEF C
<1>7. /\ IsFiniteSet(Cells(f, T) \cup C)
      /\ Cardinality(Cells(f, T) \cup C) =
            Cardinality(Cells(f, T)) + Cardinality(C) - Cardinality(Cells(f, T) \cap C)
  BY <1>5, FS_Union
<1>8. Cardinality(Cells(f, T) \cap C) = 0
  BY <1>2, FS_EmptySet
<1>9. Cardinality(Cells(f, T) \cup C) = Cardinality(Cells(f, T)) + f[x]
  BY <1>5, <1>6, <1>7, <1>8
<1>10. QED
  BY <1>1, <1>7, <1>9

\* A finite set has finitely many cells.
LEMMA CellsFinite ==
    ASSUME NEW f, NEW S, IsFiniteSet(S), \A x \in S : f[x] \in Nat
    PROVE  IsFiniteSet(Cells(f, S)) /\ Cardinality(Cells(f, S)) \in Nat
<1> DEFINE F == {T \in SUBSET S : IsFiniteSet(Cells(f, T))}
<1>1. {} \in F
  <2>1. Cells(f, {}) = {}
    BY DEF Cells
  <2> QED BY <2>1, FS_EmptySet
<1>2. ASSUME NEW T \in SUBSET S, NEW x \in S, T \in F, x \notin T
      PROVE  T \cup {x} \in F
  BY <1>2, CellsAdd
<1>3. InductiveFamily(S, F)
  BY <1>1, <1>2 DEF InductiveFamily
<1>4. S \in F
  <2> HIDE DEF F
  <2> QED BY <1>3, FiniteSetInduction
<1>5. QED
  BY <1>4, FS_CardinalityType
-----------------------------------------------------------------------------
\* The positive and the negative part of an integer function.
Positive(f, S) == [x \in S |-> IF f[x] >= 0 THEN f[x] ELSE 0]
Negative(f, S) == [x \in S |-> IF f[x] >= 0 THEN 0 ELSE 0 - f[x]]
CellSum(f, S, T) == Cardinality(Cells(Positive(f, S), T)) - Cardinality(Cells(Negative(f, S), T))

\* Counting cells adds up the values of an integer function.
LEMMA CellSumFacts ==
    ASSUME NEW f, NEW S, IsFiniteSet(S), \A x \in S : f[x] \in Int, NEW T \in SUBSET S
    PROVE  /\ CellSum(f, S, T) \in Int
           /\ T = {} => CellSum(f, S, T) = 0
           /\ \A x \in T : CellSum(f, S, T) = f[x] + CellSum(f, S, T \ {x})
<1> DEFINE p == Positive(f, S)
           n == Negative(f, S)
<1>1. \A x \in S : p[x] \in Nat /\ n[x] \in Nat /\ f[x] = p[x] - n[x]
  BY DEF Positive, Negative
<1> HIDE DEF p, n
<1>2. ASSUME NEW U \in SUBSET S
      PROVE  /\ IsFiniteSet(Cells(p, U)) /\ Cardinality(Cells(p, U)) \in Nat
             /\ IsFiniteSet(Cells(n, U)) /\ Cardinality(Cells(n, U)) \in Nat
  <2>1. IsFiniteSet(U)
    BY FS_Subset
  <2> QED BY <1>1, <2>1, CellsFinite
<1>3. CellSum(f, S, T) \in Int
  BY <1>2 DEF CellSum, p, n
<1>4. T = {} => CellSum(f, S, T) = 0
  <2>1. Cells(p, {}) = {} /\ Cells(n, {}) = {}
    BY DEF Cells
  <2>2. Cardinality(Cells(p, {})) = 0 /\ Cardinality(Cells(n, {})) = 0
    BY <2>1, FS_EmptySet
  <2> QED BY <2>2 DEF CellSum, p, n
<1>5. ASSUME NEW x \in T
      PROVE  CellSum(f, S, T) = f[x] + CellSum(f, S, T \ {x})
  <2> DEFINE U == T \ {x}
  <2>1. U \in SUBSET S /\ x \notin U /\ T = U \cup {x} /\ x \in S
    OBVIOUS
  <2> HIDE DEF U
  <2>2. Cardinality(Cells(p, T)) = Cardinality(Cells(p, U)) + p[x]
    BY <1>1, <1>2, <2>1, CellsAdd
  <2>3. Cardinality(Cells(n, T)) = Cardinality(Cells(n, U)) + n[x]
    BY <1>1, <1>2, <2>1, CellsAdd
  <2>4. CellSum(f, S, T) = f[x] + CellSum(f, S, U)
    BY <1>1, <1>2, <2>1, <2>2, <2>3 DEF CellSum, p, n
  <2> QED BY <2>4 DEF U
<1>6. QED
  BY <1>3, <1>4, <1>5

\* The recursion of SumFunctionOnSet, and the sets it goes through.
SumStep(f, S, g) ==
    [s \in SUBSET S |->
        IF s = {} THEN 0
        ELSE f[CHOOSE x \in s : TRUE] + g[s \ {CHOOSE x \in s : TRUE}]]

\* SumFunctionOnSet is the chosen solution of that recursion.
LEMMA SumUnfold ==
    ASSUME NEW f, NEW S
    PROVE  SumFunctionOnSet(f, S) = (CHOOSE g : g = SumStep(f, S, g))[S]
BY DEF SumFunctionOnSet, FoldFunctionOnSet, MapThenFoldSet, SumStep

\* Every solution of the recursion counts cells.
LEMMA SumStepUnique ==
    ASSUME NEW f, NEW S, IsFiniteSet(S), \A x \in S : f[x] \in Int,
           NEW g, g = SumStep(f, S, g)
    PROVE  g[S] = CellSum(f, S, S)
<1> DEFINE E == {U \in SUBSET S : g[U] # CellSum(f, S, U)}
<1>1. SUFFICES ASSUME E # {} PROVE FALSE
  OBVIOUS
<1>2. E \in SUBSET FiniteSubsetsOf(S)
  BY FS_Subset DEF FiniteSubsetsOf
<1>3. PICK U \in E : \A r \in E : r \subseteq U => r = U
  <2> HIDE DEF E
  <2> QED BY <1>1, <1>2, FiniteMinimal
<1>4. U # {}
  <2>1. g[{}] = 0
    BY DEF SumStep
  <2> QED BY <2>1, CellSumFacts
<1> DEFINE c == CHOOSE y \in U : TRUE
<1>5. c \in U
  BY <1>4
<1>6. g[U] = f[c] + g[U \ {c}]
  BY <1>4 DEF SumStep
<1>7. g[U \ {c}] = CellSum(f, S, U \ {c})
  BY <1>3, <1>5
<1>8. g[U] = CellSum(f, S, U)
  <2> HIDE DEF c
  <2>1. U \in SUBSET S
    OBVIOUS
  <2>2. CellSum(f, S, U) = f[c] + CellSum(f, S, U \ {c})
    BY <1>5, <2>1, CellSumFacts
  <2> QED BY <1>6, <1>7, <2>2
<1>9. QED
  BY <1>8

\* So SumFunctionOnSet counts cells.
LEMMA SumIsCellSum ==
    ASSUME NEW f, NEW S, IsFiniteSet(S), \A x \in S : f[x] \in Int
    PROVE  SumFunctionOnSet(f, S) = CellSum(f, S, S)
<1> DEFINE w == [s \in SUBSET S |-> CellSum(f, S, s)]
<1>1. w = SumStep(f, S, w)
  <2>1. ASSUME NEW s \in SUBSET S
        PROVE  w[s] = SumStep(f, S, w)[s]
    <3>1. CASE s = {}
      BY <3>1, CellSumFacts DEF SumStep
    <3>2. CASE s # {}
      <4> DEFINE c == CHOOSE y \in s : TRUE
      <4>1. c \in s
        BY <3>2
      <4>2. CellSum(f, S, s) = f[c] + CellSum(f, S, s \ {c})
        <5> HIDE DEF c
        <5> QED BY <4>1, CellSumFacts
      <4>3. SumStep(f, S, w)[s] = f[c] + w[s \ {c}]
        BY <3>2 DEF SumStep
      <4> QED BY <4>2, <4>3
    <3> QED BY <3>1, <3>2
  <2> QED BY <2>1 DEF SumStep
<1> DEFINE h == CHOOSE g : g = SumStep(f, S, g)
<1>2. h = SumStep(f, S, h)
  <2> HIDE DEF w
  <2> QED BY <1>1
<1>3. h[S] = CellSum(f, S, S)
  <2> HIDE DEF h
  <2> QED BY <1>2, SumStepUnique
<1>4. QED
  BY <1>3, SumUnfold

\* Equal functions have equal sums; the sum does not look outside the set.
LEMMA CellSumSame ==
    ASSUME NEW f, NEW g, NEW S, NEW R, NEW T, T \in SUBSET S, T \in SUBSET R,
           \A x \in T : f[x] = g[x]
    PROVE  CellSum(f, S, T) = CellSum(g, R, T)
<1>1. /\ Cells(Positive(f, S), T) = Cells(Positive(g, R), T)
      /\ Cells(Negative(f, S), T) = Cells(Negative(g, R), T)
  BY DEF Cells, Positive, Negative
<1> QED BY <1>1 DEF CellSum
-----------------------------------------------------------------------------
\* The sum of integers is an integer ...
THEOREM SumType ==
    ASSUME NEW f, NEW S, IsFiniteSet(S), \A x \in S : f[x] \in Int
    PROVE  SumFunctionOnSet(f, S) \in Int
BY SumIsCellSum, CellSumFacts

\* ... and the sum of none is 0.
THEOREM SumEmpty ==
    ASSUME NEW f
    PROVE  SumFunctionOnSet(f, {}) = 0
<1>1. IsFiniteSet({}) /\ \A x \in {} : f[x] \in Int
  BY FS_EmptySet
<1>2. SumFunctionOnSet(f, {}) = CellSum(f, {}, {})
  BY <1>1, SumIsCellSum
<1>3. CellSum(f, {}, {}) = 0
  BY <1>1, CellSumFacts
<1>4. QED
  BY <1>2, <1>3

\* An element contributes its value.
THEOREM SumRemove ==
    ASSUME NEW f, NEW S, IsFiniteSet(S), \A x \in S : f[x] \in Int, NEW x \in S
    PROVE  SumFunctionOnSet(f, S) = f[x] + SumFunctionOnSet(f, S \ {x})
<1> DEFINE T == S \ {x}
<1>1. IsFiniteSet(T) /\ T \in SUBSET S
  BY FS_RemoveElement
<1>2. SumFunctionOnSet(f, T) = CellSum(f, T, T)
  BY <1>1, SumIsCellSum
<1>3. CellSum(f, T, T) = CellSum(f, S, T)
  <2> HIDE DEF T
  <2> QED BY <1>1, CellSumSame
<1>4. CellSum(f, S, S) = f[x] + CellSum(f, S, T)
  BY CellSumFacts
<1>5. QED
  BY <1>2, <1>3, <1>4, SumIsCellSum

\* Only the values on the set count.
THEOREM SumSame ==
    ASSUME NEW f, NEW g, NEW S, IsFiniteSet(S), \A x \in S : f[x] \in Int,
           \A x \in S : f[x] = g[x]
    PROVE  SumFunctionOnSet(f, S) = SumFunctionOnSet(g, S)
<1>1. \A x \in S : g[x] \in Int
  OBVIOUS
<1>2. CellSum(f, S, S) = CellSum(g, S, S)
  BY CellSumSame
<1>3. QED
  BY <1>1, <1>2, SumIsCellSum

\* A sum after one value has changed.
THEOREM SumUpdate ==
    ASSUME NEW f, NEW g, NEW S, IsFiniteSet(S), NEW x \in S,
           \A y \in S : f[y] \in Int, g[x] \in Int,
           \A y \in S \ {x} : g[y] = f[y]
    PROVE  SumFunctionOnSet(g, S) = SumFunctionOnSet(f, S) - f[x] + g[x]
<1> DEFINE T == S \ {x}
<1>1. IsFiniteSet(T) /\ \A y \in T : f[y] \in Int
  BY FS_RemoveElement
<1>2. \A y \in S : g[y] \in Int
  OBVIOUS
<1>3. SumFunctionOnSet(f, T) = SumFunctionOnSet(g, T)
  <2>1. \A y \in T : f[y] = g[y]
    OBVIOUS
  <2> HIDE DEF T
  <2> QED BY <1>1, <2>1, SumSame
<1>4. SumFunctionOnSet(f, T) \in Int
  <2> HIDE DEF T
  <2> QED BY <1>1, SumType
<1>5. SumFunctionOnSet(f, S) = f[x] + SumFunctionOnSet(f, T)
  BY SumRemove
<1>6. SumFunctionOnSet(g, S) = g[x] + SumFunctionOnSet(g, T)
  BY <1>2, SumRemove
<1> HIDE DEF T
<1>7. QED
  BY <1>3, <1>4, <1>5, <1>6

\* A sum of natural numbers is a natural number.
THEOREM SumNat ==
    ASSUME NEW f, NEW S, IsFiniteSet(S), \A x \in S : f[x] \in Nat
    PROVE  SumFunctionOnSet(f, S) \in Nat
<1>1. \A x \in S : f[x] \in Int
  OBVIOUS
<1>2. Cells(Negative(f, S), S) = {}
  BY DEF Cells, Negative
<1>3. Cardinality(Cells(Negative(f, S), S)) = 0
  BY <1>2, FS_EmptySet
<1>4. \A x \in S : Positive(f, S)[x] \in Nat
  BY DEF Positive
<1>5. Cardinality(Cells(Positive(f, S), S)) \in Nat
  BY <1>4, CellsFinite
<1>6. QED
  BY <1>1, <1>3, <1>5, SumIsCellSum DEF CellSum

\* If it is 0, so is each of the numbers.
THEOREM SumZero ==
    ASSUME NEW f, NEW S, IsFiniteSet(S), \A x \in S : f[x] \in Nat,
           SumFunctionOnSet(f, S) = 0, NEW x \in S
    PROVE  f[x] = 0
<1>1. \A y \in S : f[y] \in Int
  OBVIOUS
<1>2. SumFunctionOnSet(f, S) = f[x] + SumFunctionOnSet(f, S \ {x})
  BY <1>1, SumRemove
<1>3. IsFiniteSet(S \ {x}) /\ \A y \in S \ {x} : f[y] \in Nat
  BY FS_RemoveElement
<1>4. SumFunctionOnSet(f, S \ {x}) \in Nat
  BY <1>3, SumNat
<1>5. QED
  BY <1>2, <1>4

\* The sum of zeros is 0.
THEOREM SumZeros ==
    ASSUME NEW f, NEW S, IsFiniteSet(S), \A x \in S : f[x] = 0
    PROVE  SumFunctionOnSet(f, S) = 0
<1>1. \A x \in S : f[x] \in Int
  OBVIOUS
<1>2. Cells(Positive(f, S), S) = {} /\ Cells(Negative(f, S), S) = {}
  BY DEF Cells, Positive, Negative
<1>3. /\ Cardinality(Cells(Positive(f, S), S)) = 0
      /\ Cardinality(Cells(Negative(f, S), S)) = 0
  BY <1>2, FS_EmptySet
<1>4. QED
  BY <1>1, <1>3, SumIsCellSum DEF CellSum

\* The sum of a pointwise sum.
THEOREM SumPlus ==
    ASSUME NEW f, NEW g, NEW h, NEW S, IsFiniteSet(S),
           \A x \in S : f[x] \in Int, \A x \in S : g[x] \in Int,
           \A x \in S : h[x] = f[x] + g[x]
    PROVE  SumFunctionOnSet(h, S) = SumFunctionOnSet(f, S) + SumFunctionOnSet(g, S)
<1> DEFINE F == {T \in SUBSET S :
                   SumFunctionOnSet(h, T) = SumFunctionOnSet(f, T) + SumFunctionOnSet(g, T)}
<1>0. \A x \in S : h[x] \in Int
  OBVIOUS
<1>1. {} \in F
  BY SumEmpty
<1>2. ASSUME NEW T \in SUBSET S, NEW x \in S, T \in F, x \notin T
      PROVE  T \cup {x} \in F
  <2> DEFINE U == T \cup {x}
  <2>1. U \in SUBSET S /\ x \in U /\ U \ {x} = T /\ IsFiniteSet(U) /\ IsFiniteSet(T)
    BY <1>2, FS_Subset
  <2> HIDE DEF U
  <2>2. /\ SumFunctionOnSet(f, U) = f[x] + SumFunctionOnSet(f, T)
        /\ SumFunctionOnSet(g, U) = g[x] + SumFunctionOnSet(g, T)
        /\ SumFunctionOnSet(h, U) = h[x] + SumFunctionOnSet(h, T)
    <3>1. \A y \in U : f[y] \in Int /\ g[y] \in Int /\ h[y] \in Int
      BY <1>0, <2>1
    <3> QED BY <2>1, <3>1, SumRemove
  <2>3. SumFunctionOnSet(f, T) \in Int /\ SumFunctionOnSet(g, T) \in Int
    BY <2>1, SumType
  <2>4. SumFunctionOnSet(h, T) = SumFunctionOnSet(f, T) + SumFunctionOnSet(g, T)
    BY <1>2
  <2>5. SumFunctionOnSet(h, U) = SumFunctionOnSet(f, U) + SumFunctionOnSet(g, U)
    BY <2>2, <2>3, <2>4
  <2> QED BY <2>1, <2>5 DEF U
<1>3. InductiveFamily(S, F)
  BY <1>1, <1>2 DEF InductiveFamily
<1>4. S \in F
  <2> HIDE DEF F
  <2> QED BY <1>3, FiniteSetInduction
<1>5. QED
  BY <1>4
=============================================================================
