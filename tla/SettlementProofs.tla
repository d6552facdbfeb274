-------------------------- MODULE SettlementProofs --------------------------
(***************************************************************************)
(* The allocation loop ends within its count, its shares respect cap and   *)
(* minimum, what is paid and refunded is the bounty, and better evidence   *)
(* is never paid less: for any number of suppliers, any submissions and    *)
(* any policy.                                                             *)
(***************************************************************************)
EXTENDS Settlement, FiniteSetTheorems, TLAPS

(* Sums.  The theorems on induction in the library have a predicate as a    *)
(* parameter; SmallestSubset is the same for sets of sets, which need none. *)
(* A sum of natural numbers is the number of units there are, as many of    *)
(* each element as its term says, and inherits from cardinalities what      *)
(* follows.                                                                 *)

\* Among subsets of a finite set there is one with no smaller one: the
\* induction on finite sets, without an operator as a parameter.
LEMMA SmallestSubset ==
  ASSUME NEW S, IsFiniteSet(S), NEW F \in SUBSET SUBSET S, F # {}
  PROVE  \E T \in F : \A U \in F : ~(U \subseteq T /\ U # T)
<1> DEFINE R == StrictSubsetOrdering(S)
<1>1. IsWellFoundedOn(R, SUBSET S)
  BY FS_StrictSubsetOrderingWellFounded, FS_FiniteSubsetsOfFinite
<1>2. \E T \in F : \A U \in F : <<U, T>> \notin R
  <2> HIDE DEF R
  <2> QED BY <1>1, WFMin
<1>3. PICK T \in F : \A U \in F : <<U, T>> \notin R
  BY <1>2
<1>4. \A U \in F : ~(U \subseteq T /\ U # T)
  BY <1>3 DEF StrictSubsetOrdering
<1>5. QED
  BY <1>4

\* Induction over a finite set: a family of its subsets that has the empty one and
\* grows by any element has the whole set.
LEMMA GrowingSubsets ==
  ASSUME NEW S, IsFiniteSet(S), NEW F \in SUBSET SUBSET S, {} \in F,
         \A T \in F, x \in S : x \notin T => T \cup {x} \in F
  PROVE  S \in F
<1> SUFFICES ASSUME S \notin F PROVE FALSE
  OBVIOUS
<1> DEFINE G == (SUBSET S) \ F
<1>1. PICK T \in G : \A U \in G : ~(U \subseteq T /\ U # T)
  <2>1. S \in G /\ G \in SUBSET SUBSET S
    OBVIOUS
  <2>2. G # {}
    BY <2>1
  <2> HIDE DEF G
  <2>3. QED
    BY <2>1, <2>2, SmallestSubset
<1>2. PICK x \in T : TRUE
  BY <1>1
<1>3. T \ {x} \in F
  BY <1>1, <1>2
<1>4. (T \ {x}) \cup {x} \in F
  BY <1>1, <1>2, <1>3
<1>5. (T \ {x}) \cup {x} = T
  BY <1>2
<1>6. QED
  BY <1>1, <1>4, <1>5

-----------------------------------------------------------------------------
\* As many units per element as f says.
UnitsOf(f, T) == UNION {{x} \X (1..f[x]) : x \in T}

\* An element adds as many units as its value.
LEMMA UnitsAdd ==
  ASSUME NEW T, IsFiniteSet(T), NEW x, x \notin T,
         NEW f, \A y \in T \cup {x} : f[y] \in Nat,
         IsFiniteSet(UnitsOf(f, T))
  PROVE  /\ IsFiniteSet(UnitsOf(f, T \cup {x}))
         /\ Cardinality(UnitsOf(f, T \cup {x})) = f[x] + Cardinality(UnitsOf(f, T))
<1> DEFINE B == {x} \X (1..f[x])
           U == UnitsOf(f, T)
<1>1. f[x] \in Nat
  OBVIOUS
<1>2. IsFiniteSet({x}) /\ Cardinality({x}) = 1
  BY FS_Singleton
<1>3. IsFiniteSet(1..f[x]) /\ Cardinality(1..f[x]) = f[x]
  BY <1>1, FS_Interval
<1>4. IsFiniteSet(B) /\ Cardinality(B) = 1 * f[x]
  <2> DEFINE I == 1..f[x]
  <2>1. IsFiniteSet({x} \X I) /\ Cardinality({x} \X I) = Cardinality({x}) * Cardinality(I)
    <3> HIDE DEF I
    <3> QED BY <1>2, <1>3, FS_Product DEF I
  <2>2. QED
    BY <2>1, <1>2, <1>3
<1>5. UnitsOf(f, T \cup {x}) = B \cup U
  BY DEF UnitsOf
<1>6. B \cap U = {}
  BY DEF UnitsOf
<1> HIDE DEF B, U
<1>7. Cardinality(B \cup U) = Cardinality(B) + Cardinality(U) - Cardinality({}) /\ IsFiniteSet(B \cup U)
  BY <1>4, <1>6, FS_Union DEF U
<1>8. Cardinality(U) \in Nat /\ Cardinality({}) = 0
  BY FS_CardinalityType, FS_EmptySet DEF U
<1>9. QED
  <2>1. Cardinality(B \cup U) = f[x] + Cardinality(U)
    BY <1>1, <1>4, <1>7, <1>8
  <2>2. QED
    BY <1>5, <1>7, <2>1 DEF U

\* The units of a finite set are finitely many.
LEMMA UnitsFinite ==
  ASSUME NEW T, IsFiniteSet(T), NEW f, \A y \in T : f[y] \in Nat
  PROVE  IsFiniteSet(UnitsOf(f, T))
<1> DEFINE F == {U \in SUBSET T : IsFiniteSet(UnitsOf(f, U))}
<1>1. {} \in F
  <2>1. UnitsOf(f, {}) = {}
    BY DEF UnitsOf
  <2>2. QED
    BY <2>1, FS_EmptySet
<1>2. ASSUME NEW U \in F, NEW x \in T, x \notin U PROVE U \cup {x} \in F
  <2>1. IsFiniteSet(U)
    BY FS_Subset
  <2>2. QED
    BY <1>2, <2>1, UnitsAdd
<1>3. F \in SUBSET SUBSET T
  OBVIOUS
<1> HIDE DEF F
<1>4. T \in F
  BY <1>1, <1>2, <1>3, GrowingSubsets
<1>5. QED
  BY <1>4 DEF F

\* A sum counts units.
LEMMA SumIsUnits ==
  ASSUME NEW S, IsFiniteSet(S), NEW f, \A y \in S : f[y] \in Nat
  PROVE  SumFunctionOnSet(f, S) = Cardinality(UnitsOf(f, S))
<1> DEFINE Pick(s) == CHOOSE x \in s : TRUE
           Defines(h) == h = [s \in SUBSET S |->
                          IF s = {} THEN 0 ELSE f[Pick(s)] + h[s \ {Pick(s)}]]
           C == [s \in SUBSET S |-> Cardinality(UnitsOf(f, s))]
           h == CHOOSE h : Defines(h)
<1>1. SumFunctionOnSet(f, S) = h[S]
  BY DEF SumFunctionOnSet, FoldFunctionOnSet, MapThenFoldSet
<1>2. ASSUME NEW s \in SUBSET S, s # {}
      PROVE  C[s] = f[Pick(s)] + C[s \ {Pick(s)}]
  <2>1. Pick(s) \in s
    BY <1>2
  <2> HIDE DEF Pick
  <2>2. s = (s \ {Pick(s)}) \cup {Pick(s)}
    BY <2>1
  <2>3. IsFiniteSet(s \ {Pick(s)})
    BY FS_Subset
  <2>4. IsFiniteSet(UnitsOf(f, s \ {Pick(s)}))
    BY <2>3, UnitsFinite
  <2>5. Cardinality(UnitsOf(f, (s \ {Pick(s)}) \cup {Pick(s)}))
          = f[Pick(s)] + Cardinality(UnitsOf(f, s \ {Pick(s)}))
    BY <2>1, <2>3, <2>4, UnitsAdd
  <2>6. QED
    BY <2>2, <2>5
<1>3. C[{}] = 0
  <2>1. UnitsOf(f, {}) = {}
    BY DEF UnitsOf
  <2>2. QED
    BY <2>1, FS_EmptySet
<1>4. Defines(C)
  <2> DEFINE D == [s \in SUBSET S |-> IF s = {} THEN 0 ELSE f[Pick(s)] + C[s \ {Pick(s)}]]
  <2>1. \A s \in SUBSET S : C[s] = D[s]
    BY <1>2, <1>3
  <2>2. C = D
    <3> HIDE DEF Pick
    <3>1. C = [s \in SUBSET S |-> C[s]] /\ D = [s \in SUBSET S |-> D[s]]
      OBVIOUS
    <3>2. QED
      BY <3>1, <2>1
  <2>3. QED
    BY <2>2
<1>5. Defines(h)
  <2> HIDE DEF Defines, C
  <2>1. \E g : Defines(g)
    BY <1>4
  <2>2. QED
    BY <2>1
<1>6. h[S] = C[S]
  <2> SUFFICES ASSUME h[S] # C[S] PROVE FALSE
    OBVIOUS
  <2> DEFINE F == {s \in SUBSET S : h[s] # C[s]}
  <2>1. S \in F /\ F \in SUBSET SUBSET S
    OBVIOUS
  <2>2. PICK T \in F : \A U \in F : ~(U \subseteq T /\ U # T)
    <3> HIDE DEF F
    <3>1. F # {}
      BY <2>1
    <3>2. QED
      BY <2>1, <3>1, SmallestSubset
  <2>3. h[T] = IF T = {} THEN 0 ELSE f[Pick(T)] + h[T \ {Pick(T)}]
    <3>1. T \in SUBSET S
      OBVIOUS
    <3> HIDE DEF h, C, Pick
    <3>2. QED
      BY <1>5, <3>1
  <2>4. T # {}
    BY <1>3, <2>3
  <2>5. Pick(T) \in T
    BY <2>4
  <2>6. T \ {Pick(T)} \in SUBSET S /\ T \ {Pick(T)} # T
    <3> HIDE DEF Pick
    <3> QED BY <2>5
  <2>7. h[T \ {Pick(T)}] = C[T \ {Pick(T)}]
    <3> HIDE DEF h, C, Pick
    <3> QED BY <2>2, <2>6
  <2>8. h[T] = C[T]
    <3> HIDE DEF h, C, Pick
    <3> QED BY <1>2, <2>3, <2>4, <2>7
  <2>9. QED
    BY <2>8
<1>7. QED
  BY <1>1, <1>6

-----------------------------------------------------------------------------
\* A sum of numbers is one.
LEMMA SumNat ==
  ASSUME NEW S, IsFiniteSet(S), NEW f, \A y \in S : f[y] \in Nat
  PROVE  SumFunctionOnSet(f, S) \in Nat
<1>1. IsFiniteSet(UnitsOf(f, S))
  BY UnitsFinite
<1>2. QED
  BY <1>1, SumIsUnits, FS_CardinalityType

\* Nothing adds up to 0.
LEMMA SumEmpty == \A f : SumFunctionOnSet(f, {}) = 0
<1> TAKE f
<1>1. IsFiniteSet({}) /\ \A y \in {} : f[y] \in Nat
  BY FS_EmptySet
<1>2. UnitsOf(f, {}) = {}
  BY DEF UnitsOf
<1>3. QED
  BY <1>1, <1>2, SumIsUnits, FS_EmptySet

\* A new element adds its value to the sum.
LEMMA SumAdd ==
  ASSUME NEW T, IsFiniteSet(T), NEW x, x \notin T,
         NEW f, \A y \in T \cup {x} : f[y] \in Nat
  PROVE  SumFunctionOnSet(f, T \cup {x}) = f[x] + SumFunctionOnSet(f, T)
<1>1. IsFiniteSet(UnitsOf(f, T)) /\ IsFiniteSet(T \cup {x})
  BY UnitsFinite, FS_AddElement
<1>2. Cardinality(UnitsOf(f, T \cup {x})) = f[x] + Cardinality(UnitsOf(f, T))
  BY <1>1, UnitsAdd
<1>3. SumFunctionOnSet(f, T) = Cardinality(UnitsOf(f, T))
  BY SumIsUnits
<1>4. SumFunctionOnSet(f, T \cup {x}) = Cardinality(UnitsOf(f, T \cup {x}))
  BY <1>1, SumIsUnits
<1>5. QED
  BY <1>2, <1>3, <1>4

\* Two sums that grow alike are equal
LEMMA SumSame ==
  ASSUME NEW S, IsFiniteSet(S), NEW f, NEW g,
         \A y \in S : f[y] \in Nat /\ g[y] = f[y]
  PROVE  SumFunctionOnSet(f, S) = SumFunctionOnSet(g, S)
<1>1. UnitsOf(f, S) = UnitsOf(g, S)
  BY DEF UnitsOf
<1>2. QED
  BY <1>1, SumIsUnits

\* A part and the rest add up to the whole.
LEMMA SumSplit ==
  ASSUME NEW S, IsFiniteSet(S), NEW A \in SUBSET S,
         NEW f, \A y \in S : f[y] \in Nat
  PROVE  SumFunctionOnSet(f, S) = SumFunctionOnSet(f, A) + SumFunctionOnSet(f, S \ A)
<1> DEFINE U == UnitsOf(f, A)
           V == UnitsOf(f, S \ A)
<1>1. IsFiniteSet(A) /\ IsFiniteSet(S \ A)
  BY FS_Subset
<1>2. /\ IsFiniteSet(U) /\ Cardinality(U) = SumFunctionOnSet(f, A)
      /\ IsFiniteSet(V) /\ Cardinality(V) = SumFunctionOnSet(f, S \ A)
      /\ Cardinality(UnitsOf(f, S)) = SumFunctionOnSet(f, S)
  BY <1>1, UnitsFinite, SumIsUnits
<1>3. UnitsOf(f, S) = U \cup V
  BY DEF UnitsOf
<1>4. U \cap V = {}
  BY DEF UnitsOf
<1> HIDE DEF U, V
<1>5. Cardinality(U \cup V) = Cardinality(U) + Cardinality(V) - Cardinality({})
  BY <1>2, <1>4, FS_Union
<1>6. Cardinality(U) \in Nat /\ Cardinality(V) \in Nat /\ Cardinality({}) = 0
  BY <1>2, FS_CardinalityType, FS_EmptySet
<1>7. QED
  BY <1>2, <1>3, <1>5, <1>6

\* Two sums over the same set are added term by term.
LEMMA SumPlus ==
  ASSUME NEW S, IsFiniteSet(S), NEW f, NEW g, NEW h,
         \A y \in S : f[y] \in Nat /\ g[y] \in Nat /\ h[y] = f[y] + g[y]
  PROVE  SumFunctionOnSet(h, S) = SumFunctionOnSet(f, S) + SumFunctionOnSet(g, S)
<1> DEFINE Sum(k, T) == SumFunctionOnSet(k, T)
           F == {T \in SUBSET S : Sum(h, T) = Sum(f, T) + Sum(g, T)}
<1>1. {} \in F
  BY SumEmpty
<1>2. ASSUME NEW T \in F, NEW x \in S, x \notin T PROVE T \cup {x} \in F
  <2>1. IsFiniteSet(T)
    BY FS_Subset
  <2>2. \A y \in T \cup {x} : f[y] \in Nat /\ g[y] \in Nat /\ h[y] \in Nat
    OBVIOUS
  <2>3. Sum(f, T) \in Nat /\ Sum(g, T) \in Nat
    BY <2>1, <2>2, SumNat
  <2>4. /\ Sum(f, T \cup {x}) = f[x] + Sum(f, T)
        /\ Sum(g, T \cup {x}) = g[x] + Sum(g, T)
        /\ Sum(h, T \cup {x}) = h[x] + Sum(h, T)
    BY <1>2, <2>1, <2>2, SumAdd
  <2>5. Sum(h, T) = Sum(f, T) + Sum(g, T)
    OBVIOUS
  <2> HIDE DEF Sum
  <2>6. Sum(h, T \cup {x}) = Sum(f, T \cup {x}) + Sum(g, T \cup {x})
    BY <2>2, <2>3, <2>4, <2>5
  <2>7. QED
    BY <2>6
<1>3. F \in SUBSET SUBSET S
  OBVIOUS
<1> HIDE DEF F
<1>4. S \in F
  BY <1>1, <1>2, <1>3, GrowingSubsets
<1>5. QED
  BY <1>4 DEF F

\* A factor of every term is one of the sum.
LEMMA SumScale ==
  ASSUME NEW S, IsFiniteSet(S), NEW c \in Nat, NEW f, NEW g,
         \A y \in S : f[y] \in Nat /\ g[y] = c * f[y]
  PROVE  SumFunctionOnSet(g, S) = c * SumFunctionOnSet(f, S)
<1> DEFINE Sum(k, T) == SumFunctionOnSet(k, T)
           F == {T \in SUBSET S : Sum(g, T) = c * Sum(f, T)}
<1>1. {} \in F
  BY SumEmpty
<1>2. ASSUME NEW T \in F, NEW x \in S, x \notin T PROVE T \cup {x} \in F
  <2>1. IsFiniteSet(T)
    BY FS_Subset
  <2>2. \A y \in T \cup {x} : f[y] \in Nat /\ g[y] = c * f[y] /\ g[y] \in Nat
    OBVIOUS
  <2>3. Sum(f, T) \in Nat
    BY <2>1, <2>2, SumNat
  <2>4. /\ Sum(f, T \cup {x}) = f[x] + Sum(f, T)
        /\ Sum(g, T \cup {x}) = g[x] + Sum(g, T)
    BY <1>2, <2>1, <2>2, SumAdd
  <2>5. Sum(g, T) = c * Sum(f, T)
    OBVIOUS
  <2> HIDE DEF Sum
  <2>6. Sum(g, T \cup {x}) = c * Sum(f, T \cup {x})
    BY <2>2, <2>3, <2>4, <2>5
  <2>7. QED
    BY <2>6
<1>3. F \in SUBSET SUBSET S
  OBVIOUS
<1> HIDE DEF F
<1>4. S \in F
  BY <1>1, <1>2, <1>3, GrowingSubsets
<1>5. QED
  BY <1>4 DEF F

\* A sum of terms of at most (at least) c.
LEMMA SumBounds ==
  ASSUME NEW S, IsFiniteSet(S), NEW c \in Nat, NEW f, \A y \in S : f[y] \in Nat
  PROVE  /\ (\A y \in S : f[y] <= c) => SumFunctionOnSet(f, S) <= c * Cardinality(S)
         /\ (\A y \in S : f[y] >= c) => SumFunctionOnSet(f, S) >= c * Cardinality(S)
<1> DEFINE Sum(T) == SumFunctionOnSet(f, T)
           F == {T \in SUBSET S :
                   /\ (\A y \in S : f[y] <= c) => Sum(T) <= c * Cardinality(T)
                   /\ (\A y \in S : f[y] >= c) => Sum(T) >= c * Cardinality(T)}
<1>1. {} \in F
  BY SumEmpty, FS_EmptySet
<1>2. ASSUME NEW T \in F, NEW x \in S, x \notin T PROVE T \cup {x} \in F
  <2>1. IsFiniteSet(T)
    BY FS_Subset
  <2>2. \A y \in T \cup {x} : f[y] \in Nat
    OBVIOUS
  <2>3. Sum(T) \in Nat /\ Cardinality(T) \in Nat
    BY <2>1, <2>2, SumNat, FS_CardinalityType
  <2>4. Sum(T \cup {x}) = f[x] + Sum(T) /\ Cardinality(T \cup {x}) = Cardinality(T) + 1
    BY <1>2, <2>1, <2>2, SumAdd, FS_AddElement
  <2>5. c * (Cardinality(T) + 1) = c * Cardinality(T) + c /\ c * Cardinality(T) \in Nat
    BY <2>3
  <2>6. /\ (\A y \in S : f[y] <= c) => Sum(T) <= c * Cardinality(T)
        /\ (\A y \in S : f[y] >= c) => Sum(T) >= c * Cardinality(T)
    OBVIOUS
  <2> HIDE DEF Sum
  <2>7. /\ (\A y \in S : f[y] <= c) => Sum(T \cup {x}) <= c * Cardinality(T \cup {x})
        /\ (\A y \in S : f[y] >= c) => Sum(T \cup {x}) >= c * Cardinality(T \cup {x})
    BY <2>2, <2>3, <2>4, <2>5, <2>6
  <2>8. QED
    BY <2>7
<1>3. F \in SUBSET SUBSET S
  OBVIOUS
<1> HIDE DEF F
<1>4. S \in F
  BY <1>1, <1>2, <1>3, GrowingSubsets
<1>5. QED
  BY <1>4 DEF F

\* A sum of equal terms, and one whose other terms are zero.
LEMMA SumConstant ==
  ASSUME NEW S, IsFiniteSet(S), NEW c \in Nat, NEW f, \A y \in S : f[y] = c
  PROVE  SumFunctionOnSet(f, S) = c * Cardinality(S)
<1>1. SumFunctionOnSet(f, S) \in Nat /\ Cardinality(S) \in Nat
  BY SumNat, FS_CardinalityType
<1>2. SumFunctionOnSet(f, S) <= c * Cardinality(S) /\ SumFunctionOnSet(f, S) >= c * Cardinality(S)
  BY SumBounds
<1>3. QED
  BY <1>1, <1>2

\* Terms that are 0 can be left out.
LEMMA SumPart ==
  ASSUME NEW S, IsFiniteSet(S), NEW A \in SUBSET S,
         NEW f, \A y \in S : f[y] \in Nat, \A y \in S \ A : f[y] = 0
  PROVE  SumFunctionOnSet(f, S) = SumFunctionOnSet(f, A)
<1>1. IsFiniteSet(A) /\ IsFiniteSet(S \ A) /\ Cardinality(S \ A) \in Nat
  BY FS_Subset, FS_CardinalityType
<1>2. SumFunctionOnSet(f, S \ A) = 0 * Cardinality(S \ A)
  BY <1>1, SumConstant
<1>3. SumFunctionOnSet(f, S) = SumFunctionOnSet(f, A) + SumFunctionOnSet(f, S \ A)
  BY SumSplit
<1>4. SumFunctionOnSet(f, A) \in Nat
  BY <1>1, SumNat
<1>5. QED
  BY <1>1, <1>2, <1>3, <1>4

\* A sum does not depend on the names of its terms.
LEMMA SumRenamed ==
  ASSUME NEW S, IsFiniteSet(S), NEW f, \A y \in S : f[y] \in Nat,
         NEW g, NEW name, \A y, z \in S : name[y] = name[z] => y = z,
         \A y \in S : g[name[y]] = f[y]
  PROVE  /\ IsFiniteSet({name[y] : y \in S})
         /\ SumFunctionOnSet(g, {name[y] : y \in S}) = SumFunctionOnSet(f, S)
<1> DEFINE Named(U) == {name[y] : y \in U}
           F == {U \in SUBSET S : SumFunctionOnSet(g, Named(U)) = SumFunctionOnSet(f, U) /\ IsFiniteSet(Named(U))}
<1>1. {} \in F
  <2>1. Named({}) = {}
    OBVIOUS
  <2>2. QED
    BY <2>1, SumEmpty, FS_EmptySet
<1>2. ASSUME NEW U \in F, NEW x \in S, x \notin U PROVE U \cup {x} \in F
  <2>1. IsFiniteSet(U) /\ IsFiniteSet(Named(U))
    BY FS_Subset
  <2>2. Named(U \cup {x}) = Named(U) \cup {name[x]}
    OBVIOUS
  <2>3. name[x] \notin Named(U)
    BY <1>2
  <2>4. \A y \in Named(U) \cup {name[x]} : g[y] \in Nat
    OBVIOUS
  <2>5. SumFunctionOnSet(g, Named(U)) = SumFunctionOnSet(f, U) /\ g[name[x]] = f[x]
    OBVIOUS
  <2> HIDE DEF Named
  <2>6. SumFunctionOnSet(g, Named(U) \cup {name[x]}) = g[name[x]] + SumFunctionOnSet(g, Named(U))
    BY <2>1, <2>3, <2>4, SumAdd
  <2>7. SumFunctionOnSet(f, U \cup {x}) = f[x] + SumFunctionOnSet(f, U)
    BY <1>2, <2>1, SumAdd
  <2>8. IsFiniteSet(Named(U) \cup {name[x]})
    BY <2>1, FS_AddElement
  <2>9. QED
    BY <2>2, <2>5, <2>6, <2>7, <2>8
<1>3. F \in SUBSET SUBSET S
  OBVIOUS
<1>4. S \in F
  <2> HIDE DEF F
  <2> QED BY <1>1, <1>2, <1>3, GrowingSubsets
<1>5. QED
  BY <1>4

-----------------------------------------------------------------------------
\* The elements of S that come before r in the order R.
Below(R, S, r) == {s \in S : <<s, r>> \in R}

\* There are n numbers from 0 on below n.
LEMMA Counting ==
  ASSUME NEW n \in Nat
  PROVE  IsFiniteSet(0..(n - 1)) /\ Cardinality(0..(n - 1)) = n
<1>1. 0 \in Int /\ n - 1 \in Int
  OBVIOUS
<1>2. /\ IsFiniteSet(0..(n - 1))
      /\ Cardinality(0..(n - 1)) = IF 0 > n - 1 THEN 0 ELSE (n - 1) - 0 + 1
  BY <1>1, FS_Interval
<1>3. QED
  BY <1>2

\* The first n elements of an order are n.
LEMMA Ranking ==
  ASSUME NEW S, IsFiniteSet(S), NEW R,
         \A r \in S : <<r, r>> \notin R,
         \A r, s, t \in S : <<r, s>> \in R /\ <<s, t>> \in R => <<r, t>> \in R,
         \A r, s \in S : r = s \/ <<r, s>> \in R \/ <<s, r>> \in R,
         NEW n \in 0..Cardinality(S)
  PROVE  Cardinality({r \in S : Cardinality(Below(R, S, r)) < n}) = n
<1> DEFINE rank == [r \in S |-> Cardinality(Below(R, S, r))]
           m == Cardinality(S)
<1>1. m \in Nat
  BY FS_CardinalityType
<1>2. ASSUME NEW r \in S
      PROVE  IsFiniteSet(Below(R, S, r)) /\ rank[r] \in 0..(m - 1)
  <2>1. Below(R, S, r) \in SUBSET S /\ Below(R, S, r) # S
    BY DEF Below
  <2>2. QED
    BY <1>1, <2>1, FS_Subset, FS_CardinalityType
<1>3. ASSUME NEW r \in S, NEW s \in S, <<r, s>> \in R PROVE rank[r] < rank[s]
  <2>1. Below(R, S, r) \in SUBSET Below(R, S, s)
    BY <1>3 DEF Below
  <2>2. Below(R, S, r) # Below(R, S, s)
    BY <1>3 DEF Below
  <2>3. QED
    BY <1>2, <2>1, <2>2, FS_Subset
<1>4. rank \in Injection(S, 0..(m - 1))
  <2>1. \A r, s \in S : rank[r] = rank[s] => r = s
    <3> SUFFICES ASSUME NEW r \in S, NEW s \in S, rank[r] = rank[s], r # s PROVE FALSE
      OBVIOUS
    <3>1. rank[r] < rank[s] \/ rank[s] < rank[r]
      BY <1>3
    <3>2. rank[r] \in Int /\ rank[s] \in Int
      BY <1>2
    <3> HIDE DEF rank
    <3>3. QED
      BY <3>1, <3>2
  <2>2. rank \in [S -> 0..(m - 1)]
    BY <1>2
  <2> HIDE DEF rank
  <2>3. QED
    BY <2>1, <2>2 DEF Injection, IsInjective
<1>5. IsFiniteSet(0..(m - 1)) /\ Cardinality(0..(m - 1)) = m
  <2> HIDE DEF m
  <2> QED BY <1>1, Counting
<1>6. rank \in Surjection(S, 0..(m - 1))
  <2> HIDE DEF rank
  <2> QED BY <1>4, <1>5, FS_Injection
<1> DEFINE T == {r \in S : rank[r] < n}
           first == [r \in T |-> rank[r]]
<1>7. first \in Bijection(T, 0..(n - 1))
  <2>1. first \in [T -> 0..(n - 1)]
    BY <1>1, <1>2
  <2>2. \A r, s \in T : first[r] = first[s] => r = s
    BY <1>4 DEF Injection, IsInjective
  <2>3. \A i \in 0..(n - 1) : \E r \in T : first[r] = i
    <3> SUFFICES ASSUME NEW i \in 0..(n - 1) PROVE \E r \in T : first[r] = i
      OBVIOUS
    <3>1. i \in 0..(m - 1)
      BY <1>1
    <3>2. PICK r \in S : rank[r] = i
      <4> HIDE DEF rank
      <4> QED BY <1>6, <3>1 DEF Surjection
    <3>3. r \in T
      BY <3>2
    <3>4. QED
      BY <3>2, <3>3
  <2> HIDE DEF first, T
  <2>4. QED
    BY <2>1, <2>2, <2>3 DEF Bijection, Injection, Surjection, IsInjective
<1>8. IsFiniteSet(T) /\ IsFiniteSet(0..(n - 1)) /\ Cardinality(0..(n - 1)) = n
  <2>1. n \in Nat
    BY <1>1
  <2>2. T \in SUBSET S
    OBVIOUS
  <2> HIDE DEF T
  <2>3. QED
    BY <2>1, <2>2, FS_Subset, Counting
<1>9. Cardinality(T) = n
  <2> HIDE DEF first, T
  <2>1. ExistsBijection(T, 0..(n - 1))
    BY <1>7 DEF ExistsBijection
  <2>2. QED
    BY <1>8, <2>1, FS_Bijection
<1>10. QED
  BY <1>9

-----------------------------------------------------------------------------
(* Arithmetic.                                                              *)

\* What division gives.
LEMMA Division ==
  ASSUME NEW a \in Nat, NEW b \in Nat \ {0}
  PROVE  /\ a \div b \in Nat /\ a % b \in 0..(b - 1)
         /\ a = b * (a \div b) + (a % b)
  OBVIOUS

\* A part of an amount is not more than it.
LEMMA PartOf ==
  ASSUME NEW a \in Nat, NEW b \in Nat \ {0}, NEW k \in 0..b
  PROVE  (a * k) \div b \in 0..a
<1> DEFINE n == a * k
           q == n \div b
<1>1. n \in Nat /\ n <= a * b
  OBVIOUS
<1> HIDE DEF n
<1>2. q \in Nat /\ n % b \in Nat /\ n = b * q + (n % b)
  BY <1>1, Division
<1> HIDE DEF q
<1>3. ASSUME q > a PROVE FALSE
  <2>1. b * q >= b * (a + 1)
    BY <1>2, <1>3
  <2>2. b * (a + 1) = a * b + b
    OBVIOUS
  <2>3. QED
    BY <1>1, <1>2, <2>1, <2>2
<1>4. q \in 0..a
  BY <1>2, <1>3
<1>5. QED
  BY <1>4 DEF q, n

-----------------------------------------------------------------------------
\* The candidates are suppliers, hence finitely many.
LEMMA CandidatesFinite == IsFiniteSet(Candidates) /\ Cardinality(Candidates) \in Nat
<1>1. IsFiniteSet(Candidates)
  BY FS_Subset, InputAssumption DEF Candidates
<1>2. QED
  BY <1>1, FS_CardinalityType

\* The input stays, and what is computed from it.
LEMMA InputKept ==
  ASSUME [Next]_vars
  PROVE  /\ Candidates' = Candidates
         /\ Cap' = Cap
         /\ VerifierLines' = VerifierLines
         /\ minUnits' = minUnits
<1>1. UNCHANGED input
  BY DEF Next, Pass, Pay, vars
<1>2. QED
  BY <1>1 DEF input, Candidates, SubsOf, Cap, Distributable, VerifierFee, VerifierLines

-----------------------------------------------------------------------------
(* Termination.                                                             *)

\* Every pass but the last takes a recipient off the list, so the passes made
\* and the recipients left never outnumber the candidates.
PassesBounded ==
  /\ round \in Nat
  /\ live \subseteq Candidates
  /\ pc = "allocate" => round + Cardinality(live) <= Cardinality(Candidates)
  /\ Converges

\* Before the first pass every candidate is live.
LEMMA PassesBoundedInit == Init => PassesBounded
  BY CandidatesFinite DEF Init, PassesBounded, Converges

\* A pass that does not end the loop leaves strictly fewer recipients.
LEMMA SurvivorsFewer ==
  ASSUME live \subseteq Candidates, ~Converged
  PROVE  /\ Survivors \subseteq live
         /\ Cardinality(Survivors) \in Nat
         /\ Cardinality(live) \in Nat
         /\ Cardinality(Survivors) < Cardinality(live)
<1>1. IsFiniteSet(live)
  BY CandidatesFinite, FS_Subset
<1>2. PICK r \in live : r \in OverCap \cup BelowMin
  BY DEF Converged, OverCap, BelowMin
<1>3. Survivors \subseteq live \ {r}
  BY <1>2 DEF Survivors
<1>4. IsFiniteSet(live \ {r}) /\ Cardinality(live \ {r}) = Cardinality(live) - 1
  BY <1>1, <1>2, FS_RemoveElement
<1>5. IsFiniteSet(Survivors) /\ Cardinality(Survivors) <= Cardinality(live \ {r})
  BY <1>3, <1>4, FS_Subset
<1>6. Cardinality(live) \in Nat /\ Cardinality(Survivors) \in Nat
  BY <1>1, <1>5, FS_CardinalityType
<1>7. QED
  BY <1>3, <1>4, <1>5, <1>6

\* Every pass is counted and, unless it is the last, takes a recipient off the list.
LEMMA PassesBoundedStep == PassesBounded /\ [Next]_vars => PassesBounded'
<1> SUFFICES ASSUME PassesBounded, [Next]_vars PROVE PassesBounded'
  OBVIOUS
<1>1. Candidates' = Candidates
  BY InputKept
<1>2. CASE Pass /\ Converged
  <2>1. live' = live \/ live' = Survivors
    BY <1>2 DEF Pass, work
  <2>2. live' \subseteq live
    BY <2>1 DEF Survivors
  <2>3. pc' = "pay" /\ round' = round + 1
    BY <1>2 DEF Pass
  <2>4. round' \in Nat /\ live' \subseteq Candidates'
    BY <1>1, <2>2, <2>3 DEF PassesBounded
  <2>5. pc' # "allocate" /\ Converges'
    BY <2>3 DEF Converges
  <2>6. QED
    BY <2>4, <2>5 DEF PassesBounded
<1>3. CASE Pass /\ ~Converged
  <2>1. live' = Survivors /\ round' = round + 1
    BY <1>3 DEF Pass, Converged
  <2>2. round + Cardinality(live) <= Cardinality(Candidates)
    BY <1>3 DEF Pass, PassesBounded
  <2>3. /\ Survivors \subseteq live
        /\ Cardinality(Survivors) \in Nat
        /\ Cardinality(live) \in Nat
        /\ Cardinality(Survivors) < Cardinality(live)
    BY <1>3, SurvivorsFewer DEF PassesBounded
  <2>4. round \in Nat /\ Cardinality(Candidates) \in Nat
    BY CandidatesFinite DEF PassesBounded
  <2>5. round < LastRound
    BY <2>2, <2>3, <2>4 DEF LastRound
  <2>6. pc' = "allocate"
    BY <1>3, <2>5 DEF Pass
  <2>7. round' + Cardinality(live') <= Cardinality(Candidates)
    BY <2>1, <2>2, <2>3, <2>4
  <2>8. live' \subseteq Candidates'
    BY <1>1, <2>1, <2>3 DEF PassesBounded
  <2>9. Converges' /\ round' \in Nat
    BY <2>1, <2>4, <2>6 DEF Converges
  <2>10. Cardinality(Candidates)' = Cardinality(Candidates)
    BY <1>1
  <2>11. QED
    BY <2>7, <2>8, <2>9, <2>10 DEF PassesBounded
<1>4. CASE Pay
  BY <1>1, <1>4 DEF Pay, PassesBounded, Converges, work
<1>5. CASE UNCHANGED vars
  BY <1>1, <1>5 DEF PassesBounded, Converges, vars, work
<1>6. QED
  BY <1>2, <1>3, <1>4, <1>5 DEF Next

\* buildSettlementPlan never throws "allocation did not converge": its bound of
\* candidates.length + 2 passes is never reached (Converges).
THEOREM LoopConverges == Spec => []Converges
<1>1. PassesBounded => Converges
  BY DEF PassesBounded
<1>2. QED
  BY <1>1, PassesBoundedInit, PassesBoundedStep, PTL DEF Spec

-----------------------------------------------------------------------------
(* Cap and minimum.                                                         *)

\* What the last pass shared out passed both tests of that pass, and the plan
\* is made of it and of the locked shares.
SharesKept ==
  /\ \A r \in DOMAIN tentative : ~(tentative[r] > Cap) /\ ~(tentative[r] < minUnits)
  /\ ~(Cap > Cap)
  /\ pc = "done" => payouts = SupplierLines \cup VerifierLines

\* A pass keeps as tentative only the shares that passed both tests.
LEMMA SharesKeptStep ==
  ASSUME SharesKept, [Next]_vars
  PROVE  SharesKept'
<1>1. Cap' = Cap /\ minUnits' = minUnits /\ VerifierLines' = VerifierLines
      /\ Candidates' = Candidates
  BY InputKept
<1>2. CASE Pass
  <2>1. pc' # "done"
    BY <1>2 DEF Pass
  <2>2. CASE Exhausted
    BY <1>1, <1>2, <2>1, <2>2 DEF Pass, SharesKept, work
  <2>3. CASE ~Exhausted
    <3>1. tentative' = [r \in Survivors |-> Share(r)]
      BY <1>2, <2>3 DEF Pass
    <3>2. \A r \in Survivors : ~(Share(r) > Cap) /\ ~(Share(r) < minUnits)
      BY DEF Survivors, OverCap, BelowMin
    <3>3. QED
      BY <1>1, <2>1, <3>1, <3>2 DEF SharesKept
  <2>4. QED
    BY <2>2, <2>3
<1>3. CASE Pay
  <2>1. UNCHANGED <<locked, tentative, subs>>
    BY <1>3 DEF Pay, work, input
  <2>2. SupplierLines' = SupplierLines
    BY <1>1, <2>1 DEF SupplierLines, Amount, First, SubsOf
  <2>3. payouts' = SupplierLines \cup VerifierLines
    BY <1>3 DEF Pay
  <2>4. QED
    BY <1>1, <2>1, <2>2, <2>3 DEF SharesKept
<1>4. CASE UNCHANGED vars
  <2>1. SupplierLines' = SupplierLines
    BY <1>1, <1>4 DEF SupplierLines, Amount, First, SubsOf, vars, work, input
  <2>2. QED
    BY <1>1, <1>4, <2>1 DEF SharesKept, vars, work, plan
<1>5. QED
  BY <1>2, <1>3, <1>4 DEF Next

\* Every supplier's line is the cap, or a share that passed both tests.
LEMMA SharesKeptBounds == SharesKept => SharesBounded
<1> SUFFICES ASSUME SharesKept, pc = "done", NEW l \in payouts \ VerifierLines
             PROVE  ~(l.units > Cap) /\ (l.units = Cap \/ ~(l.units < minUnits))
  BY DEF SharesBounded
<1>1. PICK c \in Candidates : Amount(c) > 0 /\ l = Line(First(c), c, Amount(c))
  BY DEF SharesKept, SupplierLines
<1>2. l.units = Amount(c)
  BY <1>1 DEF Line
<1>3. CASE c \in locked
  BY <1>2, <1>3 DEF Amount, SharesKept
<1>4. CASE c \notin locked /\ c \in DOMAIN tentative
  BY <1>2, <1>4 DEF Amount, SharesKept
<1>5. CASE c \notin locked /\ c \notin DOMAIN tentative
  BY <1>1, <1>5 DEF Amount
<1>6. QED
  BY <1>3, <1>4, <1>5

\* A share at the cap is not over it: the cap is an integer.
LEMMA SharesKeptInit == Init => SharesKept
<1> SUFFICES ASSUME Init PROVE SharesKept
  OBVIOUS
<1>1. bounty \in Nat /\ feeBps \in 0..BpsScale /\ shareBps \in 1..BpsScale
      /\ BpsScale \in Nat \ {0}
  BY PolicyAssumption, InputAssumption DEF Init
<1>2. VerifierFee \in Int
  BY <1>1 DEF VerifierFee
<1>3. Distributable \in Int
  BY <1>1, <1>2 DEF Distributable
<1>4. Cap \in Int
  BY <1>1, <1>3 DEF Cap
<1>5. tentative = [r \in {} |-> 0] /\ pc = "allocate"
  BY DEF Init
<1>6. QED
  BY <1>4, <1>5 DEF SharesKept

\* buildSettlementPlan honours maxShareBps and minPayoutUnits for any number of
\* suppliers: its loop may end in any pass, and the shares it ends with are those
\* of a pass that found none of them above the cap or below the minimum
\* (SharesBounded).
THEOREM SharesRespected == Spec => []SharesBounded
<1>1. SharesKept /\ [Next]_vars => SharesKept'
  BY SharesKeptStep
<1>2. QED
  BY <1>1, SharesKeptInit, SharesKeptBounds, PTL DEF Spec

-----------------------------------------------------------------------------
(* What is given, and what a pass shares out.                               *)

Given ==
  /\ bounty \in Bounties
  /\ feeBps \in FeeBps /\ shareBps \in ShareBps /\ minUnits \in MinUnits
  /\ \E n \in Nat : subs \in [1..n -> Submission]

\* A set of numbers has a smallest one, and Min is it.
LEMMA MinIsLeast ==
  ASSUME NEW S \in SUBSET Nat, S # {}
  PROVE  Min(S) \in S /\ \A n \in S : Min(S) <= n
<1> DEFINE R == {ss \in Nat \X Nat : ss[1] < ss[2]}
<1>1. IsWellFoundedOn(R, Nat)
  BY NatLessThanWellFounded DEF OpToRel
<1>2. \E m \in S : \A n \in S : <<n, m>> \notin R
  <2> HIDE DEF R
  <2> QED BY <1>1, WFMin
<1>3. PICK m \in S : \A n \in S : <<n, m>> \notin R
  BY <1>2
<1>4. ASSUME NEW n \in S PROVE m <= n
  <2>1. m \in Nat /\ n \in Nat
    OBVIOUS
  <2>2. n < m => <<n, m>> \in R
    BY <2>1
  <2> HIDE DEF R
  <2>3. QED
    BY <1>3, <2>1, <2>2
<1>5. QED
  BY <1>4 DEF Min

\* Fee, what is left of the bounty and cap are amounts.
LEMMA AmountsGiven ==
  ASSUME Given
  PROVE  /\ bounty \in Nat /\ minUnits \in Nat
         /\ VerifierFee \in 0..bounty /\ Distributable \in Nat /\ Cap \in 0..Distributable
<1>1. /\ bounty \in Nat /\ minUnits \in Nat /\ BpsScale \in Nat \ {0}
      /\ feeBps \in 0..BpsScale /\ shareBps \in 0..BpsScale
  BY PolicyAssumption, InputAssumption DEF Given
<1>2. VerifierFee \in 0..bounty
  BY <1>1, PartOf DEF VerifierFee
<1>3. Distributable \in Nat
  BY <1>1, <1>2 DEF Distributable
<1>4. Cap \in 0..Distributable
  BY <1>1, <1>3, PartOf DEF Cap
<1>5. QED
  BY <1>1, <1>2, <1>3, <1>4

\* A candidate has submissions, a first one among them, and their quality.
LEMMA CandidateHas ==
  ASSUME Given, NEW r \in Candidates
  PROVE  /\ r \in Suppliers /\ First(r) \in SubsOf(r)
         /\ First(r) \in Nat \ {0} /\ Quality(r) \in Nat \ {0}
<1>1. PICK n \in Nat : subs \in [1..n -> Submission]
  BY DEF Given
<1>2. /\ SubsOf(r) \in SUBSET (1..n) /\ SubsOf(r) # {} /\ r \in Suppliers
      /\ \A i \in SubsOf(r) : subs[i].quality \in Nat \ {0}
  BY <1>1, InputAssumption DEF SubsOf, Candidates, Submission
<1>3. First(r) \in SubsOf(r)
  BY <1>2, MinIsLeast DEF First
<1>4. IsFiniteSet(SubsOf(r))
  <2>1. IsFiniteSet(1..n)
    BY FS_Interval
  <2>2. QED
    BY <1>2, <2>1, FS_Subset
<1> DEFINE S == SubsOf(r)
           q == [i \in S |-> subs[i].quality]
<1>5. /\ \A i \in S : q[i] \in Nat \ {0}
      /\ Quality(r) = SumFunctionOnSet(q, S)
  BY <1>2 DEF Quality, SumFunction
<1>6. Quality(r) \in Nat /\ Quality(r) >= 1 * Cardinality(S)
  <2> HIDE DEF q, S
  <2>1. IsFiniteSet(S)
    BY <1>4 DEF S
  <2>2. QED
    BY <1>5, <2>1, SumNat, SumBounds
<1>7. Cardinality(S) \in Nat \ {0}
  BY <1>2, <1>4, FS_CardinalityType, FS_EmptySet
<1>8. QED
  BY <1>2, <1>3, <1>6, <1>7

\* Candidates have different first submissions.
LEMMA FirstsDiffer ==
  ASSUME Given, NEW r \in Candidates, NEW s \in Candidates, First(r) = First(s)
  PROVE  r = s
  BY CandidateHas DEF SubsOf

\* The live recipients are finitely many.
LEMMA LiveFinite ==
  ASSUME NEW L \in SUBSET Candidates
  PROVE  IsFiniteSet(L) /\ Cardinality(L) \in Nat
  BY CandidatesFinite, FS_Subset, FS_CardinalityType

Sharing == Given /\ live \in SUBSET Candidates /\ live # {} /\ Pool \in Nat

\* What is divided is divided by their quality, with a remainder.
LEMMA PassDivides ==
  ASSUME Sharing
  PROVE  /\ TotalQuality \in Nat \ {0}
         /\ \A r \in live :
              /\ Quality(r) \in Nat \ {0} /\ Floor(r) \in Nat
              /\ Remainder(r) \in 0..(TotalQuality - 1)
              /\ Pool * Quality(r) = TotalQuality * Floor(r) + Remainder(r)
<1> DEFINE q == [r \in live |-> Quality(r)]
<1>1. \A r \in live : q[r] \in Nat \ {0}
  BY CandidateHas DEF Sharing
<1>2. TotalQuality = SumFunctionOnSet(q, live)
  BY DEF TotalQuality, SumFunction
<1>3. TotalQuality \in Nat /\ TotalQuality >= 1 * Cardinality(live)
  <2> HIDE DEF q
  <2> QED BY <1>1, <1>2, LiveFinite, SumNat, SumBounds DEF Sharing
<1>4. Cardinality(live) \in Nat \ {0}
  BY LiveFinite, FS_EmptySet DEF Sharing
<1>5. TotalQuality \in Nat \ {0}
  BY <1>3, <1>4
<1>6. ASSUME NEW r \in live
      PROVE  /\ Quality(r) \in Nat \ {0} /\ Floor(r) \in Nat
             /\ Remainder(r) \in 0..(TotalQuality - 1)
             /\ Pool * Quality(r) = TotalQuality * Floor(r) + Remainder(r)
  <2>1. Quality(r) \in Nat \ {0}
    BY <1>1
  <2> DEFINE p == Pool * Quality(r)
  <2>2. p \in Nat
    BY <2>1 DEF Sharing
  <2>3. Floor(r) = p \div TotalQuality /\ Remainder(r) = p % TotalQuality
    BY DEF Floor, Remainder
  <2> HIDE DEF p
  <2>4. /\ Floor(r) \in Nat /\ Remainder(r) \in 0..(TotalQuality - 1)
        /\ p = TotalQuality * Floor(r) + Remainder(r)
    BY <1>5, <2>2, <2>3, Division
  <2>5. QED
    BY <2>1, <2>4 DEF p
<1>7. QED
  BY <1>5, <1>6

\* What the division leaves is less than a unit for each.
LEMMA LeftoverBounded == Sharing => Leftover \in 0..(Cardinality(live) - 1)
<1> SUFFICES ASSUME Sharing PROVE Leftover \in 0..(Cardinality(live) - 1)
  OBVIOUS
<1> DEFINE T == TotalQuality
           n == Cardinality(live)
           q == [r \in live |-> Quality(r)]
           f == [r \in live |-> Floor(r)]
           m == [r \in live |-> Remainder(r)]
           tf == [r \in live |-> T * Floor(r)]
           pq == [r \in live |-> Pool * Quality(r)]
           Sum(g) == SumFunctionOnSet(g, live)
<1>1. T \in Nat \ {0} /\ Pool \in Nat /\ n \in Nat \ {0} /\ IsFiniteSet(live)
  BY PassDivides, LiveFinite, FS_EmptySet DEF Sharing
<1>2. \A r \in live :
        /\ q[r] \in Nat /\ f[r] \in Nat /\ m[r] \in Nat /\ m[r] <= T - 1
        /\ tf[r] = T * f[r] /\ tf[r] \in Nat
        /\ pq[r] = Pool * q[r] /\ pq[r] = tf[r] + m[r]
  BY <1>1, PassDivides
<1>3. T = Sum(q) /\ Leftover = Pool - Sum(f)
  BY DEF TotalQuality, Leftover, SumFunction
<1> HIDE DEF T, q, f, m, tf, pq
<1>4. Sum(f) \in Nat /\ Sum(m) \in Nat /\ Sum(tf) \in Nat
  BY <1>1, <1>2, SumNat
<1>5. Sum(pq) = Pool * Sum(q)
  BY <1>1, <1>2, SumScale
<1>6. Sum(tf) = T * Sum(f)
  BY <1>1, <1>2, SumScale
<1>7. Sum(pq) = Sum(tf) + Sum(m)
  BY <1>1, <1>2, SumPlus
<1>8. Sum(m) <= (T - 1) * n
  <2>1. T - 1 \in Nat
    BY <1>1
  <2>2. QED
    BY <1>1, <1>2, <2>1, SumBounds
<1> HIDE DEF Sum, n
<1>9. T * Leftover = Sum(m)
  <2>1. T * Leftover = T * Pool - T * Sum(f)
    BY <1>1, <1>3, <1>4
  <2>2. QED
    BY <1>1, <1>3, <1>4, <1>5, <1>6, <1>7, <2>1
<1>10. Leftover \in Int
  BY <1>1, <1>3, <1>4
<1>11. Leftover >= 0
  BY <1>1, <1>4, <1>9, <1>10
<1>12. T * Leftover < T * n
  BY <1>1, <1>4, <1>8, <1>9
<1>13. Leftover < n
  BY <1>1, <1>10, <1>12
<1>14. QED
  BY <1>1, <1>10, <1>11, <1>13 DEF n

\* Every unit of it goes to somebody.
LEMMA BonusesCounted == Sharing => Cardinality({r \in live : Bonus(r)}) = Leftover
<1> SUFFICES ASSUME Sharing PROVE Cardinality({r \in live : Bonus(r)}) = Leftover
  OBVIOUS
<1> DEFINE R == {rs \in live \X live : Before(rs[1], rs[2])}
<1>1. \A r \in live : Remainder(r) \in Int /\ First(r) \in Int
  BY PassDivides, CandidateHas DEF Sharing
<1>2. \A r, s \in live : First(r) = First(s) => r = s
  BY FirstsDiffer DEF Sharing
<1>3. \A r \in live : <<r, r>> \notin R
  BY <1>1 DEF Before
<1>4. \A r, s, t \in live : <<r, s>> \in R /\ <<s, t>> \in R => <<r, t>> \in R
  BY <1>1 DEF Before
<1>5. \A r, s \in live : r = s \/ <<r, s>> \in R \/ <<s, r>> \in R
  BY <1>1, <1>2 DEF Before
<1>6. Leftover \in 0..Cardinality(live) /\ IsFiniteSet(live)
  BY LeftoverBounded, LiveFinite DEF Sharing
<1>7. \A r \in live : Below(R, live, r) = {s \in live : Before(s, r)}
  BY DEF Below
<1>8. {r \in live : Bonus(r)} = {r \in live : Cardinality(Below(R, live, r)) < Leftover}
  BY <1>7 DEF Bonus
<1> HIDE DEF R
<1>9. Cardinality({r \in live : Cardinality(Below(R, live, r)) < Leftover}) = Leftover
  BY <1>3, <1>4, <1>5, <1>6, Ranking
<1>10. QED
  BY <1>8, <1>9

\* A pass shares out what there is.
LEMMA SharesAddUp ==
  ASSUME Sharing
  PROVE  /\ \A r \in live : Share(r) \in Nat
         /\ SumFunctionOnSet([r \in live |-> Share(r)], live) = Pool
<1> DEFINE B == {r \in live : Bonus(r)}
           f == [r \in live |-> Floor(r)]
           b == [r \in live |-> IF Bonus(r) THEN 1 ELSE 0]
           h == [r \in live |-> Share(r)]
           Sum(g, T) == SumFunctionOnSet(g, T)
<1>1. /\ IsFiniteSet(live) /\ IsFiniteSet(B)
      /\ Cardinality(B) \in Nat
  BY LiveFinite, FS_Subset, FS_CardinalityType DEF Sharing
<1>2. \A r \in live : f[r] \in Nat /\ b[r] \in Nat /\ h[r] = f[r] + b[r]
  BY PassDivides DEF Share
<1>3. (\A r \in B : b[r] = 1) /\ (\A r \in live \ B : b[r] = 0) /\ B \in SUBSET live
  OBVIOUS
<1>4. Cardinality(B) = Leftover
  BY BonusesCounted
<1>5. Leftover = Pool - Sum(f, live)
  BY DEF Leftover, SumFunction
<1> HIDE DEF B, f, b, h
<1>6. Sum(b, live) = Cardinality(B)
  <2>1. Sum(b, live) = Sum(b, B)
    BY <1>1, <1>2, <1>3, SumPart
  <2>2. Sum(b, B) = 1 * Cardinality(B)
    BY <1>1, <1>3, SumConstant
  <2>3. QED
    BY <1>1, <2>1, <2>2
<1>7. Sum(h, live) = Sum(f, live) + Sum(b, live)
  BY <1>1, <1>2, SumPlus
<1>8. Sum(f, live) \in Nat
  BY <1>1, <1>2, SumNat
<1>9. Sum(h, live) = Pool
  BY <1>4, <1>5, <1>6, <1>7, <1>8 DEF Sharing
<1>10. \A r \in live : Share(r) \in Nat
  BY <1>2 DEF h
<1>11. QED
  BY <1>9, <1>10 DEF h

-----------------------------------------------------------------------------
(* What all passes share out.                                               *)

\* Locked shares and tentative ones never exceed what there is, and when the
\* loop has ended nothing is left that a live recipient could have.
Allocation ==
  /\ live \in SUBSET Candidates /\ locked \in SUBSET Candidates /\ live \cap locked = {}
  /\ DOMAIN tentative \in {{}, live}
  /\ tentative \in [DOMAIN tentative -> Nat]
  /\ Pool \in Nat /\ SumFunction(tentative) <= Pool
  /\ pc \in {"pay", "done"} => live = {} \/ SumFunction(tentative) = Pool

\* The plan is made when the loop has ended.
Planned ==
  IF pc = "done" THEN payouts = SupplierLines \cup VerifierLines /\ refund = Residue
                 ELSE pc \in {"allocate", "pay"} /\ payouts = {} /\ refund = 0

\* Better candidates are never behind.
Ordered ==
  \A r, s \in Candidates : Quality(r) > Quality(s) =>
    /\ s \in locked => r \in locked
    /\ s \in live => r \in live \cup locked
    /\ {r, s} \subseteq DOMAIN tentative => tentative[r] >= tentative[s]

SettlementInv == Given /\ PassesBounded /\ SharesKept /\ Allocation /\ Planned /\ Ordered

\* What is given stays, and what is computed from it.
LEMMA GivenKept ==
  ASSUME [Next]_vars
  PROVE  /\ Given => Given'
         /\ Distributable' = Distributable /\ VerifierFee' = VerifierFee
         /\ \A r : Quality(r)' = Quality(r) /\ First(r)' = First(r)
<1>1. UNCHANGED input
  BY DEF Next, Pass, Pay, vars
<1>2. Distributable' = Distributable /\ VerifierFee' = VerifierFee
  BY <1>1 DEF input, Distributable, VerifierFee
<1>3. \A r : Quality(r)' = Quality(r) /\ First(r)' = First(r)
  BY <1>1 DEF input, Quality, First, SubsOf
<1>4. Given => Given'
  BY <1>1 DEF input, Given
<1>5. QED
  BY <1>2, <1>3, <1>4

\* The recipients that still share, and those that are locked.
LEMMA RecipientsFinite ==
  ASSUME Allocation
  PROVE  /\ IsFiniteSet(live) /\ IsFiniteSet(locked) /\ IsFiniteSet(DOMAIN tentative)
         /\ Cardinality(locked) \in Nat /\ SumFunction(tentative) \in Nat
<1>1. /\ IsFiniteSet(live) /\ IsFiniteSet(locked) /\ IsFiniteSet(DOMAIN tentative)
      /\ Cardinality(locked) \in Nat
  BY LiveFinite, FS_EmptySet DEF Allocation
<1>2. \A r \in DOMAIN tentative : tentative[r] \in Nat
  BY DEF Allocation
<1>3. QED
  BY <1>1, <1>2, SumNat DEF SumFunction

\* A pass that locks and drops takes no more off the pool than was shared out.
LEMMA PoolCovers ==
  ASSUME Given, Allocation, ~Exhausted
  PROVE  /\ IsFiniteSet(Survivors)
         /\ \A r \in live : Share(r) \in Nat
         /\ Cardinality(locked \cup OverCap) = Cardinality(locked) + Cardinality(OverCap)
         /\ Cardinality(OverCap) \in Nat
         /\ SumFunction([r \in Survivors |-> Share(r)]) <= Pool - Cap * Cardinality(OverCap)
         /\ Survivors = live => SumFunction([r \in Survivors |-> Share(r)]) = Pool
<1> DEFINE h == [r \in live |-> Share(r)]
           k == [r \in Survivors |-> Share(r)]
           Sum(g, T) == SumFunctionOnSet(g, T)
<1>1. Sharing
  BY DEF Sharing, Allocation, Exhausted
<1>2. \A r \in live : h[r] \in Nat /\ h[r] = Share(r)
  BY <1>1, SharesAddUp
<1>3. Sum(h, live) = Pool
  BY <1>1, SharesAddUp
<1>4. /\ OverCap \in SUBSET live /\ Survivors \in SUBSET (live \ OverCap)
      /\ live \ OverCap \in SUBSET live /\ (live \ OverCap) \ Survivors \in SUBSET live
  BY DEF OverCap, Survivors
<1>5. /\ IsFiniteSet(live) /\ IsFiniteSet(locked) /\ IsFiniteSet(OverCap) /\ IsFiniteSet(Survivors)
      /\ IsFiniteSet(live \ OverCap) /\ IsFiniteSet((live \ OverCap) \ Survivors)
      /\ Cardinality(OverCap) \in Nat /\ Cardinality(locked) \in Nat
  BY <1>4, RecipientsFinite, FS_Subset, FS_CardinalityType
<1>6. Cap \in Nat /\ Pool \in Nat
  BY AmountsGiven DEF Allocation
<1>7. \A r \in OverCap : h[r] >= Cap
  <2> SUFFICES ASSUME NEW r \in OverCap PROVE h[r] >= Cap
    OBVIOUS
  <2>1. r \in live /\ Share(r) > Cap
    BY DEF OverCap
  <2> HIDE DEF h
  <2>2. QED
    BY <1>2, <1>6, <2>1
<1>8. Sum(k, Survivors) = Sum(h, Survivors)
  <2>1. \A r \in Survivors : h[r] \in Nat /\ k[r] = h[r]
    BY <1>2, <1>4
  <2> HIDE DEF h, k
  <2>2. QED
    BY <1>5, <2>1, SumSame
<1>9. SumFunction(k) = Sum(k, Survivors)
  BY DEF SumFunction
<1> HIDE DEF h, k
<1>10. Sum(h, OverCap) >= Cap * Cardinality(OverCap) /\ Sum(h, OverCap) \in Nat
  BY <1>2, <1>4, <1>5, <1>6, <1>7, SumBounds, SumNat
<1>11. Sum(h, live) = Sum(h, OverCap) + Sum(h, live \ OverCap)
  BY <1>2, <1>4, <1>5, SumSplit
<1>12. Sum(h, live \ OverCap) = Sum(h, Survivors) + Sum(h, (live \ OverCap) \ Survivors)
  BY <1>2, <1>4, <1>5, SumSplit
<1>13. Sum(h, Survivors) \in Nat /\ Sum(h, (live \ OverCap) \ Survivors) \in Nat
  BY <1>2, <1>4, <1>5, SumNat
<1>14. Sum(h, Survivors) <= Pool - Cap * Cardinality(OverCap)
  <2>1. Cap * Cardinality(OverCap) \in Nat
    BY <1>5, <1>6
  <2> HIDE DEF Sum
  <2>2. QED
    BY <1>3, <1>6, <1>10, <1>11, <1>12, <1>13, <2>1
<1>15. Cardinality(locked \cup OverCap) = Cardinality(locked) + Cardinality(OverCap)
  <2>1. locked \cap OverCap = {}
    BY <1>4 DEF Allocation
  <2>2. Cardinality(locked \cap OverCap) = 0
    BY <2>1, FS_EmptySet
  <2>3. Cardinality(locked \cup OverCap)
          = Cardinality(locked) + Cardinality(OverCap) - Cardinality(locked \cap OverCap)
    BY <1>5, FS_Union
  <2>4. QED
    BY <1>5, <2>2, <2>3
<1>16. QED
  BY <1>2, <1>3, <1>5, <1>8, <1>9, <1>14, <1>15 DEF h, k

\* What is given is within the bounds, and before the first pass nothing is shared.
LEMMA AllocationInit == Init => Given /\ Allocation /\ Planned /\ Ordered
<1> SUFFICES ASSUME Init PROVE Given /\ Allocation /\ Planned /\ Ordered
  OBVIOUS
<1>1. Given
  BY InputAssumption DEF Init, Given
<1>2. /\ live = Candidates /\ locked = {} /\ tentative = [r \in {} |-> 0]
      /\ DOMAIN tentative = {} /\ pc = "allocate" /\ payouts = {} /\ refund = 0
  BY DEF Init
<1>3. Pool \in Nat
  <2>1. Pool = Distributable - Cap * 0
    BY <1>2, FS_EmptySet DEF Pool
  <2>2. QED
    BY <1>1, <2>1, AmountsGiven
<1>4. SumFunction(tentative) = 0
  BY <1>2, SumEmpty DEF SumFunction
<1>5. Allocation
  BY <1>2, <1>3, <1>4 DEF Allocation
<1>6. Planned /\ Ordered
  BY <1>2 DEF Planned, Ordered
<1>7. QED
  BY <1>1, <1>5, <1>6

\* Passes never share out more than there is.
LEMMA AllocationStep ==
  ASSUME Given, Allocation, [Next]_vars
  PROVE  Allocation'
<1>1. Candidates' = Candidates /\ Cap' = Cap /\ Distributable' = Distributable
  BY InputKept, GivenKept
<1>2. Cap \in Nat /\ Distributable \in Nat
  BY AmountsGiven
<1>3. CASE Pass /\ Exhausted
  <2>1. UNCHANGED <<live, locked, tentative>> /\ pc' = "pay"
    BY <1>3 DEF Pass, work, Converged
  <2>2. Pool' = Pool
    BY <1>1, <2>1 DEF Pool
  <2>3. live = {} \/ SumFunction(tentative) = Pool
    <3> SUFFICES ASSUME live # {} PROVE SumFunction(tentative) = Pool
      OBVIOUS
    <3>1. Sharing
      BY DEF Sharing, Allocation
    <3>2. TotalQuality \in Nat \ {0}
      BY <3>1, PassDivides
    <3>3. Pool = 0
      BY <1>3, <3>2 DEF Exhausted, Allocation
    <3>4. QED
      BY <3>3, RecipientsFinite DEF Allocation
  <2>4. QED
    BY <1>1, <2>1, <2>2, <2>3 DEF Allocation
<1>4. CASE Pass /\ ~Exhausted
  <2> DEFINE k == [r \in Survivors |-> Share(r)]
  <2>1. live' = Survivors /\ locked' = locked \cup OverCap /\ tentative' = k
    BY <1>4 DEF Pass
  <2>2. /\ \A r \in live : Share(r) \in Nat
        /\ Cardinality(locked \cup OverCap) = Cardinality(locked) + Cardinality(OverCap)
        /\ Cardinality(OverCap) \in Nat
        /\ IsFiniteSet(Survivors)
        /\ SumFunction(k) <= Pool - Cap * Cardinality(OverCap)
        /\ Survivors = live => SumFunction(k) = Pool
    BY <1>4, PoolCovers
  <2>3. k \in [Survivors -> Nat] /\ DOMAIN k = Survivors
    BY <2>2 DEF Survivors
  <2>4. Pool' = Pool - Cap * Cardinality(OverCap)
    <3>1. Cardinality(locked) \in Nat
      BY RecipientsFinite
    <3>2. Cap * (Cardinality(locked) + Cardinality(OverCap))
            = Cap * Cardinality(locked) + Cap * Cardinality(OverCap)
      BY <1>2, <2>2, <3>1
    <3>3. Cap * Cardinality(locked) \in Nat /\ Cap * Cardinality(OverCap) \in Nat
      BY <1>2, <2>2, <3>1
    <3>4. QED
      BY <1>1, <1>2, <2>1, <2>2, <3>2, <3>3 DEF Pool
  <2>5. Pool' \in Nat
    <3>1. SumFunction(k) \in Nat
      <4>1. \A r \in Survivors : k[r] \in Nat
        BY <2>3
      <4> HIDE DEF k
      <4>2. QED
        BY <2>2, <2>3, <4>1, SumNat DEF SumFunction
    <3>2. Pool - Cap * Cardinality(OverCap) \in Int
      BY <1>2, <2>2 DEF Allocation
    <3> HIDE DEF k
    <3>3. QED
      BY <2>2, <2>4, <3>1, <3>2
  <2>6. live' \in SUBSET Candidates /\ locked' \in SUBSET Candidates /\ live' \cap locked' = {}
    BY <2>1 DEF Allocation, Survivors, OverCap
  <2>7. pc' \in {"pay", "done"} => SumFunction(k) = Pool'
    <3> SUFFICES ASSUME Converged PROVE SumFunction(k) = Pool'
      BY <1>4 DEF Pass
    <3>1. OverCap = {} /\ Survivors = live
      BY <1>4 DEF Converged, Survivors
    <3>2. Pool' = Pool
      BY <1>2, <2>4, <3>1, FS_EmptySet DEF Allocation
    <3>3. QED
      BY <2>2, <3>1, <3>2
  <2> HIDE DEF k
  <2>8. QED
    BY <1>1, <2>1, <2>2, <2>3, <2>4, <2>5, <2>6, <2>7 DEF Allocation
<1>5. CASE Pay \/ UNCHANGED vars
  <2>1. UNCHANGED <<live, locked, tentative>>
    BY <1>5 DEF Pay, vars, work
  <2>2. pc' \in {"pay", "done"} => pc \in {"pay", "done"}
    BY <1>5 DEF Pay, vars
  <2>3. Pool' = Pool
    BY <1>1, <2>1 DEF Pool
  <2>4. QED
    BY <1>1, <2>1, <2>2, <2>3 DEF Allocation
<1>6. QED
  BY <1>3, <1>4, <1>5 DEF Next

-----------------------------------------------------------------------------
(* What the plan pays.                                                      *)

\* The amounts are numbers, and the lines of the plan pay out their sum: what
\* is locked at the cap and what the last pass shared out.
LEMMA SuppliersPaid ==
  ASSUME Given, Allocation
  PROVE  /\ \A c \in Candidates : Amount(c) \in Nat
         /\ IsFiniteSet(SupplierLines)
         /\ SumOf(SupplierLines) = Cap * Cardinality(locked) + SumFunction(tentative)
<1> DEFINE a == [c \in Candidates |-> Amount(c)]
           paid == {d \in Candidates : Amount(d) > 0}
           name == [c \in paid |-> Line(First(c), c, Amount(c))]
           g == [l \in SupplierLines |-> l.units]
           Sum(f, T) == SumFunctionOnSet(f, T)
<1>1. Cap \in Nat /\ IsFiniteSet(Candidates)
  BY AmountsGiven, CandidatesFinite
<1>2. \A c \in Candidates : Amount(c) \in Nat
  BY <1>1 DEF Amount, Allocation
<1>3. \A c \in Candidates : a[c] \in Nat /\ a[c] = Amount(c)
  BY <1>2
<1>4. paid \in SUBSET Candidates /\ \A c \in Candidates \ paid : a[c] = 0
  BY <1>2
<1>5. SupplierLines = {name[c] : c \in paid}
  BY DEF SupplierLines
<1>6. \A c, d \in paid : name[c] = name[d] => c = d
  BY DEF Line
<1>8. \A c \in paid : g[name[c]] = a[c]
  BY <1>5 DEF Line
<1>9. SumOf(SupplierLines) = Sum(g, SupplierLines)
  BY DEF SumOf, SumFunction
<1>10. \A c \in locked : a[c] = Cap
  BY DEF Amount, Allocation
<1>11. /\ locked \in SUBSET Candidates /\ DOMAIN tentative \in SUBSET (Candidates \ locked)
       /\ \A c \in (Candidates \ locked) \ DOMAIN tentative : a[c] = 0
       /\ \A c \in DOMAIN tentative : a[c] = tentative[c] /\ tentative[c] \in Nat
  BY DEF Amount, Allocation
<1>12. SumFunction(tentative) = Sum(tentative, DOMAIN tentative)
  BY DEF SumFunction
<1>13. IsFiniteSet(paid)
  BY <1>1, <1>4, FS_Subset
<1> HIDE DEF a, paid, name, g
<1>14. Sum(g, SupplierLines) = Sum(a, paid) /\ IsFiniteSet(SupplierLines)
  BY <1>3, <1>4, <1>5, <1>6, <1>8, <1>13, SumRenamed
<1>15. Sum(a, Candidates) = Sum(a, paid)
  BY <1>1, <1>3, <1>4, SumPart
<1>16. Sum(a, Candidates) = Sum(a, locked) + Sum(a, Candidates \ locked)
  BY <1>1, <1>3, <1>11, SumSplit
<1>17. IsFiniteSet(locked) /\ IsFiniteSet(Candidates \ locked) /\ IsFiniteSet(DOMAIN tentative)
  BY <1>1, <1>11, FS_Subset, FS_Difference
<1>18. Sum(a, locked) = Cap * Cardinality(locked)
  BY <1>1, <1>10, <1>17, SumConstant
<1>19. Sum(a, Candidates \ locked) = Sum(a, DOMAIN tentative)
  BY <1>3, <1>11, <1>17, SumPart
<1>20. Sum(a, DOMAIN tentative) = Sum(tentative, DOMAIN tentative)
  <2>1. \A c \in DOMAIN tentative : a[c] \in Nat /\ tentative[c] = a[c]
    BY <1>11
  <2>2. QED
    BY <1>17, <2>1, SumSame
<1>21. QED
  BY <1>2, <1>9, <1>12, <1>14, <1>15, <1>16, <1>18, <1>19, <1>20

\* The residue is what the last pass left of the pool, and with it and the fee
\* the lines add up to the bounty.
LEMMA PlanAdds ==
  ASSUME Given, Allocation
  PROVE  /\ Residue \in Nat
         /\ Residue = Pool - SumFunction(tentative)
         /\ SumOf(SupplierLines \cup VerifierLines) + Residue = bounty
<1> DEFINE all == SupplierLines \cup VerifierLines
           g == [l \in SupplierLines |-> l.units]
           h == [l \in all |-> l.units]
           fee == Line(0, Verifier, VerifierFee)
           paid == Cap * Cardinality(locked)
<1>1. /\ bounty \in Nat /\ VerifierFee \in Nat /\ Cap \in Nat /\ Pool \in Nat
      /\ Cardinality(locked) \in Nat /\ SumFunction(tentative) \in Nat
      /\ SumFunction(tentative) <= Pool
  BY AmountsGiven, RecipientsFinite DEF Allocation
<1>2. paid \in Nat
  BY <1>1
<1>3. SumOf(SupplierLines) = paid + SumFunction(tentative) /\ SumOf(SupplierLines) \in Nat
  BY <1>1, <1>2, SuppliersPaid
<1>4. Pool = bounty - VerifierFee - paid
  BY DEF Pool, Distributable
<1>5. Residue = bounty - SumOf(SupplierLines) - VerifierFee
  BY DEF Residue
<1>6. Residue = Pool - SumFunction(tentative) /\ Residue \in Nat
  <2> HIDE DEF paid
  <2>1. QED
    BY <1>1, <1>2, <1>3, <1>4, <1>5
<1>7. SumOf(all) = SumOf(SupplierLines) + VerifierFee
  <2>1. CASE VerifierFee = 0
    <3>1. all = SupplierLines
      BY <2>1 DEF VerifierLines
    <3>2. SumOf(all) = SumOf(SupplierLines)
      BY <3>1
    <3> HIDE DEF all, paid
    <3>3. QED
      BY <1>3, <2>1, <3>2
  <2>2. CASE VerifierFee # 0
    <3>1. all = SupplierLines \cup {fee}
      BY <1>1, <2>2 DEF VerifierLines
    <3>2. fee \notin SupplierLines
      BY CandidateHas DEF SupplierLines, Line
    <3>3. \A l \in SupplierLines : l.units \in Nat
      BY SuppliersPaid DEF SupplierLines, Line
    <3>4. fee.units = VerifierFee
      BY DEF Line
    <3>5. /\ \A l \in SupplierLines : g[l] \in Nat /\ h[l] = g[l]
          /\ \A l \in SupplierLines \cup {fee} : h[l] \in Nat
          /\ h[fee] = VerifierFee
      BY <1>1, <3>1, <3>3, <3>4
    <3>6. /\ SumOf(all) = SumFunctionOnSet(h, all)
          /\ SumOf(SupplierLines) = SumFunctionOnSet(g, SupplierLines)
      BY DEF SumOf, SumFunction
    <3>7. IsFiniteSet(SupplierLines)
      BY SuppliersPaid
    <3> HIDE DEF g, h, all, fee
    <3>8. SumFunctionOnSet(h, SupplierLines \cup {fee}) = h[fee] + SumFunctionOnSet(h, SupplierLines)
      BY <3>2, <3>5, <3>7, SumAdd
    <3>9. SumFunctionOnSet(h, SupplierLines) = SumFunctionOnSet(g, SupplierLines)
      BY <3>5, <3>7, SumSame
    <3>10. QED
      BY <1>1, <1>3, <3>1, <3>5, <3>6, <3>8, <3>9
  <2>3. QED
    BY <2>1, <2>2
<1>8. QED
  <2> HIDE DEF all
  <2>1. SumOf(all) + Residue = bounty
    BY <1>1, <1>3, <1>5, <1>7
  <2>2. QED
    BY <1>6, <2>1 DEF all

\* While the passes' results stay, so does what the plan would be.
LEMMA PlanKept ==
  ASSUME [Next]_vars, UNCHANGED <<live, locked, tentative>>
  PROVE  /\ SupplierLines' = SupplierLines
         /\ VerifierLines' = VerifierLines
         /\ Residue' = Residue
<1>1. /\ Cap' = Cap /\ VerifierLines' = VerifierLines /\ Candidates' = Candidates
      /\ \A r : First(r)' = First(r)
      /\ VerifierFee' = VerifierFee
  BY InputKept, GivenKept
<1>2. bounty' = bounty
  <2>1. UNCHANGED input
    BY DEF Next, Pass, Pay, vars
  <2>2. QED
    BY <2>1 DEF input
<1>3. SupplierLines' = SupplierLines
  BY <1>1 DEF SupplierLines, Amount
<1>4. QED
  BY <1>1, <1>2, <1>3 DEF Residue

\* The plan that Pay makes is the plan of the state after it.
LEMMA PlannedStep ==
  ASSUME Given, Allocation, PassesBounded', Planned, [Next]_vars
  PROVE  Planned'
<1>1. CASE Pass
  <2>1. pc = "allocate" /\ pc' \in {"pay", "allocate", "did_not_converge"} /\ UNCHANGED plan
    BY <1>1 DEF Pass
  <2>2. pc' # "did_not_converge"
    BY DEF PassesBounded, Converges
  <2>3. QED
    BY <2>1, <2>2 DEF Planned, plan
<1>2. CASE Pay
  <2>1. UNCHANGED <<live, locked, tentative>>
    BY <1>2 DEF Pay, work
  <2>2. Residue \in Nat /\ SumOf(SupplierLines \cup VerifierLines) + Residue = bounty
    BY PlanAdds
  <2>3. pc' = "done" /\ payouts' = SupplierLines \cup VerifierLines /\ refund' = Residue
    <3>1. ~(Residue < 0)
      BY <2>2
    <3>2. QED
      BY <1>2, <2>2, <3>1 DEF Pay
  <2>4. QED
    BY <2>1, <2>3, PlanKept DEF Planned
<1>3. CASE UNCHANGED vars
  BY <1>3, PlanKept DEF Planned, vars, work, plan
<1>4. QED
  BY <1>1, <1>2, <1>3 DEF Next

-----------------------------------------------------------------------------
(* The order of the qualities is the order of the shares.                   *)

\* In one pass, better evidence gets no smaller share: it has no smaller floor,
\* and with the same floor it comes first for the odd units.
LEMMA SharesOrdered ==
  ASSUME Sharing, Pool > 0, NEW r \in live, NEW s \in live, Quality(r) > Quality(s)
  PROVE  Share(r) >= Share(s)
<1> DEFINE T == TotalQuality
           Ahead(t) == {u \in live : Before(u, t)}
<1>1. /\ T \in Nat \ {0} /\ Pool \in Nat
      /\ Quality(r) \in Nat /\ Floor(r) \in Nat /\ Remainder(r) \in 0..(T - 1)
      /\ Quality(s) \in Nat /\ Floor(s) \in Nat /\ Remainder(s) \in 0..(T - 1)
      /\ Pool * Quality(r) = T * Floor(r) + Remainder(r)
      /\ Pool * Quality(s) = T * Floor(s) + Remainder(s)
  BY PassDivides DEF Sharing
<1>2. Pool * Quality(r) > Pool * Quality(s)
  <2>1. \A p, q, t \in Nat : p > 0 /\ q > t => p * q > p * t
    OBVIOUS
  <2>2. QED
    BY <1>1, <2>1
<1>3. CASE Floor(r) < Floor(s)
  <2>1. \A t, f, g \in Nat : f < g => t * g >= t * f + t
    OBVIOUS
  <2>2. T * Floor(s) >= T * Floor(r) + T
    BY <1>1, <1>3, <2>1
  <2>3. T * Floor(s) \in Nat /\ T * Floor(r) \in Nat
    BY <1>1
  <2> HIDE DEF T
  <2>4. QED
    BY <1>1, <1>2, <2>2, <2>3
<1>4. CASE Floor(r) > Floor(s)
  BY <1>1, <1>4 DEF Share
<1>5. CASE Floor(r) = Floor(s)
  <2>1. Remainder(r) > Remainder(s)
    <3>1. T * Floor(r) \in Nat
      BY <1>1
    <3>2. T * Floor(r) = T * Floor(s)
      BY <1>5
    <3> HIDE DEF T
    <3>3. QED
      BY <1>1, <1>2, <3>1, <3>2
  <2>2. \A u \in live : Remainder(u) \in Int
    BY PassDivides
  <2>3. Ahead(r) \subseteq Ahead(s) /\ Ahead(s) \subseteq live
    BY <2>1, <2>2 DEF Before
  <2>4. IsFiniteSet(Ahead(s)) /\ IsFiniteSet(live)
    BY <2>3, LiveFinite, FS_Subset DEF Sharing
  <2>5. /\ Cardinality(Ahead(r)) \in Nat /\ Cardinality(Ahead(s)) \in Nat
        /\ Cardinality(Ahead(r)) <= Cardinality(Ahead(s))
    <3> HIDE DEF Ahead
    <3>1. QED
      BY <2>3, <2>4, FS_Subset, FS_CardinalityType
  <2>6. Leftover \in Int
    BY LeftoverBounded, LiveFinite DEF Sharing
  <2>7. Bonus(s) => Bonus(r)
    <3>1. /\ Bonus(s) <=> Cardinality(Ahead(s)) < Leftover
          /\ Bonus(r) <=> Cardinality(Ahead(r)) < Leftover
      BY DEF Bonus
    <3> HIDE DEF Ahead
    <3>2. QED
      BY <2>5, <2>6, <3>1
  <2>8. QED
    BY <1>1, <1>5, <2>7 DEF Share
<1>6. QED
  BY <1>1, <1>3, <1>4, <1>5

\* A pass keeps the order: who is locked below has those above locked too, and
\* who still shares has those above still sharing or locked.
LEMMA OrderedStep ==
  ASSUME Given, Allocation, Ordered, [Next]_vars
  PROVE  Ordered'
<1>1. Candidates' = Candidates /\ \A r : Quality(r)' = Quality(r)
  BY InputKept, GivenKept
<1>2. CASE UNCHANGED <<live, locked, tentative>>
  BY <1>1, <1>2 DEF Ordered
<1>3. CASE Pass /\ ~Exhausted
  <2>1. /\ live' = Survivors /\ locked' = locked \cup OverCap
        /\ tentative' = [r \in Survivors |-> Share(r)]
    BY <1>3 DEF Pass
  <2>2. Sharing /\ Pool > 0
    BY <1>3 DEF Exhausted, Sharing, Allocation
  <2>3. \A r \in live : Share(r) \in Nat
    BY <2>2, SharesAddUp
  <2>4. Cap \in Nat /\ minUnits \in Nat
    BY AmountsGiven
  <2> SUFFICES ASSUME NEW r \in Candidates, NEW s \in Candidates, Quality(r) > Quality(s)
               PROVE  /\ s \in locked' => r \in locked'
                      /\ s \in live' => r \in live' \cup locked'
                      /\ {r, s} \subseteq DOMAIN tentative' => tentative'[r] >= tentative'[s]
    BY <1>1 DEF Ordered
  <2>5. /\ s \in locked => r \in locked
        /\ s \in live => r \in live \cup locked
    BY DEF Ordered
  <2>6. r \in live /\ s \in live => Share(r) >= Share(s)
    BY <2>2, SharesOrdered
  <2>7. s \in locked' => r \in locked'
    BY <2>1, <2>3, <2>4, <2>5, <2>6 DEF OverCap
  <2>8. s \in live' => r \in live' \cup locked'
    BY <2>1, <2>3, <2>4, <2>5, <2>6 DEF Survivors, OverCap, BelowMin
  <2>9. {r, s} \subseteq DOMAIN tentative' => tentative'[r] >= tentative'[s]
    BY <2>1, <2>6 DEF Survivors
  <2>10. QED
    BY <2>7, <2>8, <2>9
<1>4. CASE Pass /\ Exhausted
  BY <1>2, <1>4 DEF Pass, work
<1>5. CASE Pay
  BY <1>2, <1>5 DEF Pay, work
<1>6. CASE UNCHANGED vars
  BY <1>2, <1>6 DEF vars, work
<1>7. QED
  BY <1>3, <1>4, <1>5, <1>6 DEF Next

-----------------------------------------------------------------------------
(* The plan is right.                                                       *)

\* Every part of the invariant is kept.
LEMMA SettlementInvStep == SettlementInv /\ [Next]_vars => SettlementInv'
<1> SUFFICES ASSUME SettlementInv, [Next]_vars PROVE SettlementInv'
  OBVIOUS
<1>1. Given /\ PassesBounded /\ SharesKept /\ Allocation /\ Planned /\ Ordered
  BY DEF SettlementInv
<1>2. Given' /\ PassesBounded' /\ SharesKept'
  BY <1>1, GivenKept, PassesBoundedStep, SharesKeptStep
<1>3. Allocation' /\ Ordered'
  BY <1>1, AllocationStep, OrderedStep
<1>4. Planned'
  BY <1>1, <1>2, PlannedStep
<1>5. QED
  BY <1>2, <1>3, <1>4 DEF SettlementInv

\* It holds before the first pass.
LEMMA SettlementInvInit == Init => SettlementInv
  BY AllocationInit, PassesBoundedInit, SharesKeptInit DEF SettlementInv

\* It holds of every state the plan goes through.
LEMMA SettlementInvHolds == Spec => []SettlementInv
  BY SettlementInvInit, SettlementInvStep, PTL DEF Spec

\* The plan never pays a supplier more for worse evidence.
LEMMA InvIsMonotone == SettlementInv => MonotoneInQuality
<1> SUFFICES ASSUME SettlementInv, pc = "done", NEW r \in Candidates, NEW s \in Candidates,
                    Quality(r) > Quality(s)
             PROVE  Amount(r) >= Amount(s)
  BY DEF MonotoneInQuality
<1>1. /\ s \in locked => r \in locked
      /\ s \in live => r \in live \cup locked
      /\ {r, s} \subseteq DOMAIN tentative => tentative[r] >= tentative[s]
  BY DEF SettlementInv, Ordered
<1>2. /\ DOMAIN tentative \in {{}, live} /\ tentative \in [DOMAIN tentative -> Nat]
      /\ Cap \in Nat
  BY AmountsGiven DEF SettlementInv, Allocation
<1>3. \A c \in DOMAIN tentative : ~(tentative[c] > Cap)
  BY DEF SettlementInv, SharesKept
<1>4. CASE s \in locked
  BY <1>1, <1>2, <1>4 DEF Amount
<1>5. CASE s \notin locked /\ s \in DOMAIN tentative
  BY <1>1, <1>2, <1>3, <1>5 DEF Amount
<1>6. CASE s \notin locked /\ s \notin DOMAIN tentative
  BY <1>2, <1>6 DEF Amount
<1>7. QED
  BY <1>4, <1>5, <1>6

\* What is refunded is what nobody could take.
LEMMA InvForcesResidue == SettlementInv => ResidueForced
<1> SUFFICES ASSUME SettlementInv, pc = "done", refund > 0,
                    NEW c \in Candidates, c \notin locked
             PROVE  Amount(c) = 0
  BY DEF ResidueForced
<1>1. refund = Pool - SumFunction(tentative)
  BY PlanAdds DEF SettlementInv, Planned
<1>2. Pool \in Nat /\ SumFunction(tentative) # Pool
  BY <1>1 DEF SettlementInv, Allocation
<1>3. live = {} /\ DOMAIN tentative = {}
  BY <1>2 DEF SettlementInv, Allocation
<1>4. QED
  BY <1>3 DEF Amount

\* The plan's values have their types.
LEMMA InvIsTyped == SettlementInv => TypeOK
<1> SUFFICES ASSUME SettlementInv PROVE TypeOK
  OBVIOUS
<1>1. /\ bounty \in Bounties
      /\ feeBps \in FeeBps /\ shareBps \in ShareBps /\ minUnits \in MinUnits
      /\ round \in Nat /\ live \subseteq Candidates /\ locked \subseteq Candidates
      /\ DOMAIN tentative \subseteq Candidates
      /\ pc \in {"allocate", "pay", "done"}
  BY DEF SettlementInv, Given, PassesBounded, Allocation, Planned
<1>2. refund \in Nat
  BY PlanAdds DEF SettlementInv, Planned
<1>3. \A l \in SupplierLines : l.recipient \in Suppliers /\ l.units \in Nat
  <2>1. \A c \in Candidates : c \in Suppliers /\ Amount(c) \in Nat
    BY CandidateHas, SuppliersPaid DEF SettlementInv
  <2>2. QED
    BY <2>1 DEF SupplierLines, Line
<1>4. \A l \in VerifierLines : l.recipient = Verifier /\ l.units \in Nat
  <2>1. VerifierFee \in Nat
    BY AmountsGiven DEF SettlementInv
  <2>2. QED
    BY <2>1 DEF VerifierLines, Line
<1>5. \A l \in payouts : l.recipient \in Suppliers \cup {Verifier} /\ l.units \in Nat
  BY <1>3, <1>4 DEF SettlementInv, Planned
<1>6. QED
  BY <1>1, <1>2, <1>5 DEF TypeOK

\* The values of buildSettlementPlan have their types in every state (TypeOK):
\* what is shared, locked and tentative is of candidates, the plan pays
\* suppliers and the verifier, and neither a line nor the refund is negative.
THEOREM SettlementTypeCorrect == Spec => []TypeOK
  BY SettlementInvHolds, InvIsTyped, PTL

\* The two checks at the end of buildSettlementPlan never throw (SumsExact): for
\* any submissions, any bounty and any policy the lines, the fee and the refund
\* add up to the bounty.
THEOREM PlanAddsUp == Spec => []SumsExact
<1>1. SettlementInv => SumsExact
  BY DEF SettlementInv, Planned, SumsExact
<1>2. QED
  BY <1>1, SettlementInvHolds, PTL

\* Better evidence is never paid less (MonotoneInQuality), however many passes
\* lock, drop and hand out odd units.
THEOREM BetterNeverPaidLess == Spec => []MonotoneInQuality
  BY SettlementInvHolds, InvIsMonotone, PTL

\* Money goes back to the requester only when no supplier could take it
\* (ResidueForced).
THEOREM RefundIsForced == Spec => []ResidueForced
  BY SettlementInvHolds, InvForcesResidue, PTL

-----------------------------------------------------------------------------
(* What the receipt is made of (Portfolio).                                 *)

\* One line's sum is its units, no line's is 0.
LEMMA SumOfLine ==
  /\ SumOf({}) = 0
  /\ \A l : l.units \in Nat => SumOf({l}) = l.units
<1>1. SumOf({}) = 0
  BY SumEmpty DEF SumOf, SumFunction
<1>2. ASSUME NEW l, l.units \in Nat PROVE SumOf({l}) = l.units
  <2> DEFINE f == [m \in {l} |-> m.units]
  <2>1. SumOf({l}) = SumFunctionOnSet(f, {l})
    BY DEF SumOf, SumFunction
  <2>2. f[l] = l.units /\ \A y \in {} \cup {l} : f[y] \in Nat
    BY <1>2
  <2> HIDE DEF f
  <2>3. SumFunctionOnSet(f, {} \cup {l}) = f[l] + SumFunctionOnSet(f, {})
    BY <2>2, SumAdd, FS_EmptySet
  <2>4. {} \cup {l} = {l}
    OBVIOUS
  <2>5. QED
    BY <1>2, <2>1, <2>2, <2>3, <2>4, SumEmpty
<1>3. QED
  BY <1>1, <1>2

\* Lines of different submissions, looked up by submission, are all found once.
LEMMA LinesListed ==
  ASSUME NEW lines, IsFiniteSet(lines), \A l \in lines : l.units \in Nat,
         \A l, m \in lines : l.submission = m.submission => l = m,
         NEW A, IsFiniteSet(A), \A l \in lines : l.submission \in A
  PROVE  /\ \A l \in lines : SumOf({m \in lines : m.submission = l.submission}) = l.units
         /\ \A i \in A : \/ \E l \in lines : l.submission = i
                         \/ SumOf({m \in lines : m.submission = i}) = 0
         /\ SumFunction([i \in A |-> SumOf({m \in lines : m.submission = i})]) = SumOf(lines)
<1> DEFINE Of(i) == {m \in lines : m.submission = i}
           f == [l \in lines |-> l.units]
           g == [i \in A |-> SumOf(Of(i))]
           name == [l \in lines |-> l.submission]
           T == {name[l] : l \in lines}
<1>1. \A l \in lines : SumOf(Of(l.submission)) = l.units
  <2> SUFFICES ASSUME NEW l \in lines PROVE SumOf(Of(l.submission)) = l.units
    OBVIOUS
  <2>1. Of(l.submission) = {l}
    OBVIOUS
  <2>2. QED
    BY <2>1, SumOfLine
<1>2. \A i \in A : (\E l \in lines : l.submission = i) \/ SumOf(Of(i)) = 0
  <2> SUFFICES ASSUME NEW i \in A, ~\E l \in lines : l.submission = i PROVE SumOf(Of(i)) = 0
    OBVIOUS
  <2>1. Of(i) = {}
    OBVIOUS
  <2>2. QED
    BY <2>1, SumOfLine
<1>3. \A l \in lines : f[l] \in Nat /\ g[name[l]] = f[l]
  BY <1>1
<1>4. \A l, m \in lines : name[l] = name[m] => l = m
  OBVIOUS
<1>5. T \in SUBSET A /\ (\A i \in A \ T : g[i] = 0) /\ \A i \in A : g[i] \in Nat
  <2>1. T \in SUBSET A
    OBVIOUS
  <2>2. \A i \in A \ T : g[i] = 0
    BY <1>2
  <2>3. \A i \in T : g[i] \in Nat
    BY <1>3
  <2> HIDE DEF f, g, name, T
  <2>4. QED
    BY <2>1, <2>2, <2>3
<1>6. SumOf(lines) = SumFunctionOnSet(f, lines) /\ SumFunction(g) = SumFunctionOnSet(g, A)
  BY DEF SumOf, SumFunction
<1> HIDE DEF f, g, name
<1>7. SumFunctionOnSet(g, T) = SumFunctionOnSet(f, lines)
  BY <1>3, <1>4, SumRenamed
<1> HIDE DEF T
<1>8. SumFunctionOnSet(g, A) = SumFunctionOnSet(g, T)
  BY <1>5, SumPart
<1>9. SumFunction(g) = SumOf(lines)
  BY <1>6, <1>7, <1>8
<1>10. QED
  BY <1>1, <1>2, <1>9 DEF g

\* The plan is made at the end.
LEMMA PlanMade ==
  SettlementInv =>
    /\ pc \in {"allocate", "pay", "done"}
    /\ pc # "done" => payouts = {}
  BY DEF SettlementInv, Planned

\* Its lines are those of the candidates, which have different submissions, and
\* the verifier's; they and the refund add up.
LEMMA PlanIsExact ==
  SettlementInv /\ pc = "done" =>
    /\ payouts = SupplierLines \cup VerifierLines
    /\ refund \in Nat /\ VerifierFee \in Nat /\ Distributable + VerifierFee = bounty
    /\ SumOf(payouts) + refund = bounty
    /\ SumOf(payouts) = SumOf(SupplierLines) + VerifierFee
    /\ SumOf(VerifierLines) = VerifierFee
    /\ IsFiniteSet(SupplierLines)
    /\ \A l \in SupplierLines :
         /\ l.units \in Nat /\ l.recipient \in Candidates
         /\ l.submission \in Nat \ {0} /\ l.submission \in SubsOf(l.recipient)
    /\ \A l, m \in SupplierLines : l.submission = m.submission => l = m
<1> SUFFICES ASSUME SettlementInv, pc = "done"
             PROVE  /\ payouts = SupplierLines \cup VerifierLines
                    /\ refund \in Nat /\ VerifierFee \in Nat
                    /\ Distributable + VerifierFee = bounty
                    /\ SumOf(payouts) + refund = bounty
                    /\ SumOf(payouts) = SumOf(SupplierLines) + VerifierFee
                    /\ SumOf(VerifierLines) = VerifierFee
                    /\ IsFiniteSet(SupplierLines)
                    /\ \A l \in SupplierLines :
                         /\ l.units \in Nat /\ l.recipient \in Candidates
                         /\ l.submission \in Nat \ {0} /\ l.submission \in SubsOf(l.recipient)
                    /\ \A l, m \in SupplierLines : l.submission = m.submission => l = m
  OBVIOUS
<1>1. Given /\ Allocation /\ payouts = SupplierLines \cup VerifierLines /\ refund = Residue
  BY DEF SettlementInv, Planned
<1>2. /\ bounty \in Nat /\ VerifierFee \in Nat /\ Distributable + VerifierFee = bounty
      /\ Cap \in Nat /\ Cardinality(locked) \in Nat /\ SumFunction(tentative) \in Nat
  BY <1>1, AmountsGiven, RecipientsFinite DEF Distributable
<1>3. refund \in Nat /\ SumOf(payouts) + refund = bounty
  BY <1>1, PlanAdds
<1>4. /\ IsFiniteSet(SupplierLines) /\ SumOf(SupplierLines) \in Nat
      /\ \A c \in Candidates : Amount(c) \in Nat
  BY <1>1, <1>2, SuppliersPaid
<1>5. refund = bounty - SumOf(SupplierLines) - VerifierFee
  BY <1>1 DEF Residue
<1>6. SumOf(payouts) = SumOf(SupplierLines) + VerifierFee
  <2>1. SumOf(payouts) \in Nat
    <3>1. \A l \in payouts : l.units \in Nat
      BY <1>1, <1>2, <1>4 DEF SupplierLines, VerifierLines, Line
    <3>2. IsFiniteSet(payouts)
      BY <1>1, <1>4, FS_Union, FS_Singleton, FS_EmptySet DEF VerifierLines
    <3> DEFINE u == [l \in payouts |-> l.units]
    <3>3. SumOf(payouts) = SumFunctionOnSet(u, payouts) /\ \A l \in payouts : u[l] \in Nat
      BY <3>1 DEF SumOf, SumFunction
    <3> HIDE DEF u
    <3>4. QED
      BY <3>2, <3>3, SumNat
  <2>2. QED
    BY <1>2, <1>3, <1>4, <1>5, <2>1
<1>7. SumOf(VerifierLines) = VerifierFee
  <2>1. Line(0, Verifier, VerifierFee).units = VerifierFee
    BY DEF Line
  <2>2. CASE VerifierFee > 0
    BY <1>2, <2>1, <2>2, SumOfLine DEF VerifierLines
  <2>3. CASE ~(VerifierFee > 0)
    BY <1>2, <2>3, SumOfLine DEF VerifierLines
  <2>4. QED
    BY <2>2, <2>3
<1>8. \A l \in SupplierLines :
        /\ l.units \in Nat /\ l.recipient \in Candidates
        /\ l.submission = First(l.recipient) /\ l.submission \in Nat \ {0}
        /\ l.submission \in SubsOf(l.recipient)
        /\ l = Line(First(l.recipient), l.recipient, Amount(l.recipient))
  BY <1>1, <1>4, CandidateHas DEF SupplierLines, Line
<1>9. \A l, m \in SupplierLines : l.submission = m.submission => l = m
  BY <1>1, <1>8, FirstsDiffer
<1>10. QED
  BY <1>1, <1>2, <1>3, <1>4, <1>6, <1>7, <1>8, <1>9

\* A line is no more than all of them.
LEMMA LineIsPart ==
  ASSUME NEW lines, IsFiniteSet(lines), \A l \in lines : l.units \in Nat, NEW l \in lines
  PROVE  l.units <= SumOf(lines)
<1> DEFINE f == [m \in lines |-> m.units]
<1>1. SumOf(lines) = SumFunctionOnSet(f, lines) /\ f[l] = l.units /\ \A m \in lines : f[m] \in Nat
  BY DEF SumOf, SumFunction
<1> HIDE DEF f
<1>2. IsFiniteSet(lines \ {l}) /\ (lines \ {l}) \cup {l} = lines
  BY FS_Subset
<1>3. SumFunctionOnSet(f, lines) = f[l] + SumFunctionOnSet(f, lines \ {l})
  <2>1. l \notin lines \ {l} /\ \A m \in (lines \ {l}) \cup {l} : f[m] \in Nat
    BY <1>1, <1>2
  <2>2. SumFunctionOnSet(f, (lines \ {l}) \cup {l}) = f[l] + SumFunctionOnSet(f, lines \ {l})
    BY <1>2, <2>1, SumAdd
  <2>3. QED
    BY <1>2, <2>2
<1>4. SumFunctionOnSet(f, lines \ {l}) \in Nat
  BY <1>1, <1>2, SumNat
<1>5. f[l] \in Nat
  BY <1>1
<1>6. QED
  BY <1>1, <1>3, <1>4, <1>5

\* Each supplier's line is a share, in basis points, of what is distributed.
LEMMA PlanShares ==
  SettlementInv /\ pc = "done" =>
    /\ Distributable \in Nat /\ SumOf(payouts) \in Nat /\ feeBps \in 0..BpsScale
    /\ \A l \in SupplierLines : (l.units * BpsScale) \div Distributable \in 0..BpsScale
<1> SUFFICES ASSUME SettlementInv, pc = "done"
             PROVE  /\ Distributable \in Nat /\ SumOf(payouts) \in Nat
                    /\ feeBps \in 0..BpsScale
                    /\ \A l \in SupplierLines :
                         (l.units * BpsScale) \div Distributable \in 0..BpsScale
  OBVIOUS
<1>1. Given /\ bounty \in Nat /\ VerifierFee \in Nat /\ Distributable = bounty - VerifierFee
  BY AmountsGiven DEF SettlementInv, Distributable
<1>2. /\ SumOf(payouts) + refund = bounty /\ refund \in Nat
      /\ SumOf(payouts) = SumOf(SupplierLines) + VerifierFee
      /\ IsFiniteSet(SupplierLines) /\ \A l \in SupplierLines : l.units \in Nat
  BY PlanIsExact
<1>3. SumOf(SupplierLines) \in Nat
  <2> DEFINE u == [l \in SupplierLines |-> l.units]
  <2>1. SumOf(SupplierLines) = SumFunctionOnSet(u, SupplierLines)
        /\ \A l \in SupplierLines : u[l] \in Nat
    BY <1>2 DEF SumOf, SumFunction
  <2> HIDE DEF u
  <2>2. QED
    BY <1>2, <2>1, SumNat
<1>4. /\ Distributable \in Nat /\ SumOf(payouts) \in Nat
      /\ SumOf(SupplierLines) <= Distributable
  BY <1>1, <1>2, <1>3
<1>5. feeBps \in 0..BpsScale /\ BpsScale \in Nat
  BY <1>1, PolicyAssumption DEF Given
<1>6. ASSUME NEW l \in SupplierLines
      PROVE  (l.units * BpsScale) \div Distributable \in 0..BpsScale
  <2>1. l.units \in Nat /\ l.units <= Distributable
    BY <1>2, <1>3, <1>4, LineIsPart
  <2>2. l.units > 0
    BY DEF SupplierLines, Line
  <2> DEFINE n == l.units  d == Distributable  b == BpsScale
  <2> HIDE DEF n, d, b
  <2>3. n \in Nat \ {0} /\ d \in Nat \ {0} /\ n <= d /\ b \in Nat
    BY <1>4, <1>5, <2>1, <2>2 DEF n, d, b
  <2>4. n * b \in Nat /\ n * b <= d * b
    BY <2>3
  <2>5. (n * b) \div d \in Nat /\ (n * b) \div d <= b
    BY <2>3, <2>4
  <2>6. QED
    BY <2>3, <2>5 DEF n, d, b
<1>7. QED
  BY <1>4, <1>5, <1>6
=============================================================================
