-------------------------------- MODULE Sums --------------------------------
(***************************************************************************)
(* Facts about MapThenSumSet, the sum of a function's values over a finite *)
(* set, and the induction on finite sets they rest on.                     *)
(*                                                                         *)
(* The library's induction principles take a predicate as a parameter;     *)
(* here the predicate is the set of the subsets that satisfy it.           *)
(***************************************************************************)
EXTENDS Integers, FiniteSetsExt, FiniteSetTheorems, WellFoundedInduction, TLAPS

Sum(f, S) == MapThenSumSet(LAMBDA x : f[x], S)

-----------------------------------------------------------------------------
(* What holds of a subset when it holds of all smaller ones holds of all.  *)
LEMMA SmallerFirst ==
    ASSUME NEW S, IsFiniteSet(S), NEW Good,
           \A T \in SUBSET S :
              (\A U \in SUBSET T : U # T => U \in Good) => T \in Good
    PROVE  SUBSET S \subseteq Good
<1> DEFINE Bad == (SUBSET S) \ Good
           R   == StrictSubsetOrdering(S)
<1>1. IsWellFoundedOn(R, SUBSET S)
  BY FS_StrictSubsetOrderingWellFounded, FS_FiniteSubsetsOfFinite
<1>2. SUFFICES ASSUME Bad # {} PROVE FALSE
  OBVIOUS
<1>3. PICK T \in Bad : \A U \in Bad : ~(<<U, T>> \in R)
  <2> HIDE DEF R
  <2>1. Bad \subseteq SUBSET S
    OBVIOUS
  <2> HIDE DEF Bad
  <2>2. QED
    BY <1>1, <1>2, <2>1, WFMin
<1>4. QED
  BY <1>3 DEF StrictSubsetOrdering

\* One element after the other.
LEMMA OneByOne ==
    ASSUME NEW S, IsFiniteSet(S), NEW Good, {} \in Good,
           \A T \in SUBSET S, x \in S :
              T \in Good /\ x \notin T => T \cup {x} \in Good
    PROVE  S \in Good
<1>1. ASSUME NEW T \in SUBSET S, \A U \in SUBSET T : U # T => U \in Good
      PROVE  T \in Good
  <2>1. CASE T = {}
    BY <2>1
  <2>2. CASE T # {}
    <3>1. PICK x \in T : TRUE
      BY <2>2
    <3>2. T \ {x} \in SUBSET S /\ T \ {x} \in Good /\ x \notin T \ {x} /\ x \in S
      BY <1>1, <3>1
    <3>3. (T \ {x}) \cup {x} = T
      BY <3>1
    <3>4. QED
      BY <3>2, <3>3
  <2>3. QED
    BY <2>1, <2>2
<1>2. SUBSET S \subseteq Good
  BY <1>1, SmallerFirst
<1>3. QED
  BY <1>2

-----------------------------------------------------------------------------
(* The recursion in MapThenSumSet: it has one solution on a finite set.    *)

Any(s) == CHOOSE x \in s : TRUE

IsSum(g, f, S) ==
    g = [s \in SUBSET S |-> IF s = {} THEN 0 ELSE f[Any(s)] + g[s \ {Any(s)}]]

LEMMA SumDef ==
    ASSUME NEW f, NEW S
    PROVE  Sum(f, S) = (CHOOSE g : IsSum(g, f, S))[S]
BY DEF Sum, MapThenSumSet, MapThenFoldSet, IsSum, Any

LEMMA SolutionsAgree ==
    ASSUME NEW f, NEW S, NEW T, NEW g, NEW h, IsFiniteSet(S),
           IsSum(g, f, S), IsSum(h, f, T), S \subseteq T
    PROVE  \A s \in SUBSET S : g[s] = h[s]
<1> DEFINE Good == {s \in SUBSET S : g[s] = h[s]}
<1>1. ASSUME NEW s \in SUBSET S, \A u \in SUBSET s : u # s => u \in Good
      PROVE  s \in Good
  <2>1. g[s] = IF s = {} THEN 0 ELSE f[Any(s)] + g[s \ {Any(s)}]
    BY DEF IsSum
  <2>2. h[s] = IF s = {} THEN 0 ELSE f[Any(s)] + h[s \ {Any(s)}]
    BY DEF IsSum
  <2>3. s # {} => g[s \ {Any(s)}] = h[s \ {Any(s)}]
    <3>1. s # {} => Any(s) \in s
      BY DEF Any
    <3>2. s # {} => s \ {Any(s)} \in SUBSET s /\ s \ {Any(s)} # s
      BY <3>1
    <3>3. QED
      BY <1>1, <3>2
  <2>4. QED
    BY <2>1, <2>2, <2>3
<1>2. SUBSET S \subseteq Good
  <2> HIDE DEF Good
  <2>1. QED
    BY <1>1, SmallerFirst
<1>3. QED
  BY <1>2

LEMMA SolutionExists ==
    ASSUME NEW f, NEW S, IsFiniteSet(S)
    PROVE  \E g : IsSum(g, f, S)
<1> DEFINE G(u)  == CHOOSE g : IsSum(g, f, u)
           Good  == {T \in SUBSET S : \E g : IsSum(g, f, T)}
<1>1. ASSUME NEW T \in SUBSET S, \A U \in SUBSET T : U # T => U \in Good
      PROVE  T \in Good
  <2> DEFINE rest(s) == s \ {Any(s)}
             g == [s \in SUBSET T |-> IF s = {} THEN 0 ELSE f[Any(s)] + G(rest(s))[rest(s)]]
  <2>1. \A s \in SUBSET T : s # {} => rest(s) \in SUBSET T /\ rest(s) # T /\ rest(s) \in SUBSET s
    BY DEF Any
  <2>2. \A u \in SUBSET T : u # T => IsSum(G(u), f, u)
    BY <1>1
  <2>3. ASSUME NEW u \in SUBSET T, u # T
        PROVE  g[u] = G(u)[u]
    <3>1. IsSum(G(u), f, u)
      BY <2>2, <2>3
    <3>2. G(u)[u] = IF u = {} THEN 0 ELSE f[Any(u)] + G(u)[rest(u)]
      <4> HIDE DEF G
      <4>1. QED
        BY <3>1 DEF IsSum
    <3>3. g[u] = IF u = {} THEN 0 ELSE f[Any(u)] + G(rest(u))[rest(u)]
      <4> HIDE DEF G
      <4>1. QED
        OBVIOUS
    <3>4. u # {} => G(rest(u))[rest(u)] = G(u)[rest(u)]
      <4>1. SUFFICES ASSUME u # {} PROVE G(rest(u))[rest(u)] = G(u)[rest(u)]
        OBVIOUS
      <4>2. IsSum(G(rest(u)), f, rest(u)) /\ rest(u) \subseteq u
        BY <2>1, <2>2, <4>1
      <4>3. IsFiniteSet(rest(u))
        BY FS_Subset
      <4> HIDE DEF G, rest
      <4>4. QED
        BY <3>1, <4>2, <4>3, SolutionsAgree
    <3>5. QED
      BY <3>2, <3>3, <3>4
  <2>4. IsSum(g, f, T)
    <3>1. \A s \in SUBSET T : g[s] = IF s = {} THEN 0 ELSE f[Any(s)] + g[rest(s)]
      <4>1. ASSUME NEW s \in SUBSET T, s # {}
            PROVE  g[s] = f[Any(s)] + g[rest(s)]
        <5>1. g[rest(s)] = G(rest(s))[rest(s)]
          BY <2>1, <2>3, <4>1
        <5>2. g[s] = f[Any(s)] + G(rest(s))[rest(s)]
          BY <4>1
        <5>3. QED
          BY <5>1, <5>2
      <4>2. g[{}] = 0
        OBVIOUS
      <4> HIDE DEF g
      <4>3. QED
        BY <4>1, <4>2
    <3>2. g = [s \in SUBSET T |-> g[s]]
      OBVIOUS
    <3> HIDE DEF g
    <3>3. QED
      BY <3>1, <3>2 DEF IsSum
  <2>5. QED
    BY <2>4
<1>2. SUBSET S \subseteq Good
  <2> HIDE DEF Good
  <2>1. QED
    BY <1>1, SmallerFirst
<1>3. QED
  BY <1>2

\* Whatever solves the recursion on a larger set is the sum on each subset.
LEMMA SumIsSolution ==
    ASSUME NEW f, NEW S, IsFiniteSet(S), NEW g, IsSum(g, f, S)
    PROVE  \A T \in SUBSET S : Sum(f, T) = g[T]
<1>1. TAKE T \in SUBSET S
<1> DEFINE h == CHOOSE h : IsSum(h, f, T)
<1>2. IsFiniteSet(T)
  BY FS_Subset
<1>3. IsSum(h, f, T)
  BY <1>2, SolutionExists
<1>4. Sum(f, T) = h[T]
  BY SumDef
<1> HIDE DEF h
<1>5. h[T] = g[T]
  BY <1>2, <1>3, SolutionsAgree
<1>6. QED
  BY <1>4, <1>5

-----------------------------------------------------------------------------
(* The laws of sums.                                                       *)

LEMMA SumEmpty ==
    ASSUME NEW f
    PROVE  Sum(f, {}) = 0
<1>1. IsFiniteSet({})
  BY FS_EmptySet
<1>2. PICK g : IsSum(g, f, {})
  BY <1>1, SolutionExists
<1>3. Sum(f, {}) = g[{}]
  BY <1>1, <1>2, SumIsSolution
<1>4. QED
  BY <1>2, <1>3 DEF IsSum

LEMMA SumRemove ==
    ASSUME NEW f, NEW S, IsFiniteSet(S), \A x \in S : f[x] \in Int
    PROVE  /\ Sum(f, S) \in Int
           /\ \A x \in S : Sum(f, S) = f[x] + Sum(f, S \ {x})
<1>1. PICK g : IsSum(g, f, S)
  BY SolutionExists
<1>2. \A T \in SUBSET S : Sum(f, T) = g[T]
  BY <1>1, SumIsSolution
<1> DEFINE Good == {T \in SUBSET S : /\ g[T] \in Int
                                     /\ \A x \in T : g[T] = f[x] + g[T \ {x}]}
<1>3. ASSUME NEW T \in SUBSET S, \A U \in SUBSET T : U # T => U \in Good
      PROVE  T \in Good
  <2>1. CASE T = {}
    BY <1>1, <2>1 DEF IsSum
  <2>2. CASE T # {}
    <3> DEFINE x == Any(T)
    <3>1. x \in T
      BY <2>2 DEF Any
    <3>2. g[T] = f[x] + g[T \ {x}]
      BY <1>1, <2>2 DEF IsSum
    <3> HIDE DEF x
    <3>3. T \ {x} \in Good /\ f[x] \in Int
      BY <1>3, <3>1
    <3>4. g[T] \in Int
      BY <3>2, <3>3
    <3>5. ASSUME NEW z \in T, z # x
          PROVE  g[T] = f[z] + g[T \ {z}]
      <4>1. T \ {z} \in Good /\ f[z] \in Int /\ T \ {x, z} \in Good
        BY <1>3
      <4>2. g[T \ {x}] = f[z] + g[(T \ {x}) \ {z}]
        BY <3>3, <3>5
      <4>3. g[T \ {z}] = f[x] + g[(T \ {z}) \ {x}]
        BY <3>1, <3>5, <4>1
      <4>4. (T \ {x}) \ {z} = T \ {x, z} /\ (T \ {z}) \ {x} = T \ {x, z}
        OBVIOUS
      <4>5. g[T \ {x, z}] \in Int /\ f[x] \in Int /\ f[z] \in Int
        BY <3>3, <4>1
      <4> HIDE DEF Good
      <4>6. QED
        BY <3>2, <4>2, <4>3, <4>4, <4>5
    <3>6. QED
      BY <3>2, <3>4, <3>5
  <2>3. QED
    BY <2>1, <2>2
<1>4. S \in Good
  <2> HIDE DEF Good
  <2>1. SUBSET S \subseteq Good
    BY <1>3, SmallerFirst
  <2>2. QED
    BY <2>1
<1>5. QED
  BY <1>2, <1>4

LEMMA SumType ==
    ASSUME NEW f, NEW S, IsFiniteSet(S), \A x \in S : f[x] \in Int
    PROVE  Sum(f, S) \in Int
BY SumRemove

LEMMA SumAdd ==
    ASSUME NEW f, NEW S, IsFiniteSet(S), \A x \in S : f[x] \in Int,
           NEW z, z \notin S, f[z] \in Int
    PROVE  Sum(f, S \cup {z}) = Sum(f, S) + f[z]
<1>1. IsFiniteSet(S \cup {z}) /\ \A x \in S \cup {z} : f[x] \in Int
  BY FS_AddElement
<1>2. Sum(f, S \cup {z}) = f[z] + Sum(f, (S \cup {z}) \ {z})
  BY <1>1, SumRemove
<1>3. (S \cup {z}) \ {z} = S
  OBVIOUS
<1>4. Sum(f, S \cup {z}) = f[z] + Sum(f, S)
  BY <1>2, <1>3, Zenon
<1>5. Sum(f, S) \in Int
  BY SumType
<1>6. QED
  BY <1>4, <1>5

\* The sum over two disjoint sets.
LEMMA SumUnion ==
    ASSUME NEW f, NEW S, NEW T, IsFiniteSet(S), IsFiniteSet(T), S \cap T = {},
           \A x \in S \cup T : f[x] \in Int
    PROVE  Sum(f, S \cup T) = Sum(f, S) + Sum(f, T)
<1> DEFINE Good == {U \in SUBSET T : Sum(f, S \cup U) = Sum(f, S) + Sum(f, U)}
<1>1. Sum(f, S) \in Int
  BY SumType
<1>2. {} \in Good
  <2>1. S \cup {} = S /\ Sum(f, {}) = 0
    BY SumEmpty
  <2>2. QED
    BY <1>1, <2>1
<1>3. ASSUME NEW U \in SUBSET T, NEW x \in T, U \in Good, x \notin U
      PROVE  U \cup {x} \in Good
  <2>1. IsFiniteSet(U) /\ IsFiniteSet(S \cup U)
    BY FS_Subset, FS_Union
  <2>2. Sum(f, U) \in Int /\ Sum(f, U \cup {x}) = Sum(f, U) + f[x]
    BY <1>3, <2>1, SumType, SumAdd
  <2>3. Sum(f, (S \cup U) \cup {x}) = Sum(f, S \cup U) + f[x]
    BY <1>3, <2>1, SumAdd
  <2>4. (S \cup U) \cup {x} = S \cup (U \cup {x})
    OBVIOUS
  <2>5. Sum(f, S \cup U) = Sum(f, S) + Sum(f, U) /\ f[x] \in Int
    BY <1>3
  <2>6. Sum(f, S \cup (U \cup {x})) = Sum(f, S \cup U) + f[x]
    BY <2>3, <2>4, Zenon
  <2>7. Sum(f, S \cup (U \cup {x})) = Sum(f, S) + Sum(f, U \cup {x})
    BY <1>1, <2>2, <2>5, <2>6
  <2>8. U \cup {x} \in SUBSET T
    OBVIOUS
  <2>9. QED
    BY <2>7, <2>8
<1>4. T \in Good
  <2> HIDE DEF Good
  <2>1. QED
    BY <1>2, <1>3, OneByOne
<1>5. QED
  BY <1>4

\* Two functions that agree on a set have the same sum over it.
LEMMA SumSame ==
    ASSUME NEW f, NEW g, NEW S, IsFiniteSet(S), \A x \in S : f[x] \in Int /\ f[x] = g[x]
    PROVE  Sum(f, S) = Sum(g, S)
<1> DEFINE Good == {U \in SUBSET S : Sum(f, U) = Sum(g, U)}
<1>1. {} \in Good
  BY SumEmpty
<1>2. ASSUME NEW U \in SUBSET S, NEW x \in S, U \in Good, x \notin U
      PROVE  U \cup {x} \in Good
  <2>1. IsFiniteSet(U)
    BY FS_Subset
  <2>2. /\ Sum(f, U \cup {x}) = Sum(f, U) + f[x]
        /\ Sum(g, U \cup {x}) = Sum(g, U) + g[x]
    BY <1>2, <2>1, SumAdd
  <2>3. QED
    BY <1>2, <2>2
<1>3. S \in Good
  <2> HIDE DEF Good
  <2>1. QED
    BY <1>1, <1>2, OneByOne
<1>4. QED
  BY <1>3

LEMMA SumOfZeros ==
    ASSUME NEW f, NEW S, IsFiniteSet(S), \A x \in S : f[x] = 0
    PROVE  Sum(f, S) = 0
<1> DEFINE Good == {U \in SUBSET S : Sum(f, U) = 0}
<1>1. {} \in Good
  BY SumEmpty
<1>2. ASSUME NEW U \in SUBSET S, NEW x \in S, U \in Good, x \notin U
      PROVE  U \cup {x} \in Good
  <2>1. IsFiniteSet(U) /\ f[x] = 0
    BY FS_Subset
  <2>2. Sum(f, U \cup {x}) = Sum(f, U) + f[x]
    BY <1>2, <2>1, SumAdd
  <2>3. QED
    BY <1>2, <2>1, <2>2
<1>3. S \in Good
  <2> HIDE DEF Good
  <2>1. QED
    BY <1>1, <1>2, OneByOne
<1>4. QED
  BY <1>3
=============================================================================
