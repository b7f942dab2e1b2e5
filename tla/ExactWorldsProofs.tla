--------------------------- MODULE ExactWorldsProofs ---------------------------
(***************************************************************************)
(* Proofs about the worlds and the oracles: first what the sums and        *)
(* products over finite sets are (SumFunction, FoldFunction), whatever the *)
(* order in which the recursive function behind them takes the elements;   *)
(* then the gradient of a world as it is defined, by backward values and   *)
(* by bit patterns.                                                        *)
(*                                                                         *)
(* An induction is over a set: the hypothesis is membership in it, so that *)
(* no lemma takes an operator.                                             *)
(***************************************************************************)
EXTENDS ExactWorlds, FiniteSetTheorems, SequenceTheorems, WellFoundedInduction, TLAPS

-----------------------------------------------------------------------------
(* Induction *)

LEMMA NatSetInduction ==
  ASSUME NEW X, 0 \in X, \A n \in Nat : n \in X => n + 1 \in X
  PROVE  Nat \subseteq X
  <1> DEFINE T == Nat \ X
  <1> SUFFICES ASSUME T # {} PROVE FALSE
    OBVIOUS
  <1>1. PICK n \in T : \A m \in T : ~(<<m, n>> \in OpToRel(<, Nat))
    BY NatLessThanWellFounded, WFMin, Zenon
  <1>2. n \in Nat /\ n # 0 /\ n \notin X
    OBVIOUS
  <1>0. n - 1 \in Nat /\ n - 1 < n /\ (n - 1) + 1 = n
    BY <1>2
  <1>3. <<n - 1, n>> \in OpToRel(<, Nat)
    BY <1>0, <1>2, Zenon DEF OpToRel
  <1>4. n - 1 \in X
    BY <1>0, <1>1, <1>3, Zenon
  <1> QED
    BY <1>0, <1>2, <1>4

LEMMA OneLess ==
  ASSUME NEW S, IsFiniteSet(S), NEW n \in Nat, Cardinality(S) = n + 1, NEW x \in S
  PROVE  Cardinality(S \ {x}) = n
  <1>1. Cardinality(S \ {x}) = Cardinality(S) - 1
    BY FS_RemoveElement
  <1> QED
    BY <1>1

LEMMA FiniteSetInduction ==
  ASSUME NEW D, IsFiniteSet(D), NEW X, {} \in X,
         \A S \in SUBSET D : \A x \in D \ S : S \in X => S \cup {x} \in X
  PROVE  D \in X
  <1> DEFINE N == {n \in Nat : \A S \in SUBSET D : Cardinality(S) = n => S \in X}
  <1>1. 0 \in N
    BY FS_Subset, FS_EmptySet
  <1>2. ASSUME NEW n \in Nat, n \in N PROVE n + 1 \in N
    <2> SUFFICES ASSUME NEW S \in SUBSET D, Cardinality(S) = n + 1 PROVE S \in X
      OBVIOUS
    <2>1. IsFiniteSet(S) /\ S # {}
      BY FS_Subset, FS_EmptySet
    <2>2. PICK x \in S : TRUE
      BY <2>1
    <2>3. Cardinality(S \ {x}) = n
      BY <2>1, OneLess
    <2>4. S \ {x} \in X
      BY <1>2, <2>3
    <2>5. S = (S \ {x}) \cup {x}
      OBVIOUS
    <2> QED
      BY <2>4, <2>5
  <1> HIDE DEF N
  <1>3. Nat \subseteq N
    BY <1>1, <1>2, NatSetInduction
  <1>4. Cardinality(D) \in N
    BY <1>3, FS_CardinalityType
  <1> QED
    BY <1>4 DEF N

-----------------------------------------------------------------------------
(* Folds: a sum or a product, by the recursive function of the definition *)

Pick(S) == CHOOSE x \in S : TRUE
Op(plus, x, y) == IF plus THEN x + y ELSE x * y
Neutral(plus) == IF plus THEN 0 ELSE 1

Solves(plus, F, S, g) ==
  g = [s \in SUBSET S |-> IF s = {} THEN Neutral(plus)
                          ELSE Op(plus, F[Pick(s)], g[s \ {Pick(s)}])]

Solution(plus, F, S) == CHOOSE g : Solves(plus, F, S, g)
Fold(plus, F, S) == Solution(plus, F, S)[S]

\* What the definitions of the community modules come to.
LEMMA SumIsFold ==
  ASSUME NEW F, NEW S PROVE SumFunctionOnSet(F, S) = Fold(TRUE, F, S)
  BY DEF SumFunctionOnSet, FoldFunctionOnSet, MapThenFoldSet, Fold, Solution, Solves, Pick,
         Op, Neutral

LEMMA ProductIsFold ==
  ASSUME NEW F
  PROVE  FoldFunction(LAMBDA x, y : x * y, 1, F) = Fold(FALSE, F, DOMAIN F)
  BY DEF FoldFunction, FoldFunctionOnSet, MapThenFoldSet, Fold, Solution, Solves, Pick, Op,
         Neutral

LEMMA OpFacts ==
  ASSUME NEW plus \in BOOLEAN, NEW x \in Int, NEW y \in Int, NEW z \in Int
  PROVE  /\ Op(plus, x, y) \in Int
         /\ Op(plus, x, Op(plus, y, z)) = Op(plus, y, Op(plus, x, z))
         /\ Op(plus, x, Op(plus, y, z)) = Op(plus, Op(plus, x, y), z)
         /\ Neutral(plus) \in Int
         /\ Op(plus, Neutral(plus), x) = x
         /\ Op(plus, x, y) = Op(plus, y, x)
  BY DEF Op, Neutral

LEMMA Picked == ASSUME NEW S, S # {} PROVE Pick(S) \in S
  BY DEF Pick

\* Two solutions agree on the sets both are about, and their values are numbers.
LEMMA SolutionsAgree ==
  ASSUME NEW plus \in BOOLEAN, NEW F, NEW S, NEW T, NEW g, NEW h,
         Solves(plus, F, S, g), Solves(plus, F, T, h),
         NEW U, IsFiniteSet(U), U \subseteq S, U \subseteq T, \A x \in U : F[x] \in Int
  PROVE  g[U] = h[U] /\ g[U] \in Int
  <1> DEFINE N == {n \in Nat : \A V \in SUBSET U :
                     Cardinality(V) = n => g[V] = h[V] /\ g[V] \in Int}
  <1>1. 0 \in N
    BY FS_Subset, FS_EmptySet DEF Solves, Neutral
  <1>2. ASSUME NEW n \in Nat, n \in N PROVE n + 1 \in N
    <2> SUFFICES ASSUME NEW V \in SUBSET U, Cardinality(V) = n + 1
                 PROVE  g[V] = h[V] /\ g[V] \in Int
      OBVIOUS
    <2>1. IsFiniteSet(V) /\ V # {}
      BY FS_Subset, FS_EmptySet
    <2> DEFINE x == Pick(V)
    <2>2. x \in V /\ F[x] \in Int
      BY <2>1, Picked
    <2>3. Cardinality(V \ {x}) = n
      BY <2>1, <2>2, OneLess
    <2>4. g[V \ {x}] = h[V \ {x}] /\ g[V \ {x}] \in Int
      BY <1>2, <2>3
    <2>5. g[V] = Op(plus, F[x], g[V \ {x}]) /\ h[V] = Op(plus, F[x], h[V \ {x}])
      BY <2>1 DEF Solves
    <2> QED
      BY <2>2, <2>4, <2>5, OpFacts
  <1> HIDE DEF N
  <1>3. Nat \subseteq N
    BY <1>1, <1>2, NatSetInduction
  <1>4. Cardinality(U) \in N
    BY <1>3, FS_CardinalityType
  <1> QED
    BY <1>4 DEF N

\* The recursive function exists: that of a set is made from those of its
\* proper subsets.
LEMMA SolutionSolves ==
  ASSUME NEW plus \in BOOLEAN, NEW F, NEW D, IsFiniteSet(D), \A x \in D : F[x] \in Int
  PROVE  Solves(plus, F, D, Solution(plus, F, D))
  <1> DEFINE Solved(S) == Solves(plus, F, S, Solution(plus, F, S))
             N == {n \in Nat : \A S \in SUBSET D : Cardinality(S) < n => Solved(S)}
  <1>1. 0 \in N
    BY FS_Subset, FS_CardinalityType
  <1>2. ASSUME NEW n \in Nat, n \in N PROVE n + 1 \in N
    <2> SUFFICES ASSUME NEW S \in SUBSET D, Cardinality(S) < n + 1
                 PROVE  Solved(S)
      OBVIOUS
    <2>1. IsFiniteSet(S)
      BY FS_Subset
    <2>2. ASSUME NEW s \in SUBSET S, s # S PROVE Solved(s)
      <3>1. Cardinality(s) < Cardinality(S) /\ Cardinality(s) \in Nat /\ Cardinality(S) \in Nat
        BY <2>1, <2>2, FS_Subset, FS_CardinalityType
      <3> QED
        BY <1>2, <3>1
    <2> HIDE DEF N, Solved
    <2> DEFINE value(s) == Solution(plus, F, s)[s]
               g == [s \in SUBSET S |->
                       IF s = {} THEN Neutral(plus)
                       ELSE Op(plus, F[Pick(s)], value(s \ {Pick(s)}))]
    <2>3. ASSUME NEW s \in SUBSET S, s # S PROVE g[s] = value(s)
      <3>1. CASE s = {}
        BY <2>2, <2>3, <3>1 DEF Solved, Solves
      <3>2. CASE s # {}
        <4> DEFINE t == s \ {Pick(s)}
        <4>1. t \subseteq s /\ t \in SUBSET S /\ t # S /\ s \in SUBSET s
          BY <3>2, Picked
        <4>2. Solves(plus, F, s, Solution(plus, F, s)) /\ Solves(plus, F, t, Solution(plus, F, t))
          BY <2>2, <2>3, <4>1 DEF Solved
        <4>3. IsFiniteSet(t) /\ \A x \in t : F[x] \in Int
          BY <2>1, <4>1, FS_Subset
        <4>4. Solution(plus, F, s)[t] = value(t)
          BY <4>1, <4>2, <4>3, SolutionsAgree
        <4>5. value(s) = Op(plus, F[Pick(s)], Solution(plus, F, s)[t])
          BY <3>2, <4>1, <4>2 DEF Solves
        <4> QED
          BY <3>2, <4>4, <4>5
      <3> QED
        BY <3>1, <3>2
    <2>4. Solves(plus, F, S, g)
      <3>1. ASSUME NEW s \in SUBSET S, s # {}
            PROVE  s \ {Pick(s)} \in SUBSET S /\ s \ {Pick(s)} # S
        BY <3>1, Picked
      <3>2. ASSUME NEW s \in SUBSET S
            PROVE  g[s] = IF s = {} THEN Neutral(plus)
                          ELSE Op(plus, F[Pick(s)], g[s \ {Pick(s)}])
        BY <2>3, <3>1
      <3> HIDE DEF value
      <3>3. g = [s \in SUBSET S |-> g[s]]
        OBVIOUS
      <3> HIDE DEF g
      <3>4. [s \in SUBSET S |-> g[s]]
              = [s \in SUBSET S |-> IF s = {} THEN Neutral(plus)
                                    ELSE Op(plus, F[Pick(s)], g[s \ {Pick(s)}])]
        BY <3>2
      <3> QED
        BY <3>3, <3>4 DEF Solves
    <2> QED
      BY <2>4 DEF Solved, Solution
  <1> HIDE DEF N
  <1>3. Nat \subseteq N
    BY <1>1, <1>2, NatSetInduction
  <1>4. Cardinality(D) + 1 \in N /\ Cardinality(D) < Cardinality(D) + 1
    BY <1>3, FS_CardinalityType
  <1> QED
    BY <1>4 DEF N

-----------------------------------------------------------------------------
LEMMA FoldEmpty ==
  ASSUME NEW plus \in BOOLEAN, NEW F PROVE Fold(plus, F, {}) = Neutral(plus)
  <1>1. Solves(plus, F, {}, Solution(plus, F, {}))
    BY SolutionSolves, FS_EmptySet
  <1>2. {} \in SUBSET {}
    OBVIOUS
  <1> QED
    BY <1>1, <1>2 DEF Fold, Solves

LEMMA FoldType ==
  ASSUME NEW plus \in BOOLEAN, NEW F, NEW S, IsFiniteSet(S), \A x \in S : F[x] \in Int
  PROVE  Fold(plus, F, S) \in Int
  BY SolutionSolves, SolutionsAgree DEF Fold

LEMMA FoldPick ==
  ASSUME NEW plus \in BOOLEAN, NEW F, NEW S, IsFiniteSet(S), S # {}, \A x \in S : F[x] \in Int
  PROVE  Fold(plus, F, S) = Op(plus, F[Pick(S)], Fold(plus, F, S \ {Pick(S)}))
  <1> DEFINE T == S \ {Pick(S)}
  <1>1. T \subseteq S /\ IsFiniteSet(T) /\ \A x \in T : F[x] \in Int
    BY FS_Subset
  <1>2. Solves(plus, F, S, Solution(plus, F, S)) /\ Solves(plus, F, T, Solution(plus, F, T))
    BY <1>1, SolutionSolves
  <1>3. Solution(plus, F, S)[T] = Solution(plus, F, T)[T]
    BY <1>1, <1>2, SolutionsAgree
  <1>4. Solution(plus, F, S)[S] = Op(plus, F[Pick(S)], Solution(plus, F, S)[T])
    BY <1>2 DEF Solves
  <1> QED
    BY <1>3, <1>4 DEF Fold

\* Any element may be taken first.
LEMMA FoldRemove ==
  ASSUME NEW plus \in BOOLEAN, NEW F, NEW S, IsFiniteSet(S), \A x \in S : F[x] \in Int,
         NEW e \in S
  PROVE  Fold(plus, F, S) = Op(plus, F[e], Fold(plus, F, S \ {e}))
  <1> DEFINE N == {n \in Nat : \A V \in SUBSET S : \A x \in V :
                     Cardinality(V) = n => Fold(plus, F, V) = Op(plus, F[x], Fold(plus, F, V \ {x}))}
  <1>1. 0 \in N
    BY FS_Subset, FS_EmptySet
  <1>2. ASSUME NEW n \in Nat, n \in N PROVE n + 1 \in N
    <2> SUFFICES ASSUME NEW V \in SUBSET S, NEW x \in V, Cardinality(V) = n + 1
                 PROVE  Fold(plus, F, V) = Op(plus, F[x], Fold(plus, F, V \ {x}))
      OBVIOUS
    <2> DEFINE p == Pick(V)
    <2>1. p \in V /\ IsFiniteSet(V) /\ V # {}
      BY Picked, FS_Subset
    <2>2. Fold(plus, F, V) = Op(plus, F[p], Fold(plus, F, V \ {p}))
      BY <2>1, FoldPick
    <2>3. CASE x = p
      BY <2>2, <2>3
    <2>4. CASE x # p
      <3>1. Cardinality(V \ {x}) = n /\ Cardinality(V \ {p}) = n
        BY <2>1, OneLess
      <3>2. Fold(plus, F, V \ {p}) = Op(plus, F[x], Fold(plus, F, (V \ {p}) \ {x}))
        BY <1>2, <2>4, <3>1
      <3>3. Fold(plus, F, V \ {x}) = Op(plus, F[p], Fold(plus, F, (V \ {x}) \ {p}))
        BY <1>2, <2>1, <2>4, <3>1
      <3>4. (V \ {p}) \ {x} = (V \ {x}) \ {p} /\ IsFiniteSet((V \ {x}) \ {p})
        BY FS_Subset, <2>1
      <3>5. Fold(plus, F, (V \ {x}) \ {p}) \in Int
        BY <3>4, FoldType
      <3>6. F[x] \in Int /\ F[p] \in Int
        BY <2>1
      <3>7. Op(plus, F[p], Op(plus, F[x], Fold(plus, F, (V \ {x}) \ {p})))
              = Op(plus, F[x], Op(plus, F[p], Fold(plus, F, (V \ {x}) \ {p})))
        BY <3>5, <3>6, OpFacts
      <3> HIDE DEF N, p
      <3> QED
        BY <2>2, <3>2, <3>3, <3>4, <3>7, Zenon
    <2> QED
      BY <2>3, <2>4
  <1> HIDE DEF N
  <1>3. Nat \subseteq N
    BY <1>1, <1>2, NatSetInduction
  <1>4. Cardinality(S) \in N
    BY <1>3, FS_CardinalityType
  <1> QED
    BY <1>4 DEF N

\* Only the values on the set count.
LEMMA FoldSame ==
  ASSUME NEW plus \in BOOLEAN, NEW F, NEW G, NEW S, IsFiniteSet(S),
         \A x \in S : F[x] \in Int /\ G[x] = F[x]
  PROVE  Fold(plus, G, S) = Fold(plus, F, S)
  <1> DEFINE X == {V \in SUBSET S : Fold(plus, G, V) = Fold(plus, F, V)}
  <1>1. {} \in X
    BY FoldEmpty
  <1>2. ASSUME NEW V \in SUBSET S, NEW x \in S \ V, V \in X PROVE V \cup {x} \in X
    <2> DEFINE U == V \cup {x}
    <2>1. IsFiniteSet(U) /\ U \subseteq S /\ x \in U /\ U \ {x} = V
      BY FS_Subset
    <2>2. Fold(plus, G, U) = Op(plus, G[x], Fold(plus, G, U \ {x}))
      BY <2>1, FoldRemove
    <2>3. Fold(plus, F, U) = Op(plus, F[x], Fold(plus, F, U \ {x}))
      BY <2>1, FoldRemove
    <2> QED
      BY <1>2, <2>1, <2>2, <2>3
  <1> HIDE DEF X
  <1>3. S \in X
    BY <1>1, <1>2, FiniteSetInduction
  <1> QED
    BY <1>3 DEF X

LEMMA FoldUnion ==
  ASSUME NEW plus \in BOOLEAN, NEW F, NEW S, NEW T, IsFiniteSet(S), IsFiniteSet(T),
         S \cap T = {}, \A x \in S \cup T : F[x] \in Int
  PROVE  Fold(plus, F, S \cup T) = Op(plus, Fold(plus, F, S), Fold(plus, F, T))
  <1> DEFINE X == {V \in SUBSET S :
                     Fold(plus, F, V \cup T) = Op(plus, Fold(plus, F, V), Fold(plus, F, T))}
  <1>0. Fold(plus, F, T) \in Int
    BY FoldType
  <1>1. {} \in X
    <2>1. {} \cup T = T
      OBVIOUS
    <2> QED
      BY <1>0, <2>1, FoldEmpty, OpFacts
  <1>2. ASSUME NEW V \in SUBSET S, NEW x \in S \ V, V \in X PROVE V \cup {x} \in X
    <2> DEFINE U == V \cup {x}
    <2>1. IsFiniteSet(U) /\ U \subseteq S /\ x \in U /\ U \ {x} = V /\ IsFiniteSet(V)
      BY FS_Subset
    <2>2. IsFiniteSet(U \cup T) /\ x \in U \cup T /\ (U \cup T) \ {x} = V \cup T
      BY <2>1, FS_Union
    <2>3. Fold(plus, F, U) = Op(plus, F[x], Fold(plus, F, V))
      BY <2>1, FoldRemove
    <2>4. Fold(plus, F, U \cup T) = Op(plus, F[x], Fold(plus, F, V \cup T))
      BY <2>1, <2>2, FoldRemove
    <2>5. Fold(plus, F, V) \in Int /\ F[x] \in Int
      BY <2>1, FoldType
    <2>6. Op(plus, F[x], Op(plus, Fold(plus, F, V), Fold(plus, F, T)))
            = Op(plus, Op(plus, F[x], Fold(plus, F, V)), Fold(plus, F, T))
      BY <1>0, <2>5, OpFacts
    <2> QED
      BY <1>2, <2>1, <2>3, <2>4, <2>6
  <1> HIDE DEF X
  <1>3. S \in X
    BY <1>1, <1>2, FiniteSetInduction
  <1> QED
    BY <1>3 DEF X

\* The elements may be renamed.
LEMMA FoldImage ==
  ASSUME NEW plus \in BOOLEAN, NEW F, NEW G, NEW b, NEW S, IsFiniteSet(S), NEW T,
         \A x \in S : b[x] \in T, \A z \in T : \E x \in S : b[x] = z,
         \A x, y \in S : b[x] = b[y] => x = y,
         \A x \in S : F[b[x]] \in Int /\ G[x] = F[b[x]]
  PROVE  IsFiniteSet(T) /\ Fold(plus, G, S) = Fold(plus, F, T)
  <1> DEFINE Image(V) == {b[x] : x \in V}
             X == {V \in SUBSET S : IsFiniteSet(Image(V)) /\ Fold(plus, G, V) = Fold(plus, F, Image(V))}
  <1>1. {} \in X
    <2>1. Image({}) = {}
      OBVIOUS
    <2> QED
      BY <2>1, FoldEmpty, FS_EmptySet
  <1>2. ASSUME NEW V \in SUBSET S, NEW x \in S \ V, V \in X PROVE V \cup {x} \in X
    <2> DEFINE U == V \cup {x}
    <2>1. IsFiniteSet(U) /\ U \subseteq S /\ x \in U /\ U \ {x} = V
      BY FS_Subset
    <2>2. Image(U) = Image(V) \cup {b[x]} /\ b[x] \notin Image(V)
      OBVIOUS
    <2>3. IsFiniteSet(Image(V)) /\ Fold(plus, G, V) = Fold(plus, F, Image(V))
      BY <1>2
    <2>4. \A z \in Image(U) : F[z] \in Int
      BY <2>1
    <2> HIDE DEF X, U, Image
    <2>5. IsFiniteSet(Image(V) \cup {b[x]})
      BY <2>3, FS_AddElement
    <2>6. IsFiniteSet(Image(U)) /\ b[x] \in Image(U) /\ Image(U) \ {b[x]} = Image(V)
      BY <2>2, <2>5
    <2>7. Fold(plus, G, U) = Op(plus, G[x], Fold(plus, G, V))
      BY <2>1, FoldRemove
    <2>8. Fold(plus, F, Image(U)) = Op(plus, F[b[x]], Fold(plus, F, Image(V)))
      BY <2>4, <2>6, FoldRemove
    <2> QED
      BY <2>1, <2>3, <2>6, <2>7, <2>8 DEF X, U
  <1> HIDE DEF X
  <1>3. S \in X
    BY <1>1, <1>2, FiniteSetInduction
  <1>4. Image(S) = T
    OBVIOUS
  <1> QED
    BY <1>3, <1>4 DEF X

-----------------------------------------------------------------------------
(* Sums of functions *)

LEMMA OnEmpty == ASSUME NEW F PROVE SumFunctionOnSet(F, {}) = 0
  <1> DEFINE plus == TRUE
  <1>1. plus \in BOOLEAN /\ Neutral(plus) = 0 /\ SumFunctionOnSet(F, {}) = Fold(plus, F, {})
    BY SumIsFold DEF Neutral
  <1> HIDE DEF plus
  <1> QED
    BY <1>1, FoldEmpty

LEMMA OnType ==
  ASSUME NEW F, NEW S, IsFiniteSet(S), \A x \in S : F[x] \in Int
  PROVE  SumFunctionOnSet(F, S) \in Int
  <1> DEFINE plus == TRUE
  <1>1. plus \in BOOLEAN /\ SumFunctionOnSet(F, S) = Fold(plus, F, S)
    BY SumIsFold
  <1> HIDE DEF plus
  <1> QED
    BY <1>1, FoldType

LEMMA OnRemove ==
  ASSUME NEW F, NEW S, IsFiniteSet(S), \A x \in S : F[x] \in Int, NEW e \in S
  PROVE  SumFunctionOnSet(F, S) = F[e] + SumFunctionOnSet(F, S \ {e})
  <1> DEFINE plus == TRUE
  <1>1. /\ plus \in BOOLEAN /\ \A x, y : Op(plus, x, y) = x + y
        /\ SumFunctionOnSet(F, S) = Fold(plus, F, S)
        /\ SumFunctionOnSet(F, S \ {e}) = Fold(plus, F, S \ {e})
    BY SumIsFold DEF Op
  <1> HIDE DEF plus
  <1>2. Fold(plus, F, S) = Op(plus, F[e], Fold(plus, F, S \ {e}))
    BY <1>1, FoldRemove
  <1> QED
    BY <1>1, <1>2, Zenon

LEMMA OnSame ==
  ASSUME NEW F, NEW G, NEW S, IsFiniteSet(S), \A x \in S : F[x] \in Int /\ G[x] = F[x]
  PROVE  SumFunctionOnSet(G, S) = SumFunctionOnSet(F, S)
  <1> DEFINE plus == TRUE
  <1>1. /\ plus \in BOOLEAN
        /\ SumFunctionOnSet(F, S) = Fold(plus, F, S) /\ SumFunctionOnSet(G, S) = Fold(plus, G, S)
    BY SumIsFold
  <1> HIDE DEF plus
  <1> QED
    BY <1>1, FoldSame

LEMMA OnUnion ==
  ASSUME NEW F, NEW S, NEW T, IsFiniteSet(S), IsFiniteSet(T), S \cap T = {},
         \A x \in S \cup T : F[x] \in Int
  PROVE  SumFunctionOnSet(F, S \cup T) = SumFunctionOnSet(F, S) + SumFunctionOnSet(F, T)
  <1> DEFINE plus == TRUE
  <1>1. /\ plus \in BOOLEAN /\ \A x, y : Op(plus, x, y) = x + y
        /\ \A V : SumFunctionOnSet(F, V) = Fold(plus, F, V)
    BY SumIsFold DEF Op
  <1> HIDE DEF plus
  <1>2. Fold(plus, F, S \cup T) = Op(plus, Fold(plus, F, S), Fold(plus, F, T))
    BY <1>1, FoldUnion
  <1> QED
    BY <1>1, <1>2, Zenon

LEMMA OnImage ==
  ASSUME NEW F, NEW G, NEW b, NEW S, IsFiniteSet(S), NEW T,
         \A x \in S : b[x] \in T, \A z \in T : \E x \in S : b[x] = z,
         \A x, y \in S : b[x] = b[y] => x = y,
         \A x \in S : F[b[x]] \in Int /\ G[x] = F[b[x]]
  PROVE  IsFiniteSet(T) /\ SumFunctionOnSet(G, S) = SumFunctionOnSet(F, T)
  <1> DEFINE plus == TRUE
  <1>1. /\ plus \in BOOLEAN
        /\ SumFunctionOnSet(F, T) = Fold(plus, F, T) /\ SumFunctionOnSet(G, S) = Fold(plus, G, S)
    BY SumIsFold
  <1> HIDE DEF plus
  <1>2. IsFiniteSet(T) /\ Fold(plus, G, S) = Fold(plus, F, T)
    BY <1>1, FoldImage
  <1> QED
    BY <1>1, <1>2

LEMMA SumOf == ASSUME NEW f PROVE SumFunction(f) = SumFunctionOnSet(f, DOMAIN f)
  BY DEF SumFunction

LEMMA SumType ==
  ASSUME NEW D, IsFiniteSet(D), NEW f \in [D -> Int]
  PROVE  SumFunction(f) \in Int
  BY SumOf, OnType

LEMMA SumEmpty == ASSUME NEW f, DOMAIN f = {} PROVE SumFunction(f) = 0
  BY SumOf, OnEmpty

LEMMA SumTake ==
  ASSUME NEW D, IsFiniteSet(D), NEW f \in [D -> Int], NEW x \in D,
         NEW g \in [D \ {x} -> Int], \A y \in D \ {x} : g[y] = f[y]
  PROVE  SumFunction(f) = f[x] + SumFunction(g)
  <1>1. IsFiniteSet(D \ {x})
    BY FS_RemoveElement
  <1>2. SumFunctionOnSet(g, D \ {x}) = SumFunctionOnSet(f, D \ {x})
    BY <1>1, OnSame
  <1>3. SumFunctionOnSet(f, D) = f[x] + SumFunctionOnSet(f, D \ {x})
    BY OnRemove
  <1>4. DOMAIN f = D /\ DOMAIN g = D \ {x}
    OBVIOUS
  <1> QED
    BY <1>2, <1>3, <1>4, SumOf

LEMMA SumAdd ==
  ASSUME NEW D, IsFiniteSet(D), NEW f \in [D -> Int], NEW g \in [D -> Int], NEW h \in [D -> Int],
         \A x \in D : h[x] = f[x] + g[x]
  PROVE  SumFunction(h) = SumFunction(f) + SumFunction(g)
  <1> DEFINE X == {V \in SUBSET D :
                     SumFunctionOnSet(h, V) = SumFunctionOnSet(f, V) + SumFunctionOnSet(g, V)}
  <1>1. {} \in X
    BY OnEmpty
  <1>2. ASSUME NEW V \in SUBSET D, NEW x \in D \ V, V \in X PROVE V \cup {x} \in X
    <2> DEFINE U == V \cup {x}
    <2>1. IsFiniteSet(U) /\ U \subseteq D /\ x \in U /\ U \ {x} = V /\ IsFiniteSet(V)
      BY FS_Subset
    <2>2. /\ SumFunctionOnSet(h, U) = h[x] + SumFunctionOnSet(h, V)
          /\ SumFunctionOnSet(f, U) = f[x] + SumFunctionOnSet(f, V)
          /\ SumFunctionOnSet(g, U) = g[x] + SumFunctionOnSet(g, V)
      BY <2>1, OnRemove
    <2>3. SumFunctionOnSet(f, V) \in Int /\ SumFunctionOnSet(g, V) \in Int
      BY <2>1, OnType
    <2>4. SumFunctionOnSet(h, U) = SumFunctionOnSet(f, U) + SumFunctionOnSet(g, U)
      BY <1>2, <2>2, <2>3
    <2> QED
      BY <2>1, <2>4
  <1> HIDE DEF X
  <1>3. D \in X
    BY <1>1, <1>2, FiniteSetInduction
  <1>4. DOMAIN h = D /\ DOMAIN f = D /\ DOMAIN g = D
    OBVIOUS
  <1> QED
    BY <1>3, <1>4, SumOf DEF X

LEMMA SumScale ==
  ASSUME NEW D, IsFiniteSet(D), NEW f \in [D -> Int], NEW c \in Int, NEW h \in [D -> Int],
         \A x \in D : h[x] = c * f[x]
  PROVE  SumFunction(h) = c * SumFunction(f)
  <1> DEFINE X == {V \in SUBSET D : SumFunctionOnSet(h, V) = c * SumFunctionOnSet(f, V)}
  <1>1. {} \in X
    BY OnEmpty
  <1>2. ASSUME NEW V \in SUBSET D, NEW x \in D \ V, V \in X PROVE V \cup {x} \in X
    <2> DEFINE U == V \cup {x}
    <2>1. IsFiniteSet(U) /\ U \subseteq D /\ x \in U /\ U \ {x} = V /\ IsFiniteSet(V)
      BY FS_Subset
    <2>2. /\ SumFunctionOnSet(h, U) = c * f[x] + SumFunctionOnSet(h, V)
          /\ SumFunctionOnSet(f, U) = f[x] + SumFunctionOnSet(f, V)
      BY <2>1, OnRemove
    <2>3. SumFunctionOnSet(f, V) \in Int /\ f[x] \in Int
      BY <2>1, OnType
    <2>4. SumFunctionOnSet(h, V) = c * SumFunctionOnSet(f, V)
      BY <1>2
    <2>5. c * (f[x] + SumFunctionOnSet(f, V)) = c * f[x] + c * SumFunctionOnSet(f, V)
      BY <2>3
    <2> QED
      BY <2>1, <2>2, <2>4, <2>5
  <1> HIDE DEF X
  <1>3. D \in X
    BY <1>1, <1>2, FiniteSetInduction
  <1>4. DOMAIN h = D /\ DOMAIN f = D
    OBVIOUS
  <1> QED
    BY <1>3, <1>4, SumOf DEF X

LEMMA SumZero ==
  ASSUME NEW D, IsFiniteSet(D), NEW f \in [D -> Int], \A x \in D : f[x] = 0
  PROVE  SumFunction(f) = 0
  <1>1. \A x \in D : f[x] = 0 * f[x]
    OBVIOUS
  <1>2. SumFunction(f) = 0 * SumFunction(f) /\ SumFunction(f) \in Int
    BY <1>1, SumScale, SumType
  <1> QED
    BY <1>2

LEMMA BijectionIs ==
  ASSUME NEW S, NEW T, NEW b
  PROVE  b \in Bijection(S, T) <=> /\ b \in [S -> T]
                                   /\ \A x, y \in S : b[x] = b[y] => x = y
                                   /\ \A z \in T : \E x \in S : b[x] = z
  BY DEF Bijection, Injection, Surjection, IsInjective

\* The elements may be renamed.
LEMMA SumRename ==
  ASSUME NEW D, IsFiniteSet(D), NEW E, NEW b \in [D -> E], b \in Bijection(D, E),
         NEW f \in [E -> Int],
         NEW g \in [D -> Int], \A x \in D : g[x] = f[b[x]]
  PROVE  IsFiniteSet(E) /\ SumFunction(f) = SumFunction(g)
  <1>0. /\ b \in [D -> E] /\ \A x, y \in D : b[x] = b[y] => x = y
        /\ \A z \in E : \E x \in D : b[x] = z
    BY BijectionIs
  <1>1. \A x \in D : f[b[x]] \in Int /\ b[x] \in E
    BY <1>0
  <1>2. IsFiniteSet(E) /\ SumFunctionOnSet(g, D) = SumFunctionOnSet(f, E)
    BY <1>0, <1>1, OnImage
  <1>3. DOMAIN g = D /\ DOMAIN f = E
    OBVIOUS
  <1> QED
    BY <1>2, <1>3, SumOf

LEMMA SumUnion ==
  ASSUME NEW S, IsFiniteSet(S), NEW T, IsFiniteSet(T), S \cap T = {}, NEW f \in [S \cup T -> Int],
         NEW g \in [S -> Int], \A x \in S : g[x] = f[x],
         NEW h \in [T -> Int], \A x \in T : h[x] = f[x]
  PROVE  SumFunction(f) = SumFunction(g) + SumFunction(h)
  <1>1. SumFunctionOnSet(f, S \cup T) = SumFunctionOnSet(f, S) + SumFunctionOnSet(f, T)
    BY OnUnion
  <1>2. SumFunctionOnSet(g, S) = SumFunctionOnSet(f, S) /\ SumFunctionOnSet(h, T) = SumFunctionOnSet(f, T)
    BY OnSame
  <1>3. DOMAIN f = S \cup T /\ DOMAIN g = S /\ DOMAIN h = T
    OBVIOUS
  <1> QED
    BY <1>1, <1>2, <1>3, SumOf

\* pair gives each element of D two coordinates, as <<x, y>> or Append(x, y) do.
IsPairing(A, B, D, pair) ==
  /\ pair \in [A -> [B -> D]]
  /\ \A d \in D : \E x \in A, y \in B : d = pair[x][y]
  /\ \A x, u \in A, y, v \in B : pair[x][y] = pair[u][v] => x = u /\ y = v

\* row is f, laid out in rows, and h the sums of these.
ByRows(A, B, D, pair, f, row, h) ==
  /\ pair \in [A -> [B -> D]] /\ f \in [D -> Int]
  /\ row \in [A -> [B -> Int]] /\ \A x \in A, y \in B : row[x][y] = f[pair[x][y]]
  /\ h \in [A -> Int] /\ \A x \in A : h[x] = SumFunction(row[x])

\* A sum over pairs, row by row.
LEMMA SumPairs ==
  ASSUME NEW A, IsFiniteSet(A), NEW B, IsFiniteSet(B), NEW D, NEW pair, IsPairing(A, B, D, pair),
         NEW f, NEW row, NEW h, ByRows(A, B, D, pair, f, row, h)
  PROVE  IsFiniteSet(D) /\ SumFunction(f) = SumFunction(h)
  <1> DEFINE Im(V) == {d \in D : \E x \in V, y \in B : d = pair[x][y]}
             X == {V \in SUBSET A : /\ IsFiniteSet(Im(V))
                                    /\ SumFunctionOnSet(f, Im(V)) = SumFunctionOnSet(h, V)}
  <1>0. /\ pair \in [A -> [B -> D]] /\ f \in [D -> Int]
        /\ \A d \in D : \E x \in A, y \in B : d = pair[x][y]
        /\ \A x, u \in A, y, v \in B : pair[x][y] = pair[u][v] => x = u /\ y = v
    BY DEF IsPairing, ByRows
  <1>00. /\ row \in [A -> [B -> Int]] /\ \A x \in A, y \in B : row[x][y] = f[pair[x][y]]
         /\ h \in [A -> Int] /\ \A x \in A : h[x] = SumFunction(row[x])
    BY DEF ByRows
  <1>1. {} \in X
    <2>1. Im({}) = {}
      OBVIOUS
    <2> QED
      BY <2>1, OnEmpty, FS_EmptySet
  <1>2. ASSUME NEW V \in SUBSET A, NEW x \in A \ V, V \in X PROVE V \cup {x} \in X
    <2> DEFINE U == V \cup {x}
               b == pair[x]
               R == {d \in D : \E y \in B : d = b[y]}
               g == row[x]
               fr == [r \in R |-> f[r]]
    <2>1. IsFiniteSet(U) /\ U \subseteq A /\ x \in U /\ U \ {x} = V /\ IsFiniteSet(V) /\ x \in A
      BY FS_Subset
    <2>2. SumFunctionOnSet(h, U) = h[x] + SumFunctionOnSet(h, V)
      <3>1. \A y \in U : h[y] \in Int
        BY <1>00, <2>1
      <3> HIDE DEF X, U
      <3>2. SumFunctionOnSet(h, U) = h[x] + SumFunctionOnSet(h, U \ {x})
        BY <2>1, <3>1, OnRemove
      <3> QED
        BY <2>1, <3>2
    <2>3. /\ b \in [B -> D] /\ b \in [B -> R] /\ \A y, z \in B : b[y] = b[z] => y = z
          /\ \A r \in R : \E y \in B : b[y] = r
      BY <1>0
    <2>4. \A y \in B : g[y] = fr[b[y]]
      BY <1>0, <1>00, <2>3
    <2>5. /\ g \in [B -> Int] /\ fr \in [R -> Int] /\ DOMAIN fr = R /\ h[x] = SumFunction(g)
          /\ \A r \in R : f[r] \in Int /\ fr[r] = f[r]
      BY <1>0, <1>00
    <2>0. IsFiniteSet(B)
      OBVIOUS
    <2>6. b \in Bijection(B, R)
      <3> HIDE DEF b, R
      <3> QED
        BY <2>3, BijectionIs
    <2>7. IsFiniteSet(R) /\ SumFunction(fr) = SumFunction(g)
      <3> HIDE DEF b, R, g, fr, X, U
      <3> QED
        BY ONLY <2>0, <2>3, <2>4, <2>5, <2>6, SumRename
    <2>8. h[x] = SumFunctionOnSet(f, R)
      <3> HIDE DEF R, g, fr, X, U
      <3>1. SumFunctionOnSet(fr, R) = SumFunctionOnSet(f, R)
        BY <2>5, <2>7, OnSame
      <3> QED
        BY <2>5, <2>7, <3>1, SumOf
    <2>9. /\ Im(U) = R \cup Im(V) /\ R \cap Im(V) = {}
          /\ \A z \in R \cup Im(V) : f[z] \in Int
      <3>1. Im(U) = R \cup Im(V)
        OBVIOUS
      <3>3. \A z \in R \cup Im(V) : f[z] \in Int
        BY <1>0
      <3>2. R \cap Im(V) = {}
        <4> SUFFICES ASSUME NEW d \in R, d \in Im(V) PROVE FALSE
          OBVIOUS
        <4>1. PICK y \in B : d = pair[x][y]
          OBVIOUS
        <4>2. PICK u \in V, v \in B : d = pair[u][v]
          OBVIOUS
        <4> QED
          BY <1>0, <2>1, <4>1, <4>2
      <3> QED
        BY <3>1, <3>2, <3>3
    <2>14. IsFiniteSet(Im(V)) /\ SumFunctionOnSet(f, Im(V)) = SumFunctionOnSet(h, V)
      BY <1>2
    <2> HIDE DEF R, Im, U, X, g, fr, b
    <2>10. SumFunctionOnSet(f, Im(U)) = SumFunctionOnSet(f, R) + SumFunctionOnSet(f, Im(V))
      BY <2>7, <2>9, <2>14, OnUnion
    <2>11. IsFiniteSet(Im(U))
      <3>1. IsFiniteSet(R \cup Im(V))
        BY <2>7, <2>14, FS_Union
      <3> QED
        BY <2>9, <3>1
    <2> QED
      BY <1>2, <2>1, <2>2, <2>8, <2>10, <2>14, <2>11 DEF U, X
  <1>3. Im(A) = D
    BY <1>0
  <1> HIDE DEF X
  <1>4. A \in X
    BY <1>1, <1>2, FiniteSetInduction
  <1>5. DOMAIN h = A /\ DOMAIN f = D
    BY <1>0, <1>00
  <1> HIDE DEF Im
  <1> QED
    BY <1>3, <1>4, <1>5, SumOf DEF X

LEMMA PairsFinite ==
  ASSUME NEW A, IsFiniteSet(A), NEW B, IsFiniteSet(B), NEW D, NEW pair, IsPairing(A, B, D, pair)
  PROVE  IsFiniteSet(D)
  <1> DEFINE f == [d \in D |-> 0]
             row == [x \in A |-> [y \in B |-> 0]]
             h == [x \in A |-> SumFunction(row[x])]
  <1>1. pair \in [A -> [B -> D]]
    BY DEF IsPairing
  <1>2. /\ f \in [D -> Int] /\ row \in [A -> [B -> Int]]
        /\ \A x \in A, y \in B : row[x][y] = f[pair[x][y]]
    BY <1>1
  <1>3. \A x \in A : SumFunction(row[x]) \in Int
    <2> SUFFICES ASSUME NEW x \in A PROVE SumFunction(row[x]) \in Int
      OBVIOUS
    <2> DEFINE r == row[x]
    <2>1. r \in [B -> Int]
      OBVIOUS
    <2> HIDE DEF r
    <2>2. SumFunction(r) \in Int
      BY <2>1, SumType
    <2> QED
      BY <2>2 DEF r
  <1>4. h \in [A -> Int] /\ \A x \in A : h[x] = SumFunction(row[x])
    <2> HIDE DEF row
    <2> QED
      BY <1>3
  <1> HIDE DEF f, row, h
  <1>5. ByRows(A, B, D, pair, f, row, h)
    BY <1>1, <1>2, <1>4 DEF ByRows
  <1> QED
    BY <1>5, SumPairs

\* Every other order of the two coordinates gives the same sum.
BothWays(A, B, row, h, col, k) ==
  /\ row \in [A -> [B -> Int]] /\ h \in [A -> Int] /\ \A x \in A : h[x] = SumFunction(row[x])
  /\ col \in [B -> [A -> Int]] /\ k \in [B -> Int] /\ \A y \in B : k[y] = SumFunction(col[y])
  /\ \A x \in A, y \in B : row[x][y] = col[y][x]

LEMMA SumSwap ==
  ASSUME NEW A, IsFiniteSet(A), NEW B, IsFiniteSet(B),
         NEW row, NEW h, NEW col, NEW k, BothWays(A, B, row, h, col, k)
  PROVE  SumFunction(h) = SumFunction(k)
  <1> DEFINE D == A \X B
             f == [d \in D |-> row[d[1]][d[2]]]
             p == [x \in A |-> [y \in B |-> <<x, y>>]]
             q == [y \in B |-> [x \in A |-> <<x, y>>]]
  <1>0. /\ row \in [A -> [B -> Int]] /\ h \in [A -> Int] /\ \A x \in A : h[x] = SumFunction(row[x])
        /\ col \in [B -> [A -> Int]] /\ k \in [B -> Int] /\ \A y \in B : k[y] = SumFunction(col[y])
        /\ \A x \in A, y \in B : row[x][y] = col[y][x]
    BY DEF BothWays
  <1>1. /\ p \in [A -> [B -> D]] /\ q \in [B -> [A -> D]] /\ f \in [D -> Int]
    BY <1>0
  <1>2. /\ \A d \in D : \E x \in A, y \in B : d = p[x][y]
        /\ \A d \in D : \E y \in B, x \in A : d = q[y][x]
    <2> SUFFICES ASSUME NEW d \in D
                 PROVE  \E x \in A, y \in B : d = p[x][y] /\ d = q[y][x]
      OBVIOUS
    <2>1. d[1] \in A /\ d[2] \in B /\ d = <<d[1], d[2]>>
      OBVIOUS
    <2> QED
      BY <2>1
  <1>3. /\ \A x, u \in A, y, v \in B : p[x][y] = p[u][v] => x = u /\ y = v
        /\ \A y, v \in B, x, u \in A : q[y][x] = q[v][u] => y = v /\ x = u
    OBVIOUS
  <1>4. /\ \A x \in A, y \in B : row[x][y] = f[p[x][y]]
        /\ \A y \in B, x \in A : col[y][x] = f[q[y][x]]
    BY <1>0
  <1> HIDE DEF f, p, q, D
  <1>5. IsPairing(A, B, D, p) /\ IsPairing(B, A, D, q)
    BY ONLY <1>1, <1>2, <1>3 DEF IsPairing
  <1>6. ByRows(A, B, D, p, f, row, h) /\ ByRows(B, A, D, q, f, col, k)
    BY <1>0, <1>1, <1>4 DEF ByRows
  <1>7. SumFunction(f) = SumFunction(h) /\ SumFunction(f) = SumFunction(k)
    BY <1>5, <1>6, SumPairs
  <1> QED
    BY <1>7

LEMMA SumLinear ==
  ASSUME NEW D, IsFiniteSet(D), NEW f \in [D -> Int], NEW g \in [D -> Int],
         NEW c \in Int, NEW d \in Int,
         NEW h \in [D -> Int], \A x \in D : h[x] = c * f[x] + d * g[x]
  PROVE  SumFunction(h) = c * SumFunction(f) + d * SumFunction(g)
  <1> DEFINE cf == [x \in D |-> c * f[x]]
             dg == [x \in D |-> d * g[x]]
  <1>1. cf \in [D -> Int] /\ dg \in [D -> Int] /\ \A x \in D : h[x] = cf[x] + dg[x]
    OBVIOUS
  <1>2. (\A x \in D : cf[x] = c * f[x]) /\ (\A x \in D : dg[x] = d * g[x])
    OBVIOUS
  <1> HIDE DEF cf, dg
  <1>3. SumFunction(h) = SumFunction(cf) + SumFunction(dg)
    BY <1>1, SumAdd
  <1>4. SumFunction(cf) = c * SumFunction(f)
    <2>1. cf \in [D -> Int] /\ (\A x \in D : cf[x] = c * f[x]) /\ f \in [D -> Int] /\ c \in Int
      BY <1>1, <1>2
    <2> QED
      BY ONLY <2>1, IsFiniteSet(D), SumScale
  <1>5. SumFunction(dg) = d * SumFunction(g)
    <2>1. dg \in [D -> Int] /\ (\A x \in D : dg[x] = d * g[x]) /\ g \in [D -> Int] /\ d \in Int
      BY <1>1, <1>2
    <2> QED
      BY ONLY <2>1, IsFiniteSet(D), SumScale
  <1> QED
    BY <1>3, <1>4, <1>5

\* All but one of the terms are zero.
LEMMA SumSingle ==
  ASSUME NEW D, IsFiniteSet(D), NEW f \in [D -> Int], NEW e \in D,
         \A x \in D \ {e} : f[x] = 0
  PROVE  SumFunction(f) = f[e]
  <1> DEFINE g == [x \in D \ {e} |-> 0]
             E == D \ {e}
  <1>1. IsFiniteSet(E)
    BY FS_RemoveElement
  <1>2. g \in [E -> Int] /\ g \in [D \ {e} -> Int] /\ (\A x \in E : g[x] = 0) /\ (\A y \in D \ {e} : g[y] = f[y])
    OBVIOUS
  <1> HIDE DEF g, E
  <1>3. SumFunction(g) = 0
    BY <1>1, <1>2, SumZero
  <1>4. SumFunction(f) = f[e] + SumFunction(g)
    BY <1>2, SumTake
  <1> QED
    BY <1>3, <1>4

LEMMA SumSame ==
  ASSUME NEW D, IsFiniteSet(D), NEW f \in [D -> Int], NEW g \in [D -> Int],
         \A x \in D : g[x] = f[x]
  PROVE  SumFunction(g) = SumFunction(f)
  BY SumOf, OnSame

-----------------------------------------------------------------------------
(* Products *)

LEMMA ProductIs == ASSUME NEW f PROVE ProductOf(f) = Fold(FALSE, f, DOMAIN f)
  BY ProductIsFold DEF ProductOf

LEMMA ProductType ==
  ASSUME NEW D, IsFiniteSet(D), NEW f \in [D -> Int] PROVE ProductOf(f) \in Int
  <1> DEFINE plus == FALSE
  <1>1. plus \in BOOLEAN /\ ProductOf(f) = Fold(plus, f, D)
    BY ProductIs
  <1> HIDE DEF plus
  <1> QED
    BY <1>1, FoldType

LEMMA ProductEmpty == ASSUME NEW f, DOMAIN f = {} PROVE ProductOf(f) = 1
  <1> DEFINE plus == FALSE
  <1>1. plus \in BOOLEAN /\ ProductOf(f) = Fold(plus, f, {}) /\ Neutral(plus) = 1
    BY ProductIs DEF Neutral
  <1> HIDE DEF plus
  <1> QED
    BY <1>1, FoldEmpty

LEMMA ProductTake ==
  ASSUME NEW D, IsFiniteSet(D), NEW f \in [D -> Int], NEW x \in D,
         NEW E, E = D \ {x}, NEW g \in [E -> Int], \A y \in E : g[y] = f[y]
  PROVE  ProductOf(f) = f[x] * ProductOf(g)
  <1> DEFINE plus == FALSE
  <1>1. /\ plus \in BOOLEAN
        /\ ProductOf(f) = Fold(plus, f, D) /\ ProductOf(g) = Fold(plus, g, E)
        /\ \A m, n : Op(plus, m, n) = m * n
    BY ProductIs DEF Op
  <1>2. IsFiniteSet(E) /\ \A y \in D : f[y] \in Int
    BY FS_RemoveElement
  <1> HIDE DEF plus
  <1>3. Fold(plus, f, D) = Op(plus, f[x], Fold(plus, f, E))
    BY <1>1, <1>2, FoldRemove
  <1>4. Fold(plus, g, E) = Fold(plus, f, E)
    BY <1>1, <1>2, FoldSame
  <1> QED
    BY <1>1, <1>3, <1>4

LEMMA ProductSame ==
  ASSUME NEW D, IsFiniteSet(D), NEW f \in [D -> Int], NEW g, g = f
  PROVE  ProductOf(g) = ProductOf(f)
  OBVIOUS

\* The factors in another order, or numbered otherwise.
LEMMA ProductRename ==
  ASSUME NEW D, IsFiniteSet(D), NEW E, NEW b \in [D -> E], b \in Bijection(D, E),
         NEW f \in [E -> Int], NEW g \in [D -> Int], \A x \in D : g[x] = f[b[x]]
  PROVE  ProductOf(f) = ProductOf(g)
  <1> DEFINE plus == FALSE
  <1>1. plus \in BOOLEAN /\ ProductOf(f) = Fold(plus, f, E) /\ ProductOf(g) = Fold(plus, g, D)
    BY ProductIs
  <1>2. /\ \A x, y \in D : b[x] = b[y] => x = y
        /\ \A z \in E : \E x \in D : b[x] = z
    BY BijectionIs
  <1>3. /\ \A x \in D : b[x] \in E
        /\ \A x \in D : f[b[x]] \in Int /\ g[x] = f[b[x]]
    OBVIOUS
  <1> HIDE DEF plus
  <1> QED
    BY <1>1, <1>2, <1>3, FoldImage

-----------------------------------------------------------------------------
(* Powers *)

LEMMA PowerZero == ASSUME NEW x \in Int PROVE Power(x, 0) = 1
  <1> DEFINE f == [k \in 1..0 |-> x]
  <1>1. DOMAIN f = {}
    OBVIOUS
  <1> QED
    BY <1>1, ProductEmpty DEF Power

LEMMA PowerNext ==
  ASSUME NEW x \in Int, NEW n \in Nat
  PROVE  Power(x, n) \in Int /\ Power(x, n + 1) = x * Power(x, n)
  <1> DEFINE D == 1..(n + 1)
             E == 1..n
             f == [k \in D |-> x]
             g == [k \in E |-> x]
  <1>0. IsFiniteSet(1..(n + 1)) /\ IsFiniteSet(1..n)
    BY FS_Interval
  <1>1. /\ IsFiniteSet(D) /\ IsFiniteSet(E) /\ E = D \ {n + 1} /\ n + 1 \in D
        /\ f \in [D -> Int] /\ g \in [E -> Int] /\ f[n + 1] = x /\ \A y \in E : g[y] = f[y]
    BY <1>0
  <1>2. Power(x, n + 1) = ProductOf(f) /\ Power(x, n) = ProductOf(g)
    BY DEF Power
  <1> HIDE DEF D, E, f, g
  <1>3. ProductOf(f) = f[n + 1] * ProductOf(g)
    BY <1>1, ProductTake
  <1>4. ProductOf(g) \in Int
    BY <1>1, ProductType
  <1> QED
    BY <1>1, <1>2, <1>3, <1>4

LEMMA PowerPositive ==
  ASSUME NEW x \in Nat \ {0} PROVE \A n \in Nat : Power(x, n) \in Nat \ {0}
  <1> DEFINE X == {n \in Nat : Power(x, n) \in Nat \ {0}}
  <1>1. 0 \in X
    BY PowerZero
  <1>2. ASSUME NEW n \in Nat, n \in X PROVE n + 1 \in X
    <2>1. Power(x, n) \in Nat \ {0} /\ Power(x, n + 1) = x * Power(x, n)
      BY <1>2, PowerNext
    <2>2. \A p, q \in Nat \ {0} : p * q \in Nat \ {0}
      OBVIOUS
    <2> QED
      BY <2>1, <2>2
  <1> HIDE DEF X
  <1>3. Nat \subseteq X
    BY <1>1, <1>2, NatSetInduction
  <1> QED
    BY <1>3 DEF X

-----------------------------------------------------------------------------
(* Histories *)

History(n) == [1..n -> Bit]

LEMMA Appending ==
  ASSUME NEW n \in Nat, NEW h \in History(n), NEW x \in Bit
  PROVE  /\ Len(h) = n /\ Append(h, x) \in History(n + 1)
         /\ Append(h, x)[n + 1] = x /\ \A i \in 1..n : Append(h, x)[i] = h[i]
  <1>1. h \in Seq(Bit) /\ Len(h) = n
    <2>1. h \in [1..n -> Bit]
      BY DEF History
    <2>2. h \in Seq(Bit)
      BY <2>1
    <2> QED
      BY <2>1, <2>2, LenProperties
  <1>2. /\ Append(h, x) \in Seq(Bit) /\ Len(Append(h, x)) = n + 1
        /\ \A i \in 1..n : Append(h, x)[i] = h[i]
        /\ Append(h, x)[n + 1] = x
    BY <1>1, AppendProperties
  <1>3. Append(h, x) \in [1..(n + 1) -> Bit]
    BY <1>2, LenProperties
  <1> QED
    BY <1>1, <1>2, <1>3 DEF History

LEMMA SameHistory ==
  ASSUME NEW n \in Nat, NEW a \in History(n), NEW b \in History(n), \A i \in 1..n : a[i] = b[i]
  PROVE  a = b
  BY DEF History

\* A longer history is a history and a last action.
LastPairing(n) == [h \in History(n) |-> [x \in Bit |-> Append(h, x)]]

LEMMA LastIsPairing ==
  ASSUME NEW n \in Nat PROVE IsPairing(History(n), Bit, History(n + 1), LastPairing(n))
  <1>1. LastPairing(n) \in [History(n) -> [Bit -> History(n + 1)]]
    BY Appending DEF LastPairing
  <1>2. \A h \in History(n), x \in Bit : LastPairing(n)[h][x] = Append(h, x)
    BY DEF LastPairing
  <1>3. ASSUME NEW d \in History(n + 1)
        PROVE  \E h \in History(n), x \in Bit : d = LastPairing(n)[h][x]
    <2> DEFINE h == [i \in 1..n |-> d[i]]
               x == d[n + 1]
    <2>1. h \in History(n) /\ x \in Bit /\ \A i \in 1..n : h[i] = d[i]
      BY DEF History
    <2> HIDE DEF h
    <2>2. \A i \in 1..(n + 1) : d[i] = Append(h, x)[i]
      BY <2>1, Appending
    <2>3. d = Append(h, x)
      <3>1. n + 1 \in Nat /\ Append(h, x) \in History(n + 1)
        BY <2>1, Appending
      <3> QED
        BY <2>2, <3>1, SameHistory
    <2> QED
      BY <1>2, <2>1, <2>3
  <1>4. ASSUME NEW h \in History(n), NEW g \in History(n), NEW x \in Bit, NEW y \in Bit,
               Append(h, x) = Append(g, y)
        PROVE  h = g /\ x = y
    <2>1. /\ Append(h, x)[n + 1] = x /\ \A i \in 1..n : Append(h, x)[i] = h[i]
          /\ Append(g, y)[n + 1] = y /\ \A i \in 1..n : Append(g, y)[i] = g[i]
      BY Appending
    <2>2. x = y /\ \A i \in 1..n : h[i] = g[i]
      BY ONLY <1>4, <2>1
    <2> QED
      BY <2>2, SameHistory
  <1>5. ASSUME NEW h \in History(n), NEW g \in History(n), NEW x \in Bit, NEW y \in Bit,
               LastPairing(n)[h][x] = LastPairing(n)[g][y]
        PROVE  h = g /\ x = y
    <2>1. Append(h, x) = Append(g, y)
      BY <1>2, <1>5
    <2> QED
      BY <1>4, <2>1
  <1> QED
    BY ONLY <1>1, <1>3, <1>5 DEF IsPairing

LEMMA BitFinite == IsFiniteSet(Bit)
  <1>1. IsFiniteSet({0}) /\ {0, 1} = {0} \cup {1}
    BY FS_Singleton
  <1> QED
    BY <1>1, FS_AddElement DEF Bit

LEMMA NoHistory == \E e : History(0) = {e}
  <1> DEFINE e == [i \in 1..0 |-> 0]
  <1>1. 1..0 = {}
    OBVIOUS
  <1>2. e \in [1..0 -> Bit]
    BY <1>1
  <1>3. ASSUME NEW h \in [1..0 -> Bit] PROVE h = e
    BY <1>1
  <1>4. [1..0 -> Bit] = {e}
    <2> HIDE DEF e
    <2> QED
      BY <1>2, <1>3
  <1> QED
    BY <1>4 DEF History

LEMMA HistoriesFinite == \A n \in Nat : IsFiniteSet(History(n))
  <1> DEFINE X == {n \in Nat : IsFiniteSet(History(n))}
  <1>1. 0 \in X
    BY NoHistory, FS_Singleton
  <1>2. ASSUME NEW n \in Nat, n \in X PROVE n + 1 \in X
    BY <1>2, LastIsPairing, PairsFinite, BitFinite
  <1> HIDE DEF X
  <1>3. Nat \subseteq X
    BY <1>1, <1>2, NatSetInduction
  <1> QED
    BY <1>3 DEF X

LEMMA SumBits == ASSUME NEW f \in [Bit -> Int] PROVE SumFunction(f) = f[0] + f[1]
  <1> DEFINE D == Bit
             E == {1}
             g == [x \in E |-> f[x]]
  <1>1. /\ g \in [E -> Int] /\ E = D \ {0} /\ 0 \in D /\ 1 \in E /\ IsFiniteSet(E) /\ f \in [D -> Int]
        /\ g[1] = f[1] /\ (\A y \in E : g[y] = f[y]) /\ \A x \in E \ {1} : g[x] = 0
    <2>1. IsFiniteSet({1})
      BY FS_Singleton
    <2> QED
      BY <2>1 DEF Bit
  <1>2. IsFiniteSet(D)
    BY BitFinite
  <1> HIDE DEF D, E, g
  <1>3. SumFunction(f) = f[0] + SumFunction(g)
    BY <1>1, <1>2, SumTake
  <1>4. SumFunction(g) = g[1]
    BY <1>1, SumSingle
  <1> QED
    BY <1>1, <1>3, <1>4

\* The sum over the longer histories, by their last action.
LEMMA SumByLast ==
  ASSUME NEW n \in Nat, NEW D, D = History(n), NEW E, E = History(n + 1),
         NEW f, f \in [E -> Int], NEW g, g \in [D -> Int],
         \A h \in D : g[h] = f[Append(h, 0)] + f[Append(h, 1)]
  PROVE  SumFunction(f) = SumFunction(g)
  <1> DEFINE row == [h \in D |-> [x \in Bit |-> f[Append(h, x)]]]
             p == LastPairing(n)
  <1>1. IsPairing(D, Bit, E, p)
    BY LastIsPairing
  <1>2. /\ p \in [D -> [Bit -> E]] /\ \A h \in D, x \in Bit : p[h][x] = Append(h, x)
        /\ \A h \in D, x \in Bit : Append(h, x) \in E
    BY Appending DEF LastPairing
  <1>3. row \in [D -> [Bit -> Int]] /\ \A h \in D, x \in Bit : row[h][x] = f[p[h][x]]
    BY <1>2
  <1>4. \A h \in D : g[h] = SumFunction(row[h])
    <2> SUFFICES ASSUME NEW h \in D PROVE g[h] = SumFunction(row[h])
      OBVIOUS
    <2> DEFINE r == row[h]
    <2>1. r \in [Bit -> Int] /\ r[0] = f[Append(h, 0)] /\ r[1] = f[Append(h, 1)]
      BY <1>3 DEF Bit
    <2> HIDE DEF r, row, p
    <2>2. SumFunction(r) = r[0] + r[1]
      BY <2>1, SumBits
    <2> QED
      BY <2>1, <2>2 DEF r
  <1> HIDE DEF row, p
  <1>5. ByRows(D, Bit, E, p, f, row, g)
    BY <1>2, <1>3, <1>4 DEF ByRows
  <1> QED
    BY <1>1, <1>5, SumPairs, BitFinite, HistoriesFinite

Put(a, t, x) == [a EXCEPT ![t] = x]

LEMMA Setting ==
  ASSUME NEW n \in Nat, NEW a \in History(n), NEW t \in 1..n, NEW x \in Bit
  PROVE  /\ Put(a, t, x) \in History(n) /\ Put(a, t, x)[t] = x
         /\ \A i \in 1..n : i # t => Put(a, t, x)[i] = a[i]
         /\ \A y : Put(Put(a, t, y), t, x) = Put(a, t, x)
         /\ x = a[t] => Put(a, t, x) = a
  BY DEF History, Put

\* The histories with a 0 at t, and the action that may be there instead.
Low(n, t) == {a \in History(n) : a[t] = 0}
StepPairing(n, t) == [a \in Low(n, t) |-> [x \in Bit |-> Put(a, t, x)]]

LEMMA StepIsPairing ==
  ASSUME NEW n \in Nat, NEW t \in 1..n
  PROVE  IsPairing(Low(n, t), Bit, History(n), StepPairing(n, t))
  <1>1. \A a \in Low(n, t), x \in Bit : StepPairing(n, t)[a][x] = Put(a, t, x)
    BY DEF StepPairing
  <1>2. StepPairing(n, t) \in [Low(n, t) -> [Bit -> History(n)]]
    BY Setting DEF StepPairing, Low
  <1>3. ASSUME NEW d \in History(n)
        PROVE  \E a \in Low(n, t), x \in Bit : d = StepPairing(n, t)[a][x]
    <2> DEFINE a == Put(d, t, 0)
    <2>1. 0 \in Bit /\ d[t] \in Bit
      BY DEF Bit, History
    <2>2. a \in Low(n, t) /\ Put(a, t, d[t]) = d
      BY <2>1, Setting DEF Low
    <2> HIDE DEF a
    <2> QED
      BY <1>1, <2>1, <2>2
  <1>4. ASSUME NEW a \in Low(n, t), NEW b \in Low(n, t), NEW x \in Bit, NEW y \in Bit,
               StepPairing(n, t)[a][x] = StepPairing(n, t)[b][y]
        PROVE  a = b /\ x = y
    <2>1. /\ a \in History(n) /\ b \in History(n) /\ a[t] = b[t]
          /\ Put(a, t, x) = Put(b, t, y)
      BY <1>1, <1>4 DEF Low
    <2>2. x = y /\ \A i \in 1..n : a[i] = b[i]
      BY <2>1, Setting
    <2> QED
      BY <2>1, <2>2, SameHistory
  <1> QED
    BY ONLY <1>2, <1>3, <1>4 DEF IsPairing

\* The sum over the histories, by the actions at all steps but one.
LEMMA SumByStep ==
  ASSUME NEW n \in Nat, NEW t \in 1..n, NEW D, D = History(n), NEW L, L = Low(n, t),
         NEW f, f \in [D -> Int], NEW g, g \in [L -> Int],
         \A a \in L : g[a] = f[Put(a, t, 0)] + f[Put(a, t, 1)]
  PROVE  IsFiniteSet(L) /\ SumFunction(f) = SumFunction(g)
  <1> DEFINE row == [a \in L |-> [x \in Bit |-> f[Put(a, t, x)]]]
             p == StepPairing(n, t)
  <1>1. IsPairing(L, Bit, D, p)
    BY StepIsPairing
  <1>2. /\ p \in [L -> [Bit -> D]] /\ \A a \in L, x \in Bit : p[a][x] = Put(a, t, x)
        /\ \A a \in L, x \in Bit : Put(a, t, x) \in D
    BY Setting DEF StepPairing, Low
  <1>3. row \in [L -> [Bit -> Int]] /\ \A a \in L, x \in Bit : row[a][x] = f[p[a][x]]
    BY <1>2
  <1>4. \A a \in L : g[a] = SumFunction(row[a])
    <2> SUFFICES ASSUME NEW a \in L PROVE g[a] = SumFunction(row[a])
      OBVIOUS
    <2> DEFINE r == row[a]
    <2>1. r \in [Bit -> Int] /\ r[0] = f[Put(a, t, 0)] /\ r[1] = f[Put(a, t, 1)]
      BY <1>3 DEF Bit
    <2> HIDE DEF r, row, p
    <2>2. SumFunction(r) = r[0] + r[1]
      BY <2>1, SumBits
    <2> QED
      BY <2>1, <2>2 DEF r
  <1> HIDE DEF row, p
  <1>5. ByRows(L, Bit, D, p, f, row, g)
    BY <1>2, <1>3, <1>4 DEF ByRows
  <1>6. IsFiniteSet(L)
    <2>1. L \subseteq D /\ IsFiniteSet(D)
      BY HistoriesFinite DEF Low
    <2> HIDE DEF row, p
    <2> QED
      BY <2>1, FS_Subset
  <1> QED
    BY <1>1, <1>5, <1>6, SumPairs, BitFinite

-----------------------------------------------------------------------------
(* Worlds *)

LEMMA WorldFacts ==
  ASSUME NEW w, IsWorld(w)
  PROVE  /\ Decisions(w) \in Nat /\ Actions(w) = History(Decisions(w))
         /\ Steps(w) = 1..Decisions(w)
         /\ \A t \in Steps(w) : w.chance[t] \in Int
         /\ w.reward \in [Actions(w) -> Int]
  BY LenProperties DEF IsWorld, Decisions, Steps, Actions, History

LEMMA ChanceFacts ==
  ASSUME NEW w, IsWorld(w), NEW t \in Steps(w)
  PROVE  /\ \A x \in Bit : Chance(w, t, x) \in Int
         /\ Chance(w, t, 1) = w.chance[t] /\ Chance(w, t, 0) = Unit - w.chance[t]
  BY WorldFacts, UnitAssumption DEF Chance

LEMMA WeightAppend ==
  ASSUME NEW w, IsWorld(w), NEW k \in Nat, k + 1 \in Steps(w), NEW h \in History(k), NEW x \in Bit
  PROVE  /\ Weight(w, h) \in Int
         /\ Weight(w, Append(h, x)) = Weight(w, h) * Chance(w, k + 1, x)
  <1> DEFINE a == Append(h, x)
             D == 1..(k + 1)
             E == 1..k
             f == [t \in D |-> Chance(w, t, a[t])]
             g == [t \in E |-> Chance(w, t, h[t])]
  <1>1. /\ a \in History(k + 1) /\ a[k + 1] = x /\ \A i \in 1..k : a[i] = h[i]
        /\ D \subseteq Steps(w) /\ Decisions(w) \in Nat
    BY Appending, WorldFacts
  <1>2. Weight(w, a) = ProductOf(f) /\ Weight(w, h) = ProductOf(g)
    <2>1. DOMAIN a = D /\ DOMAIN h = E
      BY <1>1 DEF History
    <2> QED
      BY <2>1 DEF Weight
  <1> HIDE DEF a
  <1>3. \A t \in D : t \in Steps(w) /\ a[t] \in Bit
    BY <1>1 DEF History
  <1>4. f \in [D -> Int] /\ f[k + 1] = Chance(w, k + 1, x)
    <2>1. \A t \in D : Chance(w, t, a[t]) \in Int
      <3> HIDE DEF a, D
      <3> QED
        BY <1>3, ChanceFacts
    <2> QED
      BY <1>1, <2>1
  <1>5. g \in [E -> Int] /\ \A t \in E : g[t] = f[t]
    <2>1. \A t \in E : t \in D /\ h[t] = a[t] /\ Chance(w, t, h[t]) = Chance(w, t, a[t])
      BY <1>1
    <2>2. \A t \in E : Chance(w, t, h[t]) \in Int
      <3> HIDE DEF a, D, E
      <3> QED
        BY <1>3, <2>1, ChanceFacts
    <2> QED
      BY <2>1, <2>2
  <1>6. E = D \ {k + 1} /\ k + 1 \in D /\ IsFiniteSet(D) /\ IsFiniteSet(E)
    <2>1. IsFiniteSet(1..(k + 1)) /\ IsFiniteSet(1..k)
      BY FS_Interval
    <2> QED
      BY <2>1
  <1> HIDE DEF a, D, E, f, g
  <1>7. ProductOf(f) = f[k + 1] * ProductOf(g)
    BY <1>4, <1>5, <1>6, ProductTake
  <1>8. ProductOf(g) \in Int
    BY <1>5, <1>6, ProductType
  <1>9. Chance(w, k + 1, x) \in Int
    BY ChanceFacts
  <1> QED
    BY <1>2, <1>4, <1>7, <1>8, <1>9 DEF a

-----------------------------------------------------------------------------
(* Values *)

Prefixes(w) == UNION {History(k) : k \in 0..Decisions(w)}

\* The expected reward from every prefix, by backward recursion.
IsValue(w, q) ==
  /\ q \in [Prefixes(w) -> Int]
  /\ \A a \in Actions(w) : q[a] = w.reward[a]
  /\ \A k \in Nat : k + 1 \in Steps(w) =>
       \A h \in History(k) : q[h] = Chance(w, k + 1, 1) * q[Append(h, 1)]
                                    + Chance(w, k + 1, 0) * q[Append(h, 0)]

Cut(h, j) == [i \in 1..j |-> h[i]]

\* The value of the prefixes of k decisions, each times a factor that the first
\* j of these determine.
Paid(w, q, G, j, k) == SumFunction([h \in History(k) |-> Weight(w, h) * q[h] * G[Cut(h, j)]])

LEMMA Cutting ==
  ASSUME NEW k \in Nat, NEW j \in 0..k, NEW h \in History(k)
  PROVE  /\ Cut(h, j) \in History(j) /\ \A i \in 1..j : Cut(h, j)[i] = h[i]
         /\ j = k => Cut(h, j) = h
         /\ \A x \in Bit : Cut(Append(h, x), j) = Cut(h, j)
  <1>1. Cut(h, j) \in History(j) /\ (\A i \in 1..j : Cut(h, j)[i] = h[i]) /\ (j = k => Cut(h, j) = h)
    BY DEF Cut, History
  <1>2. ASSUME NEW x \in Bit PROVE Cut(Append(h, x), j) = Cut(h, j)
    <2>1. \A i \in 1..j : Append(h, x)[i] = h[i]
      BY Appending
    <2> QED
      BY <2>1 DEF Cut
  <1> QED
    BY <1>1, <1>2

LEMMA WeightType ==
  ASSUME NEW w, IsWorld(w), NEW k \in 0..Decisions(w), NEW h \in History(k)
  PROVE  Weight(w, h) \in Int
  <1> DEFINE E == 1..k
             g == [t \in E |-> Chance(w, t, h[t])]
  <1>1. DOMAIN h = E /\ E \subseteq Steps(w) /\ \A t \in E : h[t] \in Bit
    BY WorldFacts DEF History
  <1>2. Weight(w, h) = ProductOf(g)
    BY <1>1 DEF Weight
  <1>3. g \in [E -> Int]
    BY <1>1, ChanceFacts
  <1>4. IsFiniteSet(E)
    <2>1. k \in Int /\ 1 \in Int
      BY WorldFacts
    <2> QED
      BY <2>1, FS_Interval
  <1> HIDE DEF E, g
  <1> QED
    BY <1>2, <1>3, <1>4, ProductType

LEMMA ValueType ==
  ASSUME NEW w, IsWorld(w), NEW q, IsValue(w, q), NEW k \in 0..Decisions(w), NEW h \in History(k)
  PROVE  h \in Prefixes(w) /\ q[h] \in Int
  BY DEF IsValue, Prefixes

LEMMA PaidStep ==
  ASSUME NEW w, IsWorld(w), NEW q, IsValue(w, q), NEW k \in Nat, k + 1 \in Steps(w),
         NEW j \in 0..k, NEW G, G \in [History(j) -> Int]
  PROVE  Paid(w, q, G, j, k + 1) = Paid(w, q, G, j, k)
  <1> DEFINE D == History(k)
             E == History(k + 1)
             f == [h \in E |-> Weight(w, h) * q[h] * G[Cut(h, j)]]
             g == [h \in D |-> Weight(w, h) * q[h] * G[Cut(h, j)]]
  <1>1. Decisions(w) \in Nat /\ k \in 0..Decisions(w) /\ k + 1 \in 0..Decisions(w) /\ j \in 0..(k + 1)
    BY WorldFacts
  <1>2. /\ \A h \in D : Weight(w, h) \in Int /\ q[h] \in Int /\ G[Cut(h, j)] \in Int
        /\ \A h \in E : Weight(w, h) \in Int /\ q[h] \in Int /\ G[Cut(h, j)] \in Int
    BY <1>1, WeightType, ValueType, Cutting
  <1>3. f \in [E -> Int] /\ g \in [D -> Int]
    BY <1>2
  <1>4. \A h \in D : g[h] = f[Append(h, 0)] + f[Append(h, 1)]
    <2> SUFFICES ASSUME NEW h \in D PROVE g[h] = f[Append(h, 0)] + f[Append(h, 1)]
      OBVIOUS
    <2> DEFINE W == Weight(w, h)
               p == Chance(w, k + 1, 0)
               r == Chance(w, k + 1, 1)
               v == q[Append(h, 0)]
               u == q[Append(h, 1)]
               y == G[Cut(h, j)]
    <2>1. 0 \in Bit /\ 1 \in Bit
      BY DEF Bit
    <2>2. Append(h, 0) \in E /\ Append(h, 1) \in E
      BY <2>1, Appending
    <2>3. Weight(w, Append(h, 0)) = W * p /\ Weight(w, Append(h, 1)) = W * r
      BY <2>1, WeightAppend
    <2>4. Cut(Append(h, 0), j) = Cut(h, j) /\ Cut(Append(h, 1), j) = Cut(h, j)
      BY <2>1, Cutting
    <2>5. f[Append(h, 0)] = (W * p) * v * y /\ f[Append(h, 1)] = (W * r) * u * y
      BY <2>2, <2>3, <2>4
    <2>6. g[h] = W * (r * u + p * v) * y
      <3>1. q[h] = r * u + p * v
        BY DEF IsValue
      <3> QED
        BY <3>1
    <2>7. W \in Int /\ p \in Int /\ r \in Int /\ u \in Int /\ v \in Int /\ y \in Int
      BY <1>2, <2>1, <2>2, ChanceFacts
    <2> HIDE DEF W, p, r, u, v, y, f, g
    <2>8. W * (r * u + p * v) * y = (W * p) * v * y + (W * r) * u * y
      BY <2>7
    <2> QED
      BY <2>5, <2>6, <2>8
  <1>5. Paid(w, q, G, j, k + 1) = SumFunction(f) /\ Paid(w, q, G, j, k) = SumFunction(g)
    BY DEF Paid
  <1> HIDE DEF f, g
  <1> QED
    BY <1>3, <1>4, <1>5, SumByLast

LEMMA PaidAnywhere ==
  ASSUME NEW w, IsWorld(w), NEW q, IsValue(w, q), NEW j \in 0..Decisions(w),
         NEW G, G \in [History(j) -> Int]
  PROVE  Paid(w, q, G, j, Decisions(w)) = Paid(w, q, G, j, j)
  <1> DEFINE H == Decisions(w)
             X == {d \in Nat : j + d <= H => Paid(w, q, G, j, j + d) = Paid(w, q, G, j, j)}
  <1>1. H \in Nat /\ Steps(w) = 1..H /\ j \in Nat
    BY WorldFacts
  <1>2. 0 \in X
    BY <1>1
  <1>3. ASSUME NEW d \in Nat, d \in X PROVE d + 1 \in X
    <2> SUFFICES ASSUME j + (d + 1) <= H
                 PROVE  Paid(w, q, G, j, j + (d + 1)) = Paid(w, q, G, j, j)
      OBVIOUS
    <2>1. /\ j + d \in Nat /\ (j + d) + 1 \in Steps(w) /\ j \in 0..(j + d) /\ j + (d + 1) = (j + d) + 1
          /\ j + d <= H
      BY <1>1
    <2>2. Paid(w, q, G, j, (j + d) + 1) = Paid(w, q, G, j, j + d)
      BY <2>1, PaidStep
    <2> QED
      BY <1>3, <2>1, <2>2
  <1> HIDE DEF X
  <1>4. H - j \in X
    BY <1>1, <1>2, <1>3, NatSetInduction
  <1> QED
    <2>1. j + (H - j) = H
      BY <1>1
    <2> QED
      BY <1>1, <1>4, <2>1 DEF X

\* The expected effect of a decision, from the values.
EffectOf(w, q, t) ==
  SumFunction([h \in History(t - 1) |-> Weight(w, h) * Chance(w, t, 1) * Chance(w, t, 0)
                                          * (q[Append(h, 1)] - q[Append(h, 0)])])

LEMMA ScoreFacts ==
  ASSUME NEW w, IsWorld(w), NEW t \in Steps(w), NEW k \in t..Decisions(w), NEW a \in History(k)
  PROVE  /\ a[t] \in Bit /\ Score(w, a, t) \in Int /\ Score(w, a, t) = a[t] * Unit - w.chance[t]
         /\ Score(w, Cut(a, t), t) = Score(w, a, t)
  <1>1. a[t] \in Bit
    BY WorldFacts DEF History
  <1>2. Cut(a, t)[t] = a[t]
    BY WorldFacts, Cutting
  <1> QED
    BY <1>1, <1>2, WorldFacts, UnitAssumption DEF Score, Bit

\* Summing over all action sequences is summing, prefix by prefix, what the
\* decision changes in the value.
LEMMA GradientByValue ==
  ASSUME NEW w, IsWorld(w), NEW q, IsValue(w, q), NEW t \in Steps(w)
  PROVE  Gradient(w)[t] = EffectOf(w, q, t)
  <1> DEFINE H == Decisions(w)
             k == t - 1
             G == [h \in History(t) |-> Score(w, h, t)]
             D == History(k)
             E == History(t)
             f == [h \in E |-> Weight(w, h) * q[h] * G[Cut(h, t)]]
             g == [h \in D |-> Weight(w, h) * Chance(w, t, 1) * Chance(w, t, 0)
                                 * (q[Append(h, 1)] - q[Append(h, 0)])]
  <1>1. /\ H \in Nat /\ t \in 0..H /\ t \in t..H /\ k \in Nat /\ k + 1 = t /\ k \in 0..H
        /\ Actions(w) = History(H) /\ t \in 0..t /\ H \in t..H /\ t \in Nat
    BY WorldFacts
  <1>2. G \in [History(t) -> Int]
    BY <1>1, ScoreFacts
  <1>3. Gradient(w)[t] = Paid(w, q, G, t, H)
    <2>1. \A a \in Actions(w) : w.reward[a] = q[a] /\ G[Cut(a, t)] = Score(w, a, t)
      <3> SUFFICES ASSUME NEW a \in Actions(w)
                   PROVE  w.reward[a] = q[a] /\ G[Cut(a, t)] = Score(w, a, t)
        OBVIOUS
      <3>1. Cut(a, t) \in History(t)
        BY <1>1, Cutting
      <3> QED
        BY <1>1, <3>1, ScoreFacts DEF IsValue
    <2> HIDE DEF G
    <2>2. [a \in Actions(w) |-> Weight(w, a) * w.reward[a] * Score(w, a, t)]
          = [a \in Actions(w) |-> Weight(w, a) * q[a] * G[Cut(a, t)]]
      BY <2>1
    <2> QED
      BY <1>1, <2>2 DEF Gradient, Paid
  <1>4. Paid(w, q, G, t, H) = Paid(w, q, G, t, t)
    <2> HIDE DEF G
    <2> QED
      BY <1>1, <1>2, PaidAnywhere
  <1>5. Paid(w, q, G, t, t) = SumFunction(f) /\ EffectOf(w, q, t) = SumFunction(g)
    BY DEF Paid, EffectOf
  <1>6. /\ \A h \in D : Weight(w, h) \in Int
        /\ \A h \in E : Weight(w, h) \in Int /\ q[h] \in Int /\ Cut(h, t) = h /\ G[h] \in Int
    BY <1>1, <1>2, WeightType, ValueType, Cutting
  <1>7. \A h \in D : Append(h, 0) \in E /\ Append(h, 1) \in E
    BY <1>1, Appending DEF Bit
  <1>8. f \in [E -> Int]
    BY <1>6
  <1>9. g \in [D -> Int]
    BY <1>6, <1>7, ChanceFacts DEF Bit
  <1>10. \A h \in D : g[h] = f[Append(h, 0)] + f[Append(h, 1)]
    <2> SUFFICES ASSUME NEW h \in D PROVE g[h] = f[Append(h, 0)] + f[Append(h, 1)]
      OBVIOUS
    <2> DEFINE W == Weight(w, h)
               p == Chance(w, t, 0)
               r == Chance(w, t, 1)
               v == q[Append(h, 0)]
               u == q[Append(h, 1)]
    <2>1. 0 \in Bit /\ 1 \in Bit
      BY DEF Bit
    <2>2. Weight(w, Append(h, 0)) = W * p /\ Weight(w, Append(h, 1)) = W * r
      BY <1>1, <2>1, WeightAppend
    <2>3. /\ G[Append(h, 0)] = -r /\ G[Append(h, 1)] = p
      <3>1. Append(h, 0)[t] = 0 /\ Append(h, 1)[t] = 1
        BY <1>1, <2>1, Appending
      <3>2. Score(w, Append(h, 0), t) = 0 * Unit - w.chance[t] /\ Score(w, Append(h, 1), t) = 1 * Unit - w.chance[t]
        BY <3>1 DEF Score
      <3>3. G[Append(h, 0)] = Score(w, Append(h, 0), t) /\ G[Append(h, 1)] = Score(w, Append(h, 1), t)
        BY <1>7
      <3>4. r = w.chance[t] /\ p = Unit - w.chance[t] /\ w.chance[t] \in Int /\ Unit \in Int
        BY ChanceFacts, WorldFacts, UnitAssumption
      <3> HIDE DEF G, p, r
      <3> QED
        BY <3>2, <3>3, <3>4
    <2>4. f[Append(h, 0)] = (W * p) * v * (-r) /\ f[Append(h, 1)] = (W * r) * u * p
      BY <1>6, <1>7, <2>2, <2>3
    <2>5. g[h] = W * r * p * (u - v)
      OBVIOUS
    <2>6. W \in Int /\ p \in Int /\ r \in Int /\ u \in Int /\ v \in Int
      BY <1>6, <1>7, <2>1, ChanceFacts
    <2> HIDE DEF W, p, r, u, v, f, g, G
    <2>7. W * r * p * (u - v) = (W * p) * v * (-r) + (W * r) * u * p
      BY <2>6
    <2> QED
      BY <2>4, <2>5, <2>7
  <1> HIDE DEF f, g, G
  <1>11. SumFunction(f) = SumFunction(g)
    BY <1>1, <1>8, <1>9, <1>10, SumByLast
  <1> QED
    BY <1>3, <1>4, <1>5, <1>11

-----------------------------------------------------------------------------
(* The recursions have solutions *)

\* The backward recursion, from the level d steps before the end on.
ValueFrom(w, d, q) ==
  /\ q \in [Prefixes(w) -> Int]
  /\ \A a \in Actions(w) : q[a] = w.reward[a]
  /\ \A k \in Nat : k + 1 \in Steps(w) /\ k >= Decisions(w) - d =>
       \A h \in History(k) : q[h] = Chance(w, k + 1, 1) * q[Append(h, 1)]
                                    + Chance(w, k + 1, 0) * q[Append(h, 0)]

LEMMA PrefixLength ==
  ASSUME NEW w, IsWorld(w)
  PROVE  /\ \A k \in 0..Decisions(w) : \A h \in History(k) : h \in Prefixes(w) /\ Len(h) = k
         /\ \A h \in Prefixes(w) : /\ Len(h) \in 0..Decisions(w) /\ h \in History(Len(h))
                                   /\ Len(h) = Decisions(w) <=> h \in Actions(w)
                                   /\ Len(h) # Decisions(w) => Len(h) + 1 \in Steps(w)
  <1>1. \A k \in 0..Decisions(w) : k \in Nat /\ \A h \in History(k) : Len(h) = k
    BY WorldFacts, Appending DEF Bit
  <1>2. ASSUME NEW h \in Prefixes(w)
        PROVE  /\ Len(h) \in 0..Decisions(w) /\ h \in History(Len(h))
               /\ Len(h) = Decisions(w) <=> h \in Actions(w)
               /\ Len(h) # Decisions(w) => Len(h) + 1 \in Steps(w)
    <2>1. PICK k \in 0..Decisions(w) : h \in History(k)
      BY DEF Prefixes
    <2>2. Len(h) = k /\ Decisions(w) \in 0..Decisions(w) /\ Actions(w) = History(Decisions(w))
      BY <1>1, <2>1, WorldFacts
    <2> QED
      BY <1>1, <2>1, <2>2, WorldFacts
  <1> QED
    BY <1>1, <1>2 DEF Prefixes

LEMMA NextPrefix ==
  ASSUME NEW w, IsWorld(w), NEW k \in Nat, k + 1 \in Steps(w), NEW h \in History(k), NEW x \in Bit
  PROVE  /\ h \in Prefixes(w) /\ Len(h) = k
         /\ Append(h, x) \in Prefixes(w) /\ Append(h, x) \in History(k + 1)
         /\ Len(Append(h, x)) = k + 1
  <1>1. k \in 0..Decisions(w) /\ k + 1 \in 0..Decisions(w) /\ Append(h, x) \in History(k + 1)
    BY WorldFacts, Appending
  <1> QED
    BY <1>1, PrefixLength

LEMMA ValueExists ==
  ASSUME NEW w, IsWorld(w) PROVE \E q : IsValue(w, q)
  <1> DEFINE H == Decisions(w)
             X == {d \in Nat : \E q : ValueFrom(w, d, q)}
  <1>0. H \in Nat /\ Steps(w) = 1..H
    BY WorldFacts
  <1>1. 0 \in X
    <2> DEFINE q == [h \in Prefixes(w) |-> IF h \in Actions(w) THEN w.reward[h] ELSE 0]
    <2>1. q \in [Prefixes(w) -> Int]
      BY WorldFacts
    <2>2. \A a \in Actions(w) : q[a] = w.reward[a]
      BY WorldFacts DEF Prefixes
    <2>3. \A k \in Nat : ~(k + 1 \in Steps(w) /\ k >= H - 0)
      BY <1>0
    <2> HIDE DEF q
    <2>4. ValueFrom(w, 0, q)
      BY <2>1, <2>2, <2>3 DEF ValueFrom
    <2> QED
      BY <2>4
  <1>2. ASSUME NEW d \in Nat, d \in X PROVE d + 1 \in X
    <2>1. PICK q : ValueFrom(w, d, q)
      BY <1>2
    <2> DEFINE back(h, k) == Chance(w, k + 1, 1) * q[Append(h, 1)] + Chance(w, k + 1, 0) * q[Append(h, 0)]
               new(h) == Len(h) # H /\ Len(h) = H - (d + 1)
               r == [h \in Prefixes(w) |-> IF new(h) THEN back(h, Len(h)) ELSE q[h]]
    <2>2. q \in [Prefixes(w) -> Int] /\ \A a \in Actions(w) : q[a] = w.reward[a]
      BY <2>1 DEF ValueFrom
    <2>3. \A h \in Prefixes(w) : new(h) => back(h, Len(h)) \in Int
      <3> SUFFICES ASSUME NEW h \in Prefixes(w), Len(h) # H PROVE back(h, Len(h)) \in Int
        OBVIOUS
      <3>1. Len(h) \in Nat /\ Len(h) + 1 \in Steps(w) /\ h \in History(Len(h)) /\ 0 \in Bit /\ 1 \in Bit
        BY <1>0, PrefixLength DEF Bit
      <3>2. q[Append(h, 0)] \in Int /\ q[Append(h, 1)] \in Int
        BY <2>2, <3>1, NextPrefix
      <3>3. Chance(w, Len(h) + 1, 0) \in Int /\ Chance(w, Len(h) + 1, 1) \in Int
        BY <3>1, ChanceFacts
      <3> QED
        BY <3>2, <3>3
    <2>4. r \in [Prefixes(w) -> Int]
      <3> HIDE DEF back, new
      <3> QED
        BY <2>2, <2>3
    <2>5. \A a \in Actions(w) : r[a] = w.reward[a]
      <3> SUFFICES ASSUME NEW a \in Actions(w) PROVE r[a] = w.reward[a]
        OBVIOUS
      <3>1. a \in Prefixes(w) /\ Len(a) = H
        BY <1>0, WorldFacts, PrefixLength
      <3> HIDE DEF back
      <3> QED
        BY <2>2, <3>1
    <2>6. ASSUME NEW k \in Nat, k + 1 \in Steps(w), k >= H - (d + 1), NEW h \in History(k)
          PROVE  r[h] = Chance(w, k + 1, 1) * r[Append(h, 1)] + Chance(w, k + 1, 0) * r[Append(h, 0)]
      <3>1. 0 \in Bit /\ 1 \in Bit
        BY DEF Bit
      <3>2. /\ h \in Prefixes(w) /\ Len(h) = k /\ k # H
            /\ Append(h, 0) \in Prefixes(w) /\ Append(h, 1) \in Prefixes(w)
            /\ Len(Append(h, 0)) = k + 1 /\ Len(Append(h, 1)) = k + 1
        BY <1>0, <2>6, <3>1, NextPrefix
      <3>3. ~new(Append(h, 0)) /\ ~new(Append(h, 1))
        BY <1>0, <2>6, <3>2
      <3>4. r[Append(h, 0)] = q[Append(h, 0)] /\ r[Append(h, 1)] = q[Append(h, 1)]
        <4> HIDE DEF new, back
        <4> QED
          BY <3>2, <3>3
      <3>5. r[h] = back(h, k)
        <4>1. CASE new(h)
          <5> HIDE DEF new, back
          <5> QED
            BY <3>2, <4>1
        <4>2. CASE ~new(h)
          <5>1. k >= H - d
            BY <1>0, <2>6, <3>2, <4>2
          <5>2. q[h] = back(h, k)
            BY <2>1, <2>6, <5>1 DEF ValueFrom
          <5> HIDE DEF new, back
          <5> QED
            BY <3>2, <4>2, <5>2
        <4> QED
          BY <4>1, <4>2
      <3> HIDE DEF r
      <3> QED
        BY <3>4, <3>5
    <2> HIDE DEF r
    <2>7. ValueFrom(w, d + 1, r)
      BY <2>4, <2>5, <2>6 DEF ValueFrom
    <2> QED
      BY <2>7
  <1> HIDE DEF X
  <1>3. H \in X
    BY <1>0, <1>1, <1>2, NatSetInduction
  <1>4. PICK q : ValueFrom(w, H, q)
    BY <1>3 DEF X
  <1>5. \A k \in Nat : k >= H - H
    BY <1>0
  <1>6. IsValue(w, q)
    BY <1>4, <1>5 DEF IsValue, ValueFrom
  <1> QED
    BY <1>6

\* One step of the recursion at every prefix, before it is known that the values
\* are numbers.
Recurs(w, q) ==
  /\ q \in [Prefixes(w) -> {q[h] : h \in Prefixes(w)}]
  /\ \A a \in Actions(w) : q[a] = w.reward[a]
  /\ \A k \in Nat : k + 1 \in Steps(w) =>
       \A h \in History(k) :
         (\A x \in Bit : q[Append(h, x)] \in Int) =>
           q[h] = Chance(w, k + 1, 1) * q[Append(h, 1)] + Chance(w, k + 1, 0) * q[Append(h, 0)]

LEMMA RecursionIsValue ==
  ASSUME NEW w, IsWorld(w), NEW q, Recurs(w, q) PROVE IsValue(w, q)
  <1> DEFINE H == Decisions(w)
             X == {d \in Nat : \A k \in Nat : k <= H /\ k + d >= H => \A h \in History(k) : q[h] \in Int}
  <1>0. H \in Nat /\ Steps(w) = 1..H /\ 0 \in Bit /\ 1 \in Bit
    BY WorldFacts DEF Bit
  <1>9. \A a \in Actions(w) : q[a] = w.reward[a]
    BY DEF Recurs
  <1>8. \A k \in Nat : k + 1 \in Steps(w) =>
       \A h \in History(k) :
         (\A x \in Bit : q[Append(h, x)] \in Int) =>
           q[h] = Chance(w, k + 1, 1) * q[Append(h, 1)] + Chance(w, k + 1, 0) * q[Append(h, 0)]
    BY DEF Recurs
  <1>1. 0 \in X
    <2> SUFFICES ASSUME NEW k \in Nat, k <= H /\ k + 0 >= H, NEW h \in History(k) PROVE q[h] \in Int
      OBVIOUS
    <2>1. h \in Actions(w)
      BY <1>0, WorldFacts
    <2> QED
      BY <1>9, <2>1, WorldFacts
  <1>2. ASSUME NEW d \in Nat, d \in X PROVE d + 1 \in X
    <2> SUFFICES ASSUME NEW k \in Nat, k <= H /\ k + (d + 1) >= H, NEW h \in History(k)
                 PROVE  q[h] \in Int
      OBVIOUS
    <2>1. CASE k = H
      <3>1. h \in Actions(w)
        BY <1>9, <2>1, WorldFacts
      <3> QED
        BY <1>9, <3>1, WorldFacts
    <2>2. CASE k # H
      <3>1. k + 1 \in Steps(w) /\ k + 1 \in Nat /\ k + 1 <= H /\ (k + 1) + d >= H
        BY <1>0, <2>2
      <3>2. \A x \in Bit : Append(h, x) \in History(k + 1)
        BY Appending
      <3>3. \A x \in Bit : q[Append(h, x)] \in Int
        BY <1>2, <3>1, <3>2
      <3>4. q[h] = Chance(w, k + 1, 1) * q[Append(h, 1)] + Chance(w, k + 1, 0) * q[Append(h, 0)]
        BY <1>8, <3>1, <3>3
      <3>5. /\ Chance(w, k + 1, 1) \in Int /\ Chance(w, k + 1, 0) \in Int
            /\ q[Append(h, 1)] \in Int /\ q[Append(h, 0)] \in Int
        BY <1>0, <3>1, <3>3, ChanceFacts
      <3> QED
        BY <3>4, <3>5
    <2> QED
      BY <2>1, <2>2
  <1> HIDE DEF X
  <1>3. H \in X
    BY <1>0, <1>1, <1>2, NatSetInduction
  <1>4. \A k \in Nat : k <= H => \A h \in History(k) : q[h] \in Int
    <2>1. \A k \in Nat : k + H >= H
      BY <1>0
    <2> QED
      BY <1>3, <2>1 DEF X
  <1>5. \A h \in Prefixes(w) : q[h] \in Int
    <2>1. \A h \in Prefixes(w) : Len(h) \in Nat /\ Len(h) <= H /\ h \in History(Len(h))
      BY <1>0, PrefixLength
    <2> QED
      BY <1>4, <2>1
  <1>6. q \in [Prefixes(w) -> Int]
    BY <1>5 DEF Recurs
  <1>7. ASSUME NEW k \in Nat, k + 1 \in Steps(w), NEW h \in History(k)
        PROVE  q[h] = Chance(w, k + 1, 1) * q[Append(h, 1)] + Chance(w, k + 1, 0) * q[Append(h, 0)]
    <2>1. k + 1 \in Nat /\ k + 1 <= H /\ \A x \in Bit : Append(h, x) \in History(k + 1)
      BY <1>0, <1>7, Appending
    <2>2. \A x \in Bit : q[Append(h, x)] \in Int
      BY <1>4, <2>1
    <2> QED
      BY <1>7, <1>8, <2>2
  <1> QED
    BY <1>6, <1>7, <1>9 DEF IsValue

LEMMA QValuesIsValue ==
  ASSUME NEW w, IsWorld(w) PROVE IsValue(w, QValues(w))
  <1> DEFINE D == UNION {Histories(w, t) : t \in 1..(Decisions(w) + 1)}
             H == Decisions(w)
             eq(q) == [h \in D |->
                         IF Len(h) = H THEN w.reward[h]
                         ELSE SumFunction([x \in Bit |-> Chance(w, Len(h) + 1, x) * q[Append(h, x)]])]
             Q == QValues(w)
  <1>0. H \in Nat /\ Steps(w) = 1..H /\ 0 \in Bit /\ 1 \in Bit
    BY WorldFacts DEF Bit
  <1>1. D = Prefixes(w)
    <2>1. \A h : h \in D <=> \E t \in 1..(H + 1) : h \in History(t - 1)
      BY DEF Histories, History
    <2>2. \A h : h \in Prefixes(w) <=> \E k \in 0..H : h \in History(k)
      BY DEF Prefixes
    <2>3. \A t \in 1..(H + 1) : t - 1 \in 0..H
      BY <1>0
    <2>4. \A k \in 0..H : k + 1 \in 1..(H + 1) /\ (k + 1) - 1 = k
      BY <1>0
    <2> HIDE DEF D
    <2>5. \A h : h \in D <=> h \in Prefixes(w)
      BY <2>1, <2>2, <2>3, <2>4
    <2> QED
      BY <2>5
  <1>2. ASSUME NEW q, NEW S, q \in [Prefixes(w) -> S], NEW k \in Nat, k + 1 \in Steps(w), NEW h \in History(k),
               \A x \in Bit : q[Append(h, x)] \in Int
        PROVE  SumFunction([x \in Bit |-> Chance(w, Len(h) + 1, x) * q[Append(h, x)]])
               = Chance(w, k + 1, 1) * q[Append(h, 1)] + Chance(w, k + 1, 0) * q[Append(h, 0)]
    <2> DEFINE f == [x \in Bit |-> Chance(w, Len(h) + 1, x) * q[Append(h, x)]]
    <2>1. Len(h) = k
      BY <1>0, <1>2, NextPrefix
    <2>2. \A x \in Bit : Chance(w, k + 1, x) \in Int
      BY <1>2, ChanceFacts
    <2>3. f \in [Bit -> Int] /\ f[0] = Chance(w, k + 1, 0) * q[Append(h, 0)]
                             /\ f[1] = Chance(w, k + 1, 1) * q[Append(h, 1)]
      BY <1>0, <1>2, <2>1, <2>2
    <2>4. f[0] \in Int /\ f[1] \in Int
      BY <1>0, <2>3
    <2> HIDE DEF f
    <2>5. SumFunction(f) = f[0] + f[1]
      BY <2>3, SumBits
    <2>6. SumFunction(f) = f[1] + f[0]
      BY <2>4, <2>5
    <2> QED
      BY <2>3, <2>6 DEF f
  <1>3. PICK p : IsValue(w, p)
    BY ValueExists
  <1>4. p = eq(p)
    <2>1. p \in [Prefixes(w) -> Int]
      BY <1>3 DEF IsValue
    <2>2. ASSUME NEW h \in Prefixes(w)
          PROVE  p[h] = IF Len(h) = H THEN w.reward[h]
                        ELSE SumFunction([x \in Bit |-> Chance(w, Len(h) + 1, x) * p[Append(h, x)]])
      <3>1. CASE Len(h) = H
        BY <1>3, <2>2, <3>1, PrefixLength DEF IsValue
      <3>2. CASE Len(h) # H
        <4>1. Len(h) \in Nat /\ Len(h) + 1 \in Steps(w) /\ h \in History(Len(h))
          BY <1>0, <2>2, <3>2, PrefixLength
        <4>2. \A x \in Bit : p[Append(h, x)] \in Int
          BY <2>1, <4>1, NextPrefix
        <4> QED
          BY <1>2, <1>3, <2>1, <3>2, <4>1, <4>2 DEF IsValue
      <3> QED
        BY <3>1, <3>2
    <2> HIDE DEF D
    <2> QED
      BY <1>1, <2>1, <2>2
  <1>5. Q = eq(Q)
    BY <1>4 DEF QValues
  <1> QED
    <2> DEFINE S == {Q[h] : h \in Prefixes(w)}
    <2> HIDE DEF Q, D
    <2>1. DOMAIN Q = Prefixes(w) /\ Q \in [Prefixes(w) -> S]
      BY <1>1, <1>5 DEF S
    <2>2. \A a \in Actions(w) : Q[a] = w.reward[a]
      <3>1. \A a \in Actions(w) : a \in Prefixes(w) /\ Len(a) = H
        BY <1>0, WorldFacts, PrefixLength
      <3> QED
        BY <1>1, <1>5, <3>1
    <2>3. ASSUME NEW k \in Nat, k + 1 \in Steps(w), NEW h \in History(k),
                 \A x \in Bit : Q[Append(h, x)] \in Int
          PROVE  Q[h] = Chance(w, k + 1, 1) * Q[Append(h, 1)] + Chance(w, k + 1, 0) * Q[Append(h, 0)]
      <3>1. h \in Prefixes(w) /\ Len(h) = k /\ k # H
        BY <1>0, <2>3, NextPrefix
      <3>2. Q[h] = SumFunction([x \in Bit |-> Chance(w, Len(h) + 1, x) * Q[Append(h, x)]])
        BY <1>1, <1>5, <3>1
      <3> QED
        BY <1>2, <2>1, <2>3, <3>2
    <2>4. Recurs(w, Q)
      BY <2>1, <2>2, <2>3 DEF Recurs
    <2> QED
      BY <2>4, RecursionIsValue DEF Q

-----------------------------------------------------------------------------
(* The oracles and the primary side agree *)

\* The recursion of the Bellman oracle, one level at a time.
LevelStep(w, level) ==
  [t \in 0..Decisions(w) |->
     IF t = Decisions(w) THEN w.reward
     ELSE [h \in [1..t -> Bit] |->
             w.chance[t + 1] * level[t + 1][Append(h, 1)]
             + (Unit - w.chance[t + 1]) * level[t + 1][Append(h, 0)]]]

Levels(w) == CHOOSE level : level = LevelStep(w, level)

LEMMA LevelsSolve == ASSUME NEW w, IsWorld(w) PROVE Levels(w) = LevelStep(w, Levels(w))
  <1> DEFINE H == Decisions(w)
  <1>0. H \in Nat /\ Steps(w) = 1..H /\ 0 \in Bit /\ 1 \in Bit /\ Actions(w) = History(H)
    BY WorldFacts DEF Bit
  <1>1. PICK q : IsValue(w, q)
    BY ValueExists
  <1> DEFINE L == [t \in 0..H |-> [h \in History(t) |-> q[h]]]
  <1>2. \A t \in 0..H : L[t] = IF t = H THEN w.reward
                               ELSE [h \in [1..t -> Bit] |->
                                       w.chance[t + 1] * L[t + 1][Append(h, 1)]
                                       + (Unit - w.chance[t + 1]) * L[t + 1][Append(h, 0)]]
    <2> SUFFICES ASSUME NEW t \in 0..H
                 PROVE  L[t] = IF t = H THEN w.reward
                               ELSE [h \in [1..t -> Bit] |->
                                       w.chance[t + 1] * L[t + 1][Append(h, 1)]
                                       + (Unit - w.chance[t + 1]) * L[t + 1][Append(h, 0)]]
      OBVIOUS
    <2>1. CASE t = H
      <3>1. L[t] = [h \in History(t) |-> q[h]]
        OBVIOUS
      <3>2. w.reward \in [History(H) -> Int] /\ \A a \in History(H) : q[a] = w.reward[a]
        BY <1>0, <1>1, WorldFacts DEF IsValue
      <3>3. w.reward = [h \in History(H) |-> q[h]]
        BY <3>2
      <3> QED
        BY <2>1, <3>1, <3>3
    <2>2. CASE t # H
      <3>1. t \in Nat /\ t + 1 \in Steps(w) /\ t + 1 \in 0..H
        BY <1>0, <2>2
      <3>2. \A h \in History(t) : Append(h, 0) \in History(t + 1) /\ Append(h, 1) \in History(t + 1)
        BY <1>0, <3>1, Appending
      <3>3. L[t] = [h \in History(t) |-> q[h]] /\ L[t + 1] = [h \in History(t + 1) |-> q[h]]
        BY <3>1
      <3>4. \A h \in History(t) : q[h] = w.chance[t + 1] * q[Append(h, 1)]
                                         + (Unit - w.chance[t + 1]) * q[Append(h, 0)]
        BY <1>1, <3>1, ChanceFacts DEF IsValue
      <3> HIDE DEF L
      <3>5. \A h \in History(t) : /\ L[t + 1][Append(h, 1)] = q[Append(h, 1)]
                                  /\ L[t + 1][Append(h, 0)] = q[Append(h, 0)]
        BY <3>2, <3>3
      <3>6. \A h \in History(t) : q[h] = w.chance[t + 1] * L[t + 1][Append(h, 1)]
                                         + (Unit - w.chance[t + 1]) * L[t + 1][Append(h, 0)]
        BY <3>4, <3>5
      <3>7. L[t] = [h \in History(t) |-> w.chance[t + 1] * L[t + 1][Append(h, 1)]
                                         + (Unit - w.chance[t + 1]) * L[t + 1][Append(h, 0)]]
        BY <3>3, <3>6
      <3> QED
        BY <2>2, <3>7 DEF History
    <2> QED
      BY <2>1, <2>2
  <1>3. DOMAIN L = 0..H /\ L = [t \in 0..H |-> L[t]]
    OBVIOUS
  <1> HIDE DEF L
  <1>4. L = LevelStep(w, L)
    BY <1>2, <1>3 DEF LevelStep
  <1> QED
    BY <1>4 DEF Levels

LEMMA LevelsAreValues ==
  ASSUME NEW w, IsWorld(w)
  PROVE  IsValue(w, [h \in Prefixes(w) |-> Levels(w)[Len(h)][h]])
  <1> DEFINE H == Decisions(w)
             L == Levels(w)
             q == [h \in Prefixes(w) |-> L[Len(h)][h]]
  <1>0. H \in Nat /\ H \in 0..H /\ Steps(w) = 1..H /\ 0 \in Bit /\ 1 \in Bit /\ Actions(w) = History(H)
    BY WorldFacts DEF Bit
  <1>1. /\ L[H] = w.reward
        /\ \A t \in 0..H : t # H =>
             L[t] = [h \in History(t) |-> w.chance[t + 1] * L[t + 1][Append(h, 1)]
                                          + (Unit - w.chance[t + 1]) * L[t + 1][Append(h, 0)]]
    <2> HIDE DEF L
    <2>1. L = LevelStep(w, L)
      BY LevelsSolve DEF L
    <2> QED
      BY <1>0, <2>1 DEF LevelStep, History
  <1> HIDE DEF L
  <1>2. q \in [Prefixes(w) -> {q[h] : h \in Prefixes(w)}]
    OBVIOUS
  <1>3. \A a \in Actions(w) : q[a] = w.reward[a]
    <2>1. \A a \in Actions(w) : a \in Prefixes(w) /\ Len(a) = H
      BY <1>0, PrefixLength
    <2> QED
      BY <1>1, <2>1
  <1>4. ASSUME NEW k \in Nat, k + 1 \in Steps(w), NEW h \in History(k),
               \A x \in Bit : q[Append(h, x)] \in Int
        PROVE  q[h] = Chance(w, k + 1, 1) * q[Append(h, 1)] + Chance(w, k + 1, 0) * q[Append(h, 0)]
    <2>1. k \in 0..H /\ k # H /\ h \in Prefixes(w) /\ Len(h) = k
      BY <1>0, <1>4, NextPrefix
    <2>2. \A x \in Bit : Append(h, x) \in Prefixes(w) /\ Len(Append(h, x)) = k + 1
      BY <1>4, NextPrefix
    <2>3. q[h] = L[k][h]
      BY <2>1
    <2>4. \A x \in Bit : q[Append(h, x)] = L[k + 1][Append(h, x)]
      BY <2>2
    <2> HIDE DEF q
    <2>5. L[k][h] = w.chance[k + 1] * L[k + 1][Append(h, 1)] + (Unit - w.chance[k + 1]) * L[k + 1][Append(h, 0)]
      BY <1>1, <2>1
    <2> QED
      BY <1>0, <1>4, <2>3, <2>4, <2>5, ChanceFacts
  <1>5. Recurs(w, q)
    <2> HIDE DEF q
    <2> QED
      BY <1>2, <1>3, <1>4 DEF Recurs
  <1> QED
    BY <1>5, RecursionIsValue DEF L

LEMMA BellmanIsEffect ==
  ASSUME NEW w, IsWorld(w), NEW t \in Steps(w)
  PROVE  /\ BellmanGradient(w) = [u \in Steps(w) |-> BellmanGradient(w)[u]]
         /\ BellmanGradient(w)[t] = Gradient(w)[t]
  <1> DEFINE L == Levels(w)
             q == [h \in Prefixes(w) |-> L[Len(h)][h]]
             f == [h \in History(t - 1) |-> Weight(w, h) * w.chance[t] * (Unit - w.chance[t])
                                              * (L[t][Append(h, 1)] - L[t][Append(h, 0)])]
             g == [h \in History(t - 1) |-> Weight(w, h) * Chance(w, t, 1) * Chance(w, t, 0)
                                              * (q[Append(h, 1)] - q[Append(h, 0)])]
  <1>1. /\ BellmanGradient(w)[t] = SumFunction(f)
        /\ BellmanGradient(w) = [u \in Steps(w) |-> BellmanGradient(w)[u]]
    BY DEF BellmanGradient, Levels, LevelStep, History, Steps
  <1>2. IsValue(w, q)
    BY LevelsAreValues
  <1>3. f = g
    <2>1. ASSUME NEW h \in History(t - 1)
          PROVE  q[Append(h, 1)] = L[t][Append(h, 1)] /\ q[Append(h, 0)] = L[t][Append(h, 0)]
      <3>1. t - 1 \in Nat /\ (t - 1) + 1 = t /\ 0 \in Bit /\ 1 \in Bit
        BY WorldFacts DEF Bit
      <3>2. /\ Append(h, 0) \in Prefixes(w) /\ Append(h, 1) \in Prefixes(w)
            /\ Len(Append(h, 0)) = t /\ Len(Append(h, 1)) = t
        BY <3>1, NextPrefix
      <3> HIDE DEF L
      <3> QED
        BY <3>2
    <2>2. Chance(w, t, 1) = w.chance[t] /\ Chance(w, t, 0) = Unit - w.chance[t]
      BY ChanceFacts
    <2> HIDE DEF L, q
    <2> QED
      BY <2>1, <2>2
  <1>4. Gradient(w)[t] = SumFunction(g)
    <2> HIDE DEF q
    <2> QED
      BY <1>2, GradientByValue DEF EffectOf
  <1> HIDE DEF f, g
  <1> QED
    BY <1>1, <1>3, <1>4

\* The backward values of the Bellman oracle (oracles/bellman) and the paths of
\* the primary side give any world one gradient.
THEOREM BellmanAgrees == ASSUME NEW w, IsWorld(w) PROVE BellmanGradient(w) = Gradient(w)
  <1>1. Gradient(w) = [u \in Steps(w) |-> Gradient(w)[u]]
    BY DEF Gradient
  <1>2. BellmanGradient(w) = [u \in Steps(w) |-> BellmanGradient(w)[u]]
    BY DEF BellmanGradient, Steps
  <1> QED
    BY <1>1, <1>2, BellmanIsEffect

\* The local target of a decision, computed from the values of its prefixes
\* (estimands/), is its coordinate of the gradient and nothing else.
THEOREM LocalAgrees ==
  ASSUME NEW w, IsWorld(w), NEW t \in Steps(w)
  PROVE  /\ LocalTarget(w, t)[t] = Gradient(w)[t]
         /\ \A u \in Steps(w) : u # t => LocalTarget(w, t)[u] = 0
  <1> DEFINE q == QValues(w)
  <1>1. Gradient(w)[t] = EffectOf(w, q, t)
    BY QValuesIsValue, GradientByValue
  <1> HIDE DEF q
  <1>2. LocalTarget(w, t)[t] = EffectOf(w, q, t)
    BY DEF LocalTarget, EffectOf, Effect, q, Histories, History
  <1>3. \A u \in Steps(w) : u # t => LocalTarget(w, t)[u] = 0
    BY DEF LocalTarget
  <1> QED
    BY <1>1, <1>2, <1>3

-----------------------------------------------------------------------------
(* Bit patterns *)

LEMMA DivUnique ==
  ASSUME NEW n \in Nat, NEW p \in Nat \ {0}, NEW d \in Nat, NEW r \in 0..(p - 1), n = p * d + r
  PROVE  n \div p = d
  <1>1. CASE n \div p >= d + 1
    <2>1. p * (n \div p) >= p * (d + 1)
      BY <1>1
    <2> QED
      BY <2>1
  <1>2. CASE n \div p <= d - 1
    <2>1. p * (n \div p) <= p * (d - 1)
      BY <1>2
    <2> QED
      BY <2>1
  <1> QED
    BY <1>1, <1>2

LEMMA Halved ==
  ASSUME NEW c \in Nat, NEW x \in {0, 1}, NEW p \in Nat \ {0}
  PROVE  (2 * c + x) \div (2 * p) = c \div p
  <1> DEFINE d == c \div p
             r == c % p
  <1>1. c = p * d + r /\ d \in Nat /\ r \in 0..(p - 1)
    OBVIOUS
  <1> HIDE DEF d, r
  <1>2. 2 * c + x = (2 * p) * d + (2 * r + x) /\ 2 * r + x \in 0..(2 * p - 1)
    BY <1>1
  <1>3. 2 * p \in Nat \ {0} /\ 2 * c + x \in Nat
    OBVIOUS
  <1>4. (2 * c + x) \div (2 * p) = d
    BY <1>1, <1>2, <1>3, DivUnique
  <1> QED
    BY <1>4 DEF d

LEMMA LastBit ==
  ASSUME NEW c \in Nat, NEW x \in {0, 1}
  PROVE  /\ ((2 * c + x) \div 1) % 2 = x
         /\ \A n \in Nat : n \div 2 \in Nat /\ n % 2 \in {0, 1} /\ n = 2 * (n \div 2) + (n % 2)
  OBVIOUS

\* The patterns of n bits, and the paths they stand for.
Patterns(n) == 0..(Power(2, n) - 1)
Coding(n) == [c \in Patterns(n) |-> PathOf(n, c)]

LEMMA PatternFacts ==
  ASSUME NEW n \in Nat
  PROVE  /\ Power(2, n) \in Nat \ {0} /\ Power(2, n + 1) = 2 * Power(2, n) /\ IsFiniteSet(Patterns(n))
         /\ Patterns(n) \subseteq Nat
  <1>1. Power(2, n) \in Nat \ {0}
    BY PowerPositive
  <1>2. Power(2, n + 1) = 2 * Power(2, n)
    BY PowerNext
  <1>3. IsFiniteSet(0..(Power(2, n) - 1))
    BY <1>1, FS_Interval
  <1> QED
    BY <1>1, <1>2, <1>3 DEF Patterns

LEMMA NextPath ==
  ASSUME NEW n \in Nat, NEW c \in Nat, NEW x \in Bit
  PROVE  /\ PathOf(n, c) \in History(n)
         /\ PathOf(n + 1, 2 * c + x) = Append(PathOf(n, c), x)
  <1> DEFINE a == PathOf(n, c)
             b == PathOf(n + 1, 2 * c + x)
  <1>1. \A k \in Nat, m \in Nat : (m \div Power(2, k)) % 2 \in Bit
    <2> SUFFICES ASSUME NEW k \in Nat, NEW m \in Nat PROVE (m \div Power(2, k)) % 2 \in Bit
      OBVIOUS
    <2> DEFINE p == Power(2, k)
    <2>1. p \in Nat \ {0}
      BY PowerPositive
    <2> HIDE DEF p
    <2>2. m \div p \in Nat
      BY <2>1
    <2> QED
      BY <2>2 DEF p, Bit
  <1>2. \A m \in Nat, c2 \in Nat : PathOf(m, c2) \in History(m)
    <2> SUFFICES ASSUME NEW m \in Nat, NEW c2 \in Nat PROVE PathOf(m, c2) \in History(m)
      OBVIOUS
    <2>1. \A t \in 1..m : m - t \in Nat
      OBVIOUS
    <2>2. \A t \in 1..m : (c2 \div Power(2, m - t)) % 2 \in Bit
      BY <1>1, <2>1
    <2> QED
      BY <2>2 DEF PathOf, History
  <1>3. a \in History(n) /\ b \in History(n + 1)
    <2>1. 2 * c + x \in Nat
      BY DEF Bit
    <2> QED
      BY <1>2, <2>1
  <1>4. \A t \in 1..n : b[t] = a[t]
    <2> SUFFICES ASSUME NEW t \in 1..n PROVE b[t] = a[t]
      OBVIOUS
    <2> DEFINE p == Power(2, n - t)
    <2>1. b[t] = ((2 * c + x) \div Power(2, (n + 1) - t)) % 2 /\ a[t] = (c \div p) % 2
      BY DEF PathOf
    <2>2. (n + 1) - t = (n - t) + 1 /\ n - t \in Nat
      OBVIOUS
    <2>3. Power(2, (n + 1) - t) = 2 * p /\ p \in Nat \ {0}
      BY <2>2, PatternFacts
    <2> HIDE DEF p, a, b
    <2>4. (2 * c + x) \div (2 * p) = c \div p
      BY <2>3, Halved DEF Bit
    <2> QED
      BY <2>1, <2>3, <2>4
  <1>5. b[n + 1] = x
    <2>1. b[n + 1] = ((2 * c + x) \div Power(2, (n + 1) - (n + 1))) % 2
      BY DEF PathOf
    <2>2. Power(2, (n + 1) - (n + 1)) = 1
      <3>1. (n + 1) - (n + 1) = 0
        OBVIOUS
      <3> QED
        BY <3>1, PowerZero
    <2> HIDE DEF b
    <2>3. ((2 * c + x) \div 1) % 2 = x
      BY LastBit DEF Bit
    <2> QED
      BY <2>1, <2>2, <2>3
  <1> HIDE DEF a, b
  <1>6. \A t \in 1..(n + 1) : b[t] = Append(a, x)[t]
    BY <1>3, <1>4, <1>5, Appending
  <1>7. b = Append(a, x)
    <2>1. n + 1 \in Nat /\ Append(a, x) \in History(n + 1)
      BY <1>3, Appending
    <2> QED
      BY <1>3, <1>6, <2>1, SameHistory
  <1> QED
    BY <1>3, <1>7 DEF a, b

\* Every path has one pattern.
LEMMA CodingIsBijection ==
  ASSUME NEW n \in Nat PROVE Coding(n) \in Bijection(Patterns(n), History(n))
  <1> DEFINE X == {k \in Nat : /\ \A c, d \in Patterns(k) : PathOf(k, c) = PathOf(k, d) => c = d
                               /\ \A h \in History(k) : \E c \in Patterns(k) : PathOf(k, c) = h}
  <1>1. 0 \in X
    <2>1. Patterns(0) = {0}
      BY PowerZero DEF Patterns
    <2>2. PICK e : History(0) = {e}
      BY NoHistory
    <2>3. PathOf(0, 0) \in History(0)
      BY NextPath DEF Bit
    <2> QED
      BY <2>1, <2>2, <2>3
  <1>2. ASSUME NEW k \in Nat, k \in X PROVE k + 1 \in X
    <2>1. \A c \in Patterns(k + 1) : \E d \in Patterns(k), x \in Bit : c = 2 * d + x
      <3> SUFFICES ASSUME NEW c \in Patterns(k + 1)
                   PROVE  \E d \in Patterns(k), x \in Bit : c = 2 * d + x
        OBVIOUS
      <3> DEFINE p == Power(2, k)
      <3>1. p \in Nat \ {0} /\ Power(2, k + 1) = 2 * p
        BY PatternFacts
      <3>2. c \in Nat /\ c <= 2 * p - 1
        BY <3>1 DEF Patterns
      <3>3. c \div 2 \in Nat /\ c % 2 \in Bit /\ c = 2 * (c \div 2) + (c % 2)
        BY <3>2, LastBit DEF Bit
      <3>4. c \div 2 <= p - 1
        BY <3>1, <3>2, <3>3 DEF Bit
      <3>5. c \div 2 \in 0..(p - 1)
        BY <3>1, <3>3, <3>4
      <3> QED
        BY <3>3, <3>5 DEF Patterns
    <2>2. \A d \in Patterns(k), x \in Bit : 2 * d + x \in Patterns(k + 1)
      <3> SUFFICES ASSUME NEW d \in Patterns(k), NEW x \in Bit PROVE 2 * d + x \in Patterns(k + 1)
        OBVIOUS
      <3> DEFINE p == Power(2, k)
      <3>1. p \in Nat \ {0} /\ Power(2, k + 1) = 2 * p
        BY PatternFacts
      <3>2. d \in 0..(p - 1)
        BY DEF Patterns
      <3> HIDE DEF p
      <3>3. 2 * d + x \in 0..(2 * p - 1)
        BY <3>1, <3>2 DEF Bit
      <3> QED
        BY <3>1, <3>3 DEF Patterns, p
    <2>3. ASSUME NEW c \in Patterns(k + 1), NEW d \in Patterns(k + 1), PathOf(k + 1, c) = PathOf(k + 1, d)
          PROVE  c = d
      <3>1. PICK e \in Patterns(k), x \in Bit : c = 2 * e + x
        BY <2>1
      <3>2. PICK f \in Patterns(k), y \in Bit : d = 2 * f + y
        BY <2>1
      <3>3. e \in Nat /\ f \in Nat
        BY PatternFacts
      <3>4. PathOf(k, e) \in History(k) /\ PathOf(k, f) \in History(k)
        BY <3>3, NextPath
      <3>5. Append(PathOf(k, e), x) = Append(PathOf(k, f), y)
        <4>1. /\ PathOf(k + 1, 2 * e + x) = Append(PathOf(k, e), x)
              /\ PathOf(k + 1, 2 * f + y) = Append(PathOf(k, f), y)
          BY <3>3, NextPath
        <4> QED
          BY <2>3, <3>1, <3>2, <4>1
      <3>6. x = y /\ PathOf(k, e) = PathOf(k, f)
        <4> DEFINE g == PathOf(k, e)
                   h == PathOf(k, f)
        <4>0. g \in History(k) /\ h \in History(k)
          BY <3>4
        <4>1. Append(g, x) = Append(h, y)
          BY <3>5
        <4> HIDE DEF g, h
        <4>2. Append(g, x)[k + 1] = x /\ \A i \in 1..k : Append(g, x)[i] = g[i]
          BY ONLY <4>0, Appending, k \in Nat, x \in Bit
        <4>3. Append(h, y)[k + 1] = y /\ \A i \in 1..k : Append(h, y)[i] = h[i]
          BY ONLY <4>0, Appending, k \in Nat, y \in Bit
        <4>4. x = y /\ \A i \in 1..k : g[i] = h[i]
          BY <4>1, <4>2, <4>3
        <4>5. g = h
          BY <4>0, <4>4, SameHistory
        <4> QED
          BY <4>4, <4>5 DEF g, h
      <3>7. e = f
        BY <1>2, <3>6
      <3> QED
        BY <3>1, <3>2, <3>6, <3>7
    <2>4. ASSUME NEW h \in History(k + 1) PROVE \E c \in Patterns(k + 1) : PathOf(k + 1, c) = h
      <3>1. PICK g \in History(k), x \in Bit : h = Append(g, x)
        <4>1. \A d \in History(k + 1) : \E g \in History(k), x \in Bit : d = LastPairing(k)[g][x]
          BY LastIsPairing DEF IsPairing
        <4> QED
          BY <4>1 DEF LastPairing
      <3>2. PICK e \in Patterns(k) : PathOf(k, e) = g
        BY <1>2
      <3>3. e \in Nat
        BY PatternFacts
      <3>4. PathOf(k + 1, 2 * e + x) = Append(g, x)
        BY <3>2, <3>3, NextPath
      <3> QED
        BY <2>2, <3>1, <3>4
    <2> QED
      BY <2>3, <2>4
  <1> HIDE DEF X
  <1>3. n \in X
    BY <1>1, <1>2, NatSetInduction
  <1>4. Coding(n) \in [Patterns(n) -> History(n)] /\ \A c \in Patterns(n) : Coding(n)[c] = PathOf(n, c)
    <2>1. \A c \in Patterns(n) : PathOf(n, c) \in History(n)
      <3>1. \A c \in Patterns(n) : c \in Nat
        BY PatternFacts
      <3> QED
        BY <3>1, NextPath DEF Bit
    <2> QED
      BY <2>1 DEF Coding
  <1>5. /\ \A c, d \in Patterns(n) : Coding(n)[c] = Coding(n)[d] => c = d
        /\ \A h \in History(n) : \E c \in Patterns(n) : Coding(n)[c] = h
    BY <1>3, <1>4 DEF X
  <1> QED
    BY <1>4, <1>5, BijectionIs

\* The bit patterns of the enumeration oracle (oracles/enumeration) are the
\* paths, each once, and give any world the gradient of the primary side.
THEOREM EnumerationAgrees ==
  ASSUME NEW w, IsWorld(w) PROVE EnumerationGradient(w) = Gradient(w)
  <1> DEFINE H == Decisions(w)
  <1>0. H \in Nat /\ Steps(w) = 1..H /\ Actions(w) = History(H)
    BY WorldFacts
  <1>1. ASSUME NEW t \in Steps(w) PROVE EnumerationGradient(w)[t] = Gradient(w)[t]
    <2> DEFINE D == Patterns(H)
               E == History(H)
               b == Coding(H)
               f == [a \in E |-> Weight(w, a) * w.reward[a] * Score(w, a, t)]
               g == [c \in D |-> Weight(w, PathOf(H, c)) * w.reward[PathOf(H, c)]
                                    * (Unit * PathOf(H, c)[t] - w.chance[t])]
    <2>1. EnumerationGradient(w)[t] = SumFunction(g) /\ Gradient(w)[t] = SumFunction(f)
      BY <1>0 DEF EnumerationGradient, Gradient, Patterns
    <2>2. b \in Bijection(D, E) /\ b \in [D -> E]
      BY <1>0, CodingIsBijection, BijectionIs
    <2>3. \A a \in E : /\ Weight(w, a) \in Int /\ w.reward[a] \in Int /\ Score(w, a, t) \in Int
                       /\ Score(w, a, t) = Unit * a[t] - w.chance[t]
      <3> SUFFICES ASSUME NEW a \in E
                   PROVE  /\ Weight(w, a) \in Int /\ w.reward[a] \in Int /\ Score(w, a, t) \in Int
                          /\ Score(w, a, t) = Unit * a[t] - w.chance[t]
        OBVIOUS
      <3>1. H \in 0..H /\ H \in t..H /\ Unit \in Int
        BY <1>0, UnitAssumption
      <3>2. Weight(w, a) \in Int /\ w.reward[a] \in Int
        BY <1>0, <3>1, WeightType, WorldFacts
      <3>3. Score(w, a, t) \in Int /\ a[t] \in Bit /\ Score(w, a, t) = a[t] * Unit - w.chance[t]
        BY <3>1, ScoreFacts
      <3>4. a[t] * Unit = Unit * a[t]
        BY <3>1, <3>3 DEF Bit
      <3> QED
        BY <3>2, <3>3, <3>4
    <2>4. f \in [E -> Int]
      BY <2>3
    <2>5. \A c \in D : g[c] = f[b[c]]
      <3> SUFFICES ASSUME NEW c \in D PROVE g[c] = f[b[c]]
        OBVIOUS
      <3>1. b[c] = PathOf(H, c) /\ b[c] \in E
        <4>1. b[c] = PathOf(H, c)
          BY DEF Coding
        <4> HIDE DEF b, D, E
        <4> QED
          BY <2>2, <4>1
      <3> HIDE DEF b
      <3>2. g[c] = Weight(w, b[c]) * w.reward[b[c]] * (Unit * b[c][t] - w.chance[t])
        BY <3>1
      <3>3. f[b[c]] = Weight(w, b[c]) * w.reward[b[c]] * Score(w, b[c], t)
        BY <3>1
      <3> QED
        BY <2>3, <3>1, <3>2, <3>3
    <2>6. g \in [D -> Int]
      <3>1. \A c \in D : g[c] \in Int
        <4> HIDE DEF f, g, D, E, b
        <4> QED
          BY <2>2, <2>4, <2>5
      <3> QED
        BY <3>1
    <2>7. IsFiniteSet(D)
      BY <1>0, PatternFacts
    <2> HIDE DEF f, g, b, D, E
    <2>8. SumFunction(f) = SumFunction(g)
      BY <2>2, <2>4, <2>5, <2>6, <2>7, SumRename
    <2> QED
      BY <2>1, <2>8
  <1>2. Gradient(w) = [u \in Steps(w) |-> Gradient(w)[u]]
    BY DEF Gradient
  <1>3. EnumerationGradient(w) = [u \in Steps(w) |-> EnumerationGradient(w)[u]]
    BY DEF EnumerationGradient, Steps
  <1> QED
    BY <1>1, <1>2, <1>3
==============================================================================
