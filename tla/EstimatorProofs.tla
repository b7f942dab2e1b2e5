--------------------------- MODULE EstimatorProofs ---------------------------
(***************************************************************************)
(* Which estimators are unbiased, in worlds with any number of decisions,  *)
(* any probabilities and any rewards.                                      *)
(*                                                                         *)
(* Three facts carry the module: averaging a function over the actions at  *)
(* one step multiplies its expectation by Unit (ExpectStep), so a score is *)
(* zero in expectation beside whatever its action does not change          *)
(* (ExpectScore), and the contrast with a sibling at t has its expectation *)
(* at t alone (SiblingSum).                                                *)
(***************************************************************************)
EXTENDS Estimators, ExactWorldsProofs

-----------------------------------------------------------------------------
(* Weights *)

\* The factors of a weight but that of one decision.
Rest(w, a, t) == ProductOf([s \in Steps(w) \ {t} |-> Chance(w, s, a[s])])

LEMMA WeightSplit ==
  ASSUME NEW w, IsWorld(w), NEW t \in Steps(w), NEW a \in Actions(w), NEW x \in Bit
  PROVE  /\ Put(a, t, x) \in Actions(w)
         /\ Rest(w, a, t) \in Int
         /\ Weight(w, Put(a, t, x)) = Chance(w, t, x) * Rest(w, a, t)
  <1> DEFINE D == Steps(w)
             E == D \ {t}
             b == Put(a, t, x)
             f == [s \in D |-> Chance(w, s, b[s])]
             g == [s \in E |-> Chance(w, s, a[s])]
  <1>1. /\ b \in Actions(w) /\ b[t] = x /\ \A s \in E : b[s] = a[s]
        /\ \A s \in D : b[s] \in Bit
    <2>1. /\ Put(a, t, x) \in History(Decisions(w)) /\ Put(a, t, x)[t] = x
          /\ \A i \in 1..Decisions(w) : i # t => Put(a, t, x)[i] = a[i]
      BY WorldFacts, Setting
    <2> HIDE DEF b
    <2> QED
      BY <2>1, WorldFacts DEF History, b
  <1>2. DOMAIN b = D
    BY <1>1, WorldFacts DEF History
  <1> HIDE DEF b
  <1>3. Weight(w, b) = ProductOf(f) /\ Rest(w, a, t) = ProductOf(g)
    BY <1>2 DEF Weight, Rest
  <1>4. \A s \in D : Chance(w, s, b[s]) \in Int
    BY <1>1, ChanceFacts
  <1>5. f \in [D -> Int] /\ g \in [E -> Int] /\ (\A s \in E : g[s] = f[s]) /\ f[t] = Chance(w, t, x)
    BY <1>1, <1>4
  <1>6. IsFiniteSet(D) /\ IsFiniteSet(E)
    <2>1. IsFiniteSet(1..Decisions(w))
      BY WorldFacts, FS_Interval
    <2> QED
      BY <2>1, WorldFacts, FS_RemoveElement
  <1>7. ProductOf(f) = f[t] * ProductOf(g) /\ ProductOf(g) \in Int
    <2>1. t \in D /\ E = D \ {t}
      OBVIOUS
    <2>4. f \in [D -> Int] /\ g \in [E -> Int] /\ \A s \in E : g[s] = f[s]
      BY <1>5
    <2> HIDE DEF f, g, D, E
    <2>2. ProductOf(f) = f[t] * ProductOf(g)
      BY ONLY <2>4, <1>6, <2>1, ProductTake
    <2>3. ProductOf(g) \in Int
      BY <1>5, <1>6, ProductType
    <2> QED
      BY <2>2, <2>3
  <1> HIDE DEF f, g, D, E
  <1> QED
    BY <1>1, <1>3, <1>5, <1>7 DEF b

\* The sums over the actions at t, of weighted functions.
LEMMA SumOverStep ==
  ASSUME NEW w, IsWorld(w), NEW t \in Steps(w), NEW A, A = Actions(w),
         NEW G, G \in [A -> Int], NEW f, f \in [A -> Int], \A a \in A : f[a] = Weight(w, a) * G[a],
         NEW g, g \in [Low(Decisions(w), t) -> Int],
         \A a \in Low(Decisions(w), t) :
           g[a] = Rest(w, a, t) * (Chance(w, t, 0) * G[Put(a, t, 0)] + Chance(w, t, 1) * G[Put(a, t, 1)])
  PROVE  SumFunction(f) = SumFunction(g)
  <1> DEFINE n == Decisions(w)
             L == Low(n, t)
  <1>1. n \in Nat /\ t \in 1..n /\ A = History(n) /\ L \subseteq A
    BY WorldFacts DEF Low
  <1>2. \A a \in L : g[a] = f[Put(a, t, 0)] + f[Put(a, t, 1)]
    <2> SUFFICES ASSUME NEW a \in L PROVE g[a] = f[Put(a, t, 0)] + f[Put(a, t, 1)]
      OBVIOUS
    <2> DEFINE r == Rest(w, a, t)
               p0 == Chance(w, t, 0)
               p1 == Chance(w, t, 1)
               G0 == G[Put(a, t, 0)]
               G1 == G[Put(a, t, 1)]
    <2>1. 0 \in Bit /\ 1 \in Bit /\ a \in A
      BY <1>1 DEF Bit
    <2>2. /\ Put(a, t, 0) \in A /\ Put(a, t, 1) \in A /\ r \in Int
          /\ Weight(w, Put(a, t, 0)) = p0 * r /\ Weight(w, Put(a, t, 1)) = p1 * r
      BY <2>1, WeightSplit
    <2>3. f[Put(a, t, 0)] = (p0 * r) * G0 /\ f[Put(a, t, 1)] = (p1 * r) * G1
      BY <2>2
    <2>4. p0 \in Int /\ p1 \in Int /\ G0 \in Int /\ G1 \in Int
      BY <2>1, <2>2, ChanceFacts
    <2>5. g[a] = r * (p0 * G0 + p1 * G1)
      OBVIOUS
    <2> HIDE DEF r, p0, p1, G0, G1
    <2>6. r * (p0 * G0 + p1 * G1) = (p0 * r) * G0 + (p1 * r) * G1
      BY <2>2, <2>4
    <2> QED
      BY <2>3, <2>5, <2>6
  <1> HIDE DEF n, L
  <1>3. L = Low(n, t) /\ g \in [L -> Int]
    BY DEF L, n
  <1> QED
    BY <1>1, <1>2, <1>3, SumByStep

-----------------------------------------------------------------------------
(* Sums over pairs and triples *)

CrossPairing(A, B) == [x \in A |-> [y \in B |-> <<x, y>>]]

\* row is f, laid out by its first coordinate, and h the sums of the rows.
Crossed(A, B, f, row, h) ==
  /\ f \in [A \X B -> Int]
  /\ row \in [A -> [B -> Int]] /\ \A x \in A, y \in B : row[x][y] = f[<<x, y>>]
  /\ h \in [A -> Int] /\ \A x \in A : h[x] = SumFunction(row[x])

LEMMA SumCross ==
  ASSUME NEW A, IsFiniteSet(A), NEW B, IsFiniteSet(B), NEW f, NEW row, NEW h, Crossed(A, B, f, row, h)
  PROVE  SumFunction(f) = SumFunction(h)
  <1> DEFINE D == A \X B
             p == CrossPairing(A, B)
  <1>1. p \in [A -> [B -> D]] /\ \A x \in A, y \in B : p[x][y] = <<x, y>>
    BY DEF CrossPairing
  <1>2. \A d \in D : \E x \in A, y \in B : d = <<x, y>>
    OBVIOUS
  <1>3. IsPairing(A, B, D, p)
    <2> HIDE DEF p, D
    <2> QED
      BY <1>1, <1>2 DEF IsPairing
  <1>4. ByRows(A, B, D, p, f, row, h)
    <2>1. f \in [D -> Int]
      BY DEF Crossed
    <2> HIDE DEF p, D
    <2> QED
      BY <1>1, <2>1 DEF ByRows, Crossed
  <1> HIDE DEF p, D
  <1> QED
    BY <1>3, <1>4, SumPairs

Triple(x, y) == <<x, y[1], y[2]>>
TriplePairing(A, B, C) == [x \in A |-> [y \in B \X C |-> Triple(x, y)]]

Crossed3(A, B, C, f, row, h) ==
  /\ f \in [A \X B \X C -> Int]
  /\ row \in [A -> [B \X C -> Int]]
  /\ \A x \in A, y \in B, z \in C : row[x][<<y, z>>] = f[<<x, y, z>>]
  /\ h \in [A -> Int] /\ \A x \in A : h[x] = SumFunction(row[x])

LEMMA CrossFinite ==
  ASSUME NEW A, IsFiniteSet(A), NEW B, IsFiniteSet(B)
  PROVE  IsFiniteSet(A \X B)
  BY FS_Product

LEMMA TripleIsPairing ==
  ASSUME NEW A, NEW B, NEW C PROVE IsPairing(A, B \X C, A \X B \X C, TriplePairing(A, B, C))
  <1> DEFINE D == A \X B \X C
             E == B \X C
             p == TriplePairing(A, B, C)
  <1>1. \A e \in E : e[1] \in B /\ e[2] \in C /\ e = <<e[1], e[2]>>
    OBVIOUS
  <1>2. p \in [A -> [E -> D]] /\ \A x \in A, y \in E : p[x][y] = Triple(x, y)
    BY <1>1 DEF TriplePairing, Triple
  <1>3. \A d \in D : \E x \in A, y \in E : d = Triple(x, y)
    <2> SUFFICES ASSUME NEW d \in D PROVE \E x \in A, y \in E : d = Triple(x, y)
      OBVIOUS
    <2>1. d[1] \in A /\ <<d[2], d[3]>> \in E /\ d = <<d[1], d[2], d[3]>>
      OBVIOUS
    <2>2. d = Triple(d[1], <<d[2], d[3]>>)
      BY <2>1 DEF Triple
    <2> HIDE DEF D, E
    <2> QED
      BY <2>1, <2>2
  <1>4. \A x, u \in A, y, v \in E : Triple(x, y) = Triple(u, v) => x = u /\ y = v
    BY <1>1 DEF Triple
  <1>5. IsPairing(A, E, D, p)
    <2> HIDE DEF p, D, E
    <2> QED
      BY <1>2, <1>3, <1>4 DEF IsPairing
  <1> QED
    BY <1>5

LEMMA Cross3Finite ==
  ASSUME NEW A, IsFiniteSet(A), NEW B, IsFiniteSet(B), NEW C, IsFiniteSet(C)
  PROVE  IsFiniteSet(A \X B \X C)
  <1> DEFINE D == A \X B \X C
             E == B \X C
             p == TriplePairing(A, B, C)
  <1>1. IsPairing(A, E, D, p) /\ IsFiniteSet(E)
    BY TripleIsPairing, CrossFinite
  <1> HIDE DEF D, E, p
  <1>2. IsFiniteSet(D)
    BY <1>1, PairsFinite
  <1> QED
    BY <1>2 DEF D

LEMMA SumCross3 ==
  ASSUME NEW A, IsFiniteSet(A), NEW B, IsFiniteSet(B), NEW C, IsFiniteSet(C),
         NEW f, NEW row, NEW h, Crossed3(A, B, C, f, row, h)
  PROVE  SumFunction(f) = SumFunction(h)
  <1> DEFINE D == A \X B \X C
             E == B \X C
             p == TriplePairing(A, B, C)
  <1>1. \A e \in E : e[1] \in B /\ e[2] \in C /\ e = <<e[1], e[2]>>
    OBVIOUS
  <1>2. p \in [A -> [E -> D]] /\ \A x \in A, y \in E : p[x][y] = Triple(x, y)
    BY <1>1 DEF TriplePairing, Triple
  <1>5. IsPairing(A, E, D, p)
    BY TripleIsPairing
  <1>6. ByRows(A, E, D, p, f, row, h)
    <2>1. f \in [D -> Int] /\ row \in [A -> [E -> Int]] /\ h \in [A -> Int]
          /\ \A x \in A : h[x] = SumFunction(row[x])
      BY DEF Crossed3
    <2>2. \A x \in A, y \in E : row[x][y] = f[Triple(x, y)]
      BY <1>1 DEF Crossed3, Triple
    <2>3. \A x \in A, y \in E : row[x][y] = f[p[x][y]]
      <3> HIDE DEF p, D, E
      <3> QED
        BY <1>2, <2>2
    <2> HIDE DEF p, D, E
    <2> QED
      BY <1>2, <2>1, <2>3 DEF ByRows
  <1>7. IsFiniteSet(E)
    BY CrossFinite
  <1> HIDE DEF p, D, E
  <1> QED
    BY <1>5, <1>6, <1>7, SumPairs

-----------------------------------------------------------------------------
(* Expectations over the action sequences, times the mass of these *)

Expect(w, F) == SumFunction([a \in Actions(w) |-> Weight(w, a) * F[a]])
Paths(w) == Power(Unit, Decisions(w))

LEMMA ActionsFinite == ASSUME NEW w, IsWorld(w) PROVE IsFiniteSet(Actions(w))
  BY WorldFacts, HistoriesFinite

LEMMA ActionWeight ==
  ASSUME NEW w, IsWorld(w), NEW a \in Actions(w) PROVE Weight(w, a) \in Int
  BY WorldFacts, WeightType

LEMMA ExpectIs ==
  ASSUME NEW w, IsWorld(w), NEW A, A = Actions(w), NEW F, F \in [A -> Int],
         NEW f, f = [a \in A |-> Weight(w, a) * F[a]]
  PROVE  f \in [A -> Int] /\ (\A a \in A : f[a] = Weight(w, a) * F[a]) /\ Expect(w, F) = SumFunction(f)
  <1>1. \A a \in A : Weight(w, a) * F[a] \in Int
    <2> SUFFICES ASSUME NEW a \in A PROVE Weight(w, a) * F[a] \in Int
      OBVIOUS
    <2>1. Weight(w, a) \in Int /\ F[a] \in Int
      BY ActionWeight
    <2> QED
      BY <2>1
  <1> QED
    BY <1>1 DEF Expect

LEMMA ExpectType ==
  ASSUME NEW w, IsWorld(w), NEW F, F \in [Actions(w) -> Int] PROVE Expect(w, F) \in Int
  <1> DEFINE A == Actions(w)
             f == [a \in A |-> Weight(w, a) * F[a]]
  <1>1. A = Actions(w) /\ f = [a \in A |-> Weight(w, a) * F[a]] /\ F \in [A -> Int]
    OBVIOUS
  <1>2. IsFiniteSet(A)
    BY ActionsFinite
  <1> HIDE DEF A, f
  <1>3. f \in [A -> Int] /\ Expect(w, F) = SumFunction(f)
    BY <1>1, ExpectIs
  <1> QED
    BY <1>2, <1>3, SumType

\* K is a combination of F and G.
Combines(A, F, G, c, d, K) ==
  /\ F \in [A -> Int] /\ G \in [A -> Int] /\ K \in [A -> Int] /\ c \in Int /\ d \in Int
  /\ \A a \in A : K[a] = c * F[a] + d * G[a]

LEMMA ExpectLinear ==
  ASSUME NEW w, IsWorld(w), NEW F, NEW G, NEW c, NEW d, NEW K,
         Combines(Actions(w), F, G, c, d, K)
  PROVE  Expect(w, K) = c * Expect(w, F) + d * Expect(w, G)
  <1> DEFINE A == Actions(w)
             f == [a \in A |-> Weight(w, a) * F[a]]
             g == [a \in A |-> Weight(w, a) * G[a]]
             k == [a \in A |-> Weight(w, a) * K[a]]
  <1>1. /\ A = Actions(w)
        /\ f = [a \in A |-> Weight(w, a) * F[a]] /\ g = [a \in A |-> Weight(w, a) * G[a]]
        /\ k = [a \in A |-> Weight(w, a) * K[a]]
    OBVIOUS
  <1>2. F \in [A -> Int] /\ G \in [A -> Int] /\ K \in [A -> Int] /\ c \in Int /\ d \in Int
        /\ \A a \in A : K[a] = c * F[a] + d * G[a]
    BY DEF Combines
  <1>3. IsFiniteSet(A) /\ \A a \in A : Weight(w, a) \in Int
    BY ActionsFinite, ActionWeight
  <1> HIDE DEF A, f, g, k
  <1>4. f \in [A -> Int] /\ (\A a \in A : f[a] = Weight(w, a) * F[a]) /\ Expect(w, F) = SumFunction(f)
    BY <1>1, <1>2, ExpectIs
  <1>5. g \in [A -> Int] /\ (\A a \in A : g[a] = Weight(w, a) * G[a]) /\ Expect(w, G) = SumFunction(g)
    BY <1>1, <1>2, ExpectIs
  <1>6. k \in [A -> Int] /\ (\A a \in A : k[a] = Weight(w, a) * K[a]) /\ Expect(w, K) = SumFunction(k)
    BY <1>1, <1>2, ExpectIs
  <1>7. \A a \in A : k[a] = c * f[a] + d * g[a]
    <2> SUFFICES ASSUME NEW a \in A PROVE k[a] = c * f[a] + d * g[a]
      OBVIOUS
    <2> DEFINE x == Weight(w, a)
               y == F[a]
               z == G[a]
    <2>1. k[a] = x * (c * y + d * z) /\ f[a] = x * y /\ g[a] = x * z
      BY <1>2, <1>4, <1>5, <1>6
    <2>2. x \in Int /\ y \in Int /\ z \in Int /\ c \in Int /\ d \in Int
      BY <1>2, <1>3
    <2> HIDE DEF x, y, z
    <2>3. x * (c * y + d * z) = c * (x * y) + d * (x * z)
      BY ONLY <2>2
    <2> QED
      BY <2>1, <2>3
  <1>8. SumFunction(k) = c * SumFunction(f) + d * SumFunction(g)
    BY ONLY <1>2, <1>3, <1>4, <1>5, <1>6, <1>7, SumLinear
  <1> QED
    BY <1>4, <1>5, <1>6, <1>8

\* The law of total expectation at one step: taking the actions there as they
\* come is averaging over them first.
Averages(w, t, G, F) ==
  /\ t \in Steps(w) /\ F \in [Actions(w) -> Int] /\ G \in [Actions(w) -> Int]
  /\ \A a \in Actions(w) : F[a] = Chance(w, t, 0) * G[Put(a, t, 0)] + Chance(w, t, 1) * G[Put(a, t, 1)]

LEMMA ExpectStep ==
  ASSUME NEW w, IsWorld(w), NEW t, NEW G, NEW F, Averages(w, t, G, F)
  PROVE  Expect(w, F) = Unit * Expect(w, G)
  <1> DEFINE n == Decisions(w)
             A == Actions(w)
             L == Low(n, t)
             p0 == Chance(w, t, 0)
             p1 == Chance(w, t, 1)
             f == [a \in A |-> Weight(w, a) * F[a]]
             g == [a \in A |-> Weight(w, a) * G[a]]
             lf == [a \in L |-> Rest(w, a, t) * (p0 * F[Put(a, t, 0)] + p1 * F[Put(a, t, 1)])]
             lg == [a \in L |-> Rest(w, a, t) * (p0 * G[Put(a, t, 0)] + p1 * G[Put(a, t, 1)])]
  <1>1. /\ n \in Nat /\ t \in 1..n /\ t \in Steps(w) /\ A = History(n) /\ A = Actions(w) /\ L = Low(n, t)
        /\ F \in [A -> Int] /\ G \in [A -> Int]
        /\ \A a \in A : F[a] = p0 * G[Put(a, t, 0)] + p1 * G[Put(a, t, 1)]
    BY WorldFacts DEF Averages
  <1>2. p0 \in Int /\ p1 \in Int /\ Unit \in Int /\ p0 + p1 = Unit /\ 0 \in Bit /\ 1 \in Bit
    <2>1. 0 \in Bit /\ 1 \in Bit
      BY DEF Bit
    <2>2. w.chance[t] \in Int /\ Unit \in Int
      BY <1>1, WorldFacts, UnitAssumption
    <2>3. p0 \in Int /\ p1 \in Int /\ p1 = w.chance[t] /\ p0 = Unit - w.chance[t]
      BY <1>1, <2>1, ChanceFacts
    <2> HIDE DEF p0, p1
    <2> QED
      BY <2>1, <2>2, <2>3
  <1>3. \A a \in L : a \in A
    BY <1>1 DEF Low
  <1>4. \A a \in A : /\ Put(a, t, 0) \in A /\ Put(a, t, 1) \in A
                     /\ \A x, y \in Bit : Put(Put(a, t, x), t, y) = Put(a, t, y)
    BY <1>1, <1>2, Setting
  <1>5. \A a \in L : Rest(w, a, t) \in Int
    BY <1>1, <1>2, <1>3, WeightSplit
  <1>6. /\ f = [a \in A |-> Weight(w, a) * F[a]] /\ g = [a \in A |-> Weight(w, a) * G[a]]
        /\ lf = [a \in L |-> Rest(w, a, t) * (p0 * F[Put(a, t, 0)] + p1 * F[Put(a, t, 1)])]
        /\ lg = [a \in L |-> Rest(w, a, t) * (p0 * G[Put(a, t, 0)] + p1 * G[Put(a, t, 1)])]
    OBVIOUS
  <1>7. IsFiniteSet(L)
    <2>1. L \subseteq A /\ IsFiniteSet(A)
      BY <1>3, ActionsFinite
    <2> HIDE DEF A, L
    <2> QED
      BY <2>1, FS_Subset
  <1> HIDE DEF n, A, L, f, g, lf, lg, p0, p1
  <1>8. f \in [A -> Int] /\ (\A a \in A : f[a] = Weight(w, a) * F[a]) /\ Expect(w, F) = SumFunction(f)
    BY <1>1, <1>6, ExpectIs
  <1>9. g \in [A -> Int] /\ (\A a \in A : g[a] = Weight(w, a) * G[a]) /\ Expect(w, G) = SumFunction(g)
    BY <1>1, <1>6, ExpectIs
  <1>10. ASSUME NEW a \in L
         PROVE  lf[a] \in Int /\ lg[a] \in Int /\ lf[a] = Unit * lg[a]
    <2> DEFINE r == Rest(w, a, t)
               G0 == G[Put(a, t, 0)]
               G1 == G[Put(a, t, 1)]
               F0 == F[Put(a, t, 0)]
               F1 == F[Put(a, t, 1)]
    <2>1. r \in Int /\ G0 \in Int /\ G1 \in Int /\ F0 \in Int /\ F1 \in Int
      BY <1>1, <1>3, <1>4, <1>5
    <2>2. F0 = p0 * G0 + p1 * G1 /\ F1 = p0 * G0 + p1 * G1
      <3>1. Put(a, t, 0) \in A /\ Put(a, t, 1) \in A
        BY <1>3, <1>4
      <3>2. /\ Put(Put(a, t, 0), t, 0) = Put(a, t, 0) /\ Put(Put(a, t, 0), t, 1) = Put(a, t, 1)
            /\ Put(Put(a, t, 1), t, 0) = Put(a, t, 0) /\ Put(Put(a, t, 1), t, 1) = Put(a, t, 1)
        BY <1>2, <1>3, <1>4
      <3> QED
        BY <1>1, <3>1, <3>2
    <2>3. lf[a] = r * (p0 * F0 + p1 * F1) /\ lg[a] = r * (p0 * G0 + p1 * G1)
      BY <1>6
    <2> HIDE DEF r, G0, G1, F0, F1
    <2> DEFINE m == p0 * G0 + p1 * G1
    <2>4. m \in Int /\ F0 = m /\ F1 = m
      BY <1>2, <2>1, <2>2
    <2>5. lg[a] = r * m
      BY <2>3
    <2> HIDE DEF m
    <2>6. p0 * m + p1 * m = Unit * m
      BY <1>2, <2>4
    <2>7. r * (Unit * m) = Unit * (r * m) /\ r * m \in Int /\ Unit * (r * m) \in Int
      BY <1>2, <2>1, <2>4
    <2> QED
      BY <2>3, <2>4, <2>5, <2>6, <2>7
  <1>11. lf \in [L -> Int] /\ lg \in [L -> Int]
    BY <1>6, <1>10
  <1>12. SumFunction(f) = SumFunction(lf)
    <2>1. L = Low(Decisions(w), t)
      BY <1>1 DEF n
    <2>2. lf \in [Low(Decisions(w), t) -> Int]
      BY <1>11, <2>1
    <2>3. \A a \in Low(Decisions(w), t) :
            lf[a] = Rest(w, a, t) * (Chance(w, t, 0) * F[Put(a, t, 0)] + Chance(w, t, 1) * F[Put(a, t, 1)])
      BY <1>6, <2>1 DEF p0, p1
    <2> QED
      BY <1>1, <1>8, <2>2, <2>3, SumOverStep
  <1>13. SumFunction(g) = SumFunction(lg)
    <2>1. L = Low(Decisions(w), t)
      BY <1>1 DEF n
    <2>2. lg \in [Low(Decisions(w), t) -> Int]
      BY <1>11, <2>1
    <2>3. \A a \in Low(Decisions(w), t) :
            lg[a] = Rest(w, a, t) * (Chance(w, t, 0) * G[Put(a, t, 0)] + Chance(w, t, 1) * G[Put(a, t, 1)])
      BY <1>6, <2>1 DEF p0, p1
    <2> QED
      BY <1>1, <1>9, <2>2, <2>3, SumOverStep
  <1>14. SumFunction(lf) = Unit * SumFunction(lg)
    BY <1>2, <1>7, <1>10, <1>11, SumScale
  <1> QED
    BY <1>8, <1>9, <1>12, <1>13, <1>14

\* F does not look at the action at t.
Ignores(w, t, F) ==
  /\ t \in Steps(w) /\ F \in [Actions(w) -> Int]
  /\ \A a \in Actions(w), x \in Bit : F[Put(a, t, x)] = F[a]

LEMMA ScoreAt ==
  ASSUME NEW w, IsWorld(w), NEW t \in Steps(w), NEW a \in Actions(w)
  PROVE  /\ Score(w, a, t) \in Int
         /\ \A x \in Bit : /\ Put(a, t, x) \in Actions(w)
                           /\ \A u \in Steps(w) \ {t} : Score(w, Put(a, t, x), u) = Score(w, a, u)
         /\ Score(w, Put(a, t, 0), t) = 0 - w.chance[t]
         /\ Score(w, Put(a, t, 1), t) = Unit - w.chance[t]
  <1>1. Decisions(w) \in Nat /\ t \in 1..Decisions(w) /\ a \in History(Decisions(w)) /\ 0 \in Bit /\ 1 \in Bit
    BY WorldFacts DEF Bit
  <1>2. a[t] \in Int /\ w.chance[t] \in Int /\ Unit \in Int
    BY <1>1, WorldFacts, UnitAssumption DEF History, Bit
  <1>3. \A x \in Bit : /\ Put(a, t, x) \in Actions(w) /\ Put(a, t, x)[t] = x
                       /\ \A u \in Steps(w) \ {t} : Put(a, t, x)[u] = a[u]
    BY <1>1, WorldFacts, Setting
  <1>4. Score(w, a, t) \in Int
    BY <1>2 DEF Score
  <1>5. \A x \in Bit, u \in Steps(w) \ {t} : Score(w, Put(a, t, x), u) = Score(w, a, u)
    BY <1>3 DEF Score
  <1>6. Score(w, Put(a, t, 0), t) = 0 - w.chance[t] /\ Score(w, Put(a, t, 1), t) = Unit - w.chance[t]
    BY <1>1, <1>2, <1>3 DEF Score
  <1> QED
    BY <1>3, <1>4, <1>5, <1>6

\* A score is zero in expectation, and so is its product with anything its
\* action does not change.
LEMMA ExpectScore ==
  ASSUME NEW w, IsWorld(w), NEW t, NEW F, Ignores(w, t, F),
         NEW S, S \in [Actions(w) -> Int], \A a \in Actions(w) : S[a] = F[a] * Score(w, a, t)
  PROVE  Expect(w, S) = 0
  <1> DEFINE A == Actions(w)
             Z == [a \in A |-> 0]
             p == w.chance[t]
  <1>1. t \in Steps(w) /\ p \in Int /\ Unit \in Nat \ {0} /\ 0 \in Bit /\ 1 \in Bit
        /\ Chance(w, t, 0) = Unit - p /\ Chance(w, t, 1) = p
    BY WorldFacts, ChanceFacts, UnitAssumption DEF Ignores, Bit
  <1>2. ASSUME NEW a \in A
        PROVE  Z[a] = Chance(w, t, 0) * S[Put(a, t, 0)] + Chance(w, t, 1) * S[Put(a, t, 1)]
    <2> DEFINE m == F[a]
    <2>1. m \in Int /\ F[Put(a, t, 0)] = m /\ F[Put(a, t, 1)] = m
      BY <1>1 DEF Ignores
    <2>2. Put(a, t, 0) \in A /\ Put(a, t, 1) \in A
      BY <1>1, ScoreAt
    <2>3. S[Put(a, t, 0)] = m * (0 - p) /\ S[Put(a, t, 1)] = m * (Unit - p)
      BY <1>1, <2>1, <2>2, ScoreAt
    <2> HIDE DEF m, p
    <2>4. 0 = (Unit - p) * (m * (0 - p)) + p * (m * (Unit - p))
      BY ONLY <1>1, <2>1
    <2> QED
      BY <1>1, <2>3, <2>4
  <1>3. Z \in [A -> Int] /\ \A a \in A : Z[a] = 0
    OBVIOUS
  <1> HIDE DEF Z, p
  <1>4. Averages(w, t, S, Z)
    BY <1>1, <1>2, <1>3 DEF Averages
  <1>5. Expect(w, Z) = Unit * Expect(w, S)
    BY <1>4, ExpectStep
  <1>6. Expect(w, Z) = 0
    <2>1. Combines(A, Z, Z, 0, 0, Z)
      BY <1>3 DEF Combines
    <2>2. Expect(w, Z) = 0 * Expect(w, Z) + 0 * Expect(w, Z) /\ Expect(w, Z) \in Int
      BY <1>3, <2>1, ExpectLinear, ExpectType
    <2> QED
      BY <2>2
  <1>7. Expect(w, S) \in Int
    BY ExpectType
  <1>8. \A u \in Nat \ {0}, e \in Int : u * e = 0 => e = 0
    OBVIOUS
  <1> QED
    BY <1>1, <1>5, <1>6, <1>7, <1>8

PrefixMass(w, k) == SumFunction([h \in History(k) |-> Weight(w, h)])

LEMMA MassStep ==
  ASSUME NEW w, IsWorld(w), NEW k \in Nat, k + 1 \in Steps(w)
  PROVE  PrefixMass(w, k + 1) = Unit * PrefixMass(w, k)
  <1> DEFINE D == History(k)
             E == History(k + 1)
             f == [h \in E |-> Weight(w, h)]
             g == [h \in D |-> Weight(w, h)]
             g2 == [h \in D |-> Unit * Weight(w, h)]
  <1>1. k \in 0..Decisions(w) /\ k + 1 \in 0..Decisions(w) /\ 0 \in Bit /\ 1 \in Bit
    BY WorldFacts DEF Bit
  <1>2. /\ \A h \in D : Weight(w, h) \in Int
        /\ \A h \in E : Weight(w, h) \in Int
        /\ Unit \in Int /\ w.chance[k + 1] \in Int
    BY <1>1, WeightType, UnitAssumption, WorldFacts
  <1>3. f \in [E -> Int] /\ g \in [D -> Int] /\ g2 \in [D -> Int] /\ \A h \in D : g2[h] = Unit * g[h]
    BY <1>2
  <1>4. \A h \in D : g2[h] = f[Append(h, 0)] + f[Append(h, 1)]
    <2> SUFFICES ASSUME NEW h \in D PROVE g2[h] = f[Append(h, 0)] + f[Append(h, 1)]
      OBVIOUS
    <2> DEFINE W == Weight(w, h)
               p == w.chance[k + 1]
    <2>1. Append(h, 0) \in E /\ Append(h, 1) \in E
      BY <1>1, Appending
    <2>2. f[Append(h, 0)] = W * (Unit - p) /\ f[Append(h, 1)] = W * p
      BY <1>1, <2>1, WeightAppend, ChanceFacts
    <2>3. W \in Int /\ p \in Int /\ g2[h] = Unit * W
      BY <1>2
    <2> HIDE DEF W, p, f, g2
    <2>4. Unit * W = W * (Unit - p) + W * p
      BY <1>2, <2>3
    <2> QED
      BY <2>2, <2>3, <2>4
  <1>5. PrefixMass(w, k + 1) = SumFunction(f) /\ PrefixMass(w, k) = SumFunction(g)
    BY DEF PrefixMass
  <1>6. IsFiniteSet(D)
    BY HistoriesFinite
  <1>7. D = History(k) /\ E = History(k + 1)
    OBVIOUS
  <1> HIDE DEF f, g, g2, D, E
  <1>8. SumFunction(f) = SumFunction(g2)
    BY <1>3, <1>4, <1>7, SumByLast
  <1>9. SumFunction(g2) = Unit * SumFunction(g)
    BY <1>2, <1>3, <1>6, SumScale
  <1> QED
    BY <1>5, <1>8, <1>9

LEMMA MassIs ==
  ASSUME NEW w, IsWorld(w)
  PROVE  PrefixMass(w, Decisions(w)) = Paths(w) /\ Paths(w) \in Nat \ {0}
  <1> DEFINE H == Decisions(w)
             X == {k \in Nat : k <= H => PrefixMass(w, k) = Power(Unit, k)}
  <1>1. H \in Nat /\ Steps(w) = 1..H /\ Unit \in Nat \ {0}
    BY WorldFacts, UnitAssumption
  <1>2. PrefixMass(w, 0) = 1
    <2>1. PICK e : History(0) = {e}
      BY NoHistory
    <2> DEFINE D == {e}
               g == [h \in D |-> Weight(w, h)]
    <2>2. e \in History(0) /\ DOMAIN e = {}
      BY <2>1 DEF History
    <2>3. Weight(w, e) = 1
      <3> DEFINE c == [t \in DOMAIN e |-> Chance(w, t, e[t])]
      <3>1. DOMAIN c = {}
        BY <2>2
      <3> HIDE DEF c
      <3>2. ProductOf(c) = 1
        BY <3>1, ProductEmpty
      <3> QED
        BY <3>2 DEF Weight, c
    <2>4. g \in [D -> Int] /\ e \in D /\ (\A x \in D \ {e} : g[x] = 0) /\ g[e] = 1 /\ PrefixMass(w, 0) = SumFunction(g)
      BY <2>1, <2>3 DEF PrefixMass
    <2>5. IsFiniteSet(D)
      BY FS_Singleton
    <2> HIDE DEF g, D
    <2> QED
      BY <2>4, <2>5, SumSingle
  <1>3. 0 \in X
    BY <1>1, <1>2, PowerZero
  <1>4. ASSUME NEW k \in Nat, k \in X PROVE k + 1 \in X
    <2> SUFFICES ASSUME k + 1 <= H PROVE PrefixMass(w, k + 1) = Power(Unit, k + 1)
      OBVIOUS
    <2>1. k + 1 \in Steps(w) /\ PrefixMass(w, k) = Power(Unit, k)
      BY <1>1, <1>4
    <2>2. PrefixMass(w, k + 1) = Unit * PrefixMass(w, k)
      BY <2>1, MassStep
    <2>3. Power(Unit, k + 1) = Unit * Power(Unit, k)
      BY <1>1, PowerNext
    <2> QED
      BY <2>1, <2>2, <2>3
  <1> HIDE DEF X
  <1>5. H \in X
    BY <1>1, <1>3, <1>4, NatSetInduction
  <1>6. Power(Unit, H) \in Nat \ {0}
    BY <1>1, PowerPositive
  <1> QED
    BY <1>1, <1>5, <1>6 DEF X, Paths

LEMMA ExpectConstant ==
  ASSUME NEW w, IsWorld(w), NEW c \in Int, NEW F, F \in [Actions(w) -> Int],
         \A a \in Actions(w) : F[a] = c
  PROVE  Expect(w, F) = c * Paths(w)
  <1> DEFINE A == Actions(w)
             f == [a \in A |-> Weight(w, a) * F[a]]
             g == [h \in A |-> Weight(w, h)]
  <1>1. A = Actions(w) /\ f = [a \in A |-> Weight(w, a) * F[a]] /\ IsFiniteSet(A)
    BY ActionsFinite
  <1>2. g \in [A -> Int] /\ (\A a \in A : g[a] = Weight(w, a)) /\ SumFunction(g) = Paths(w)
    BY ActionWeight, MassIs, WorldFacts DEF PrefixMass
  <1>3. F \in [A -> Int] /\ \A a \in A : F[a] = c
    OBVIOUS
  <1> HIDE DEF A, f, g
  <1>4. f \in [A -> Int] /\ (\A a \in A : f[a] = Weight(w, a) * F[a]) /\ Expect(w, F) = SumFunction(f)
    BY <1>1, <1>3, ExpectIs
  <1>5. \A a \in A : f[a] = c * g[a]
    <2> SUFFICES ASSUME NEW a \in A PROVE f[a] = c * g[a]
      OBVIOUS
    <2>1. Weight(w, a) \in Int /\ f[a] = Weight(w, a) * c /\ g[a] = Weight(w, a)
      BY <1>2, <1>3, <1>4
    <2> QED
      BY <2>1
  <1> QED
    BY <1>1, <1>2, <1>4, <1>5, SumScale

\* What depends on one action only.
LEMMA ExpectOneStep ==
  ASSUME NEW w, IsWorld(w), NEW t \in Steps(w), NEW c, c \in [Bit -> Int],
         NEW F, F \in [Actions(w) -> Int], \A a \in Actions(w) : F[a] = c[a[t]]
  PROVE  Unit * Expect(w, F) = (Chance(w, t, 0) * c[0] + Chance(w, t, 1) * c[1]) * Paths(w)
  <1> DEFINE A == Actions(w)
             m == Chance(w, t, 0) * c[0] + Chance(w, t, 1) * c[1]
             M == [a \in A |-> m]
  <1>1. m \in Int /\ 0 \in Bit /\ 1 \in Bit
    <2>1. 0 \in Bit /\ 1 \in Bit
      BY DEF Bit
    <2>2. Chance(w, t, 0) \in Int /\ Chance(w, t, 1) \in Int /\ c[0] \in Int /\ c[1] \in Int
      BY <2>1, ChanceFacts
    <2> QED
      BY <2>1, <2>2
  <1>2. ASSUME NEW a \in A
        PROVE  /\ Put(a, t, 0) \in A /\ Put(a, t, 0)[t] = 0
               /\ Put(a, t, 1) \in A /\ Put(a, t, 1)[t] = 1
    <2>1. /\ Decisions(w) \in Nat /\ t \in 1..Decisions(w)
          /\ A = History(Decisions(w)) /\ a \in History(Decisions(w))
      BY WorldFacts
    <2>2. \A x \in Bit : Put(a, t, x) \in History(Decisions(w)) /\ Put(a, t, x)[t] = x
      BY ONLY <2>1, Setting
    <2> QED
      BY ONLY <1>1, <2>1, <2>2
  <1>3. M \in [A -> Int] /\ (\A a \in A : M[a] = m)
    BY <1>1
  <1>4. \A a \in A : M[a] = Chance(w, t, 0) * F[Put(a, t, 0)] + Chance(w, t, 1) * F[Put(a, t, 1)]
    BY <1>2
  <1> HIDE DEF M, m
  <1>5. Averages(w, t, F, M)
    BY <1>3, <1>4 DEF Averages
  <1>6. Expect(w, M) = Unit * Expect(w, F)
    BY <1>5, ExpectStep
  <1>7. Expect(w, M) = m * Paths(w)
    BY <1>1, <1>3, ExpectConstant
  <1> QED
    BY <1>6, <1>7 DEF m

-----------------------------------------------------------------------------
(* Expectations over pairs of action sequences *)

Expect2(w, V) == SumFunction([k \in Pairs(w) |-> Weight(w, k[1]) * Weight(w, k[2]) * V[k]])

\* h is the expectation of V over the second of the pair.
Inner(w, V, row, h) ==
  /\ V \in [Pairs(w) -> Int] /\ h \in [Actions(w) -> Int]
  /\ row \in [Actions(w) -> [Actions(w) -> Int]]
  /\ \A a, b \in Actions(w) : row[a][b] = V[<<a, b>>]
  /\ \A a \in Actions(w) : h[a] = Expect(w, row[a])

LEMMA Expect2Rows ==
  ASSUME NEW w, IsWorld(w), NEW V, NEW row, NEW h, Inner(w, V, row, h)
  PROVE  Expect2(w, V) = Expect(w, h)
  <1> DEFINE A == Actions(w)
             f == [k \in Pairs(w) |-> Weight(w, k[1]) * Weight(w, k[2]) * V[k]]
             wrow == [a \in A |-> [b \in A |-> Weight(w, a) * (Weight(w, b) * row[a][b])]]
             g == [a \in A |-> Weight(w, a) * h[a]]
  <1>1. IsFiniteSet(A) /\ (\A a \in A : Weight(w, a) \in Int) /\ Pairs(w) = A \X A
        /\ A = Actions(w) /\ g = [a \in A |-> Weight(w, a) * h[a]]
    BY ActionsFinite, ActionWeight DEF Pairs
  <1>2. /\ V \in [A \X A -> Int] /\ row \in [A -> [A -> Int]] /\ \A a, b \in A : row[a][b] = V[<<a, b>>]
        /\ h \in [A -> Int] /\ \A a \in A : h[a] = Expect(w, row[a])
    BY <1>1 DEF Inner
  <1>3. \A a, b \in A : Weight(w, a) * (Weight(w, b) * row[a][b]) \in Int
    <2> SUFFICES ASSUME NEW a \in A, NEW b \in A PROVE Weight(w, a) * (Weight(w, b) * row[a][b]) \in Int
      OBVIOUS
    <2>1. Weight(w, a) \in Int /\ Weight(w, b) \in Int /\ row[a][b] \in Int
      BY <1>1, <1>2
    <2> QED
      BY <2>1
  <1>4. wrow \in [A -> [A -> Int]]
    BY <1>3
  <1>5. \A k \in A \X A : Weight(w, k[1]) * Weight(w, k[2]) * V[k] \in Int
    <2> SUFFICES ASSUME NEW k \in A \X A PROVE Weight(w, k[1]) * Weight(w, k[2]) * V[k] \in Int
      OBVIOUS
    <2>1. Weight(w, k[1]) \in Int /\ Weight(w, k[2]) \in Int /\ V[k] \in Int
      BY <1>1, <1>2
    <2> QED
      BY <2>1
  <1>6. f \in [A \X A -> Int]
    BY <1>1, <1>5
  <1>7. \A a, b \in A : wrow[a][b] = f[<<a, b>>]
    <2> SUFFICES ASSUME NEW a \in A, NEW b \in A PROVE wrow[a][b] = f[<<a, b>>]
      OBVIOUS
    <2> DEFINE x == Weight(w, a)
               y == Weight(w, b)
               z == V[<<a, b>>]
    <2>1. x \in Int /\ y \in Int /\ z \in Int
      BY <1>1, <1>2
    <2>2. f[<<a, b>>] = x * y * z
      <3>1. <<a, b>> \in Pairs(w) /\ <<a, b>>[1] = a /\ <<a, b>>[2] = b
        BY <1>1
      <3> QED
        BY <3>1
    <2>3. wrow[a][b] = x * (y * z)
      BY <1>2
    <2> HIDE DEF x, y, z, f, wrow
    <2>4. x * y * z = x * (y * z)
      BY <2>1
    <2> QED
      BY <2>2, <2>3, <2>4
  <1>8. ASSUME NEW a \in A PROVE g[a] \in Int /\ g[a] = SumFunction(wrow[a])
    <2> DEFINE F == row[a]
               r == [b \in A |-> Weight(w, b) * F[b]]
               s == wrow[a]
    <2>1. F \in [A -> Int] /\ A = Actions(w) /\ r = [b \in A |-> Weight(w, b) * F[b]]
          /\ h[a] = Expect(w, F) /\ Weight(w, a) \in Int
          /\ h[a] \in Int
      BY <1>1, <1>2
    <2>2. s \in [A -> Int] /\ \A b \in A : s[b] = Weight(w, a) * (Weight(w, b) * F[b])
      BY <1>4
    <2>3. g[a] = Weight(w, a) * h[a] /\ SumFunction(wrow[a]) = SumFunction(s)
      OBVIOUS
    <2> HIDE DEF F, r, s, wrow, g, A
    <2>4. r \in [A -> Int] /\ (\A b \in A : r[b] = Weight(w, b) * F[b]) /\ Expect(w, F) = SumFunction(r)
      BY <2>1, ExpectIs
    <2>5. \A b \in A : s[b] = Weight(w, a) * r[b]
      BY <2>2, <2>4
    <2>6. SumFunction(s) = Weight(w, a) * SumFunction(r)
      BY <1>1, <2>1, <2>2, <2>4, <2>5, SumScale
    <2> QED
      BY <2>1, <2>3, <2>4, <2>6
  <1>9. g \in [A -> Int]
    BY <1>8
  <1>10. Expect2(w, V) = SumFunction(f)
    BY DEF Expect2
  <1> HIDE DEF A, f, g, wrow
  <1>11. Crossed(A, A, f, wrow, g)
    BY <1>4, <1>6, <1>7, <1>8, <1>9 DEF Crossed
  <1>12. SumFunction(f) = SumFunction(g)
    BY <1>1, <1>11, SumCross
  <1>13. Expect(w, h) = SumFunction(g)
    BY <1>1, <1>2, ExpectIs
  <1> QED
    BY <1>10, <1>12, <1>13

-----------------------------------------------------------------------------
(* Gradients as expectations *)

Payoff(w, t) == [a \in Actions(w) |-> w.reward[a] * Score(w, a, t)]

LEMMA GradientIsExpect ==
  ASSUME NEW w, IsWorld(w), NEW t \in Steps(w)
  PROVE  /\ Payoff(w, t) \in [Actions(w) -> Int]
         /\ Gradient(w)[t] = Expect(w, Payoff(w, t)) /\ Gradient(w)[t] \in Int
  <1> DEFINE A == Actions(w)
             f == [a \in A |-> Weight(w, a) * Payoff(w, t)[a]]
             g == [a \in A |-> Weight(w, a) * w.reward[a] * Score(w, a, t)]
  <1>1. \A a \in A : w.reward[a] \in Int /\ Score(w, a, t) \in Int /\ Weight(w, a) \in Int
    BY WorldFacts, ScoreAt, ActionWeight
  <1>2. Payoff(w, t) \in [A -> Int] /\ \A a \in A : Payoff(w, t)[a] = w.reward[a] * Score(w, a, t)
    BY <1>1 DEF Payoff
  <1>3. f = g
    <2>1. \A a \in A : Weight(w, a) * Payoff(w, t)[a] = Weight(w, a) * w.reward[a] * Score(w, a, t)
      <3> SUFFICES ASSUME NEW a \in A
                   PROVE Weight(w, a) * Payoff(w, t)[a] = Weight(w, a) * w.reward[a] * Score(w, a, t)
        OBVIOUS
      <3> DEFINE x == Weight(w, a)
                 y == w.reward[a]
                 z == Score(w, a, t)
      <3>1. x \in Int /\ y \in Int /\ z \in Int /\ Payoff(w, t)[a] = y * z
        BY <1>1, <1>2
      <3> HIDE DEF x, y, z
      <3>2. x * (y * z) = x * y * z
        BY <3>1
      <3> QED
        BY <3>1, <3>2 DEF x, y, z
    <2> QED
      BY <2>1
  <1>4. Gradient(w)[t] = SumFunction(g) /\ Expect(w, Payoff(w, t)) = SumFunction(f)
    BY DEF Gradient, Expect
  <1>5. Expect(w, Payoff(w, t)) \in Int
    BY <1>2, ExpectType
  <1> QED
    BY <1>2, <1>3, <1>4, <1>5

\* What the sibling's action at t changes, times the score of u.
Swapped(w, t, u) == [k \in Pairs(w) |-> Contrast(w, k[1], k[2], t) * Score(w, k[1], u)]

LEMMA ContrastIs ==
  ASSUME NEW w, IsWorld(w), NEW t \in Steps(w), NEW a \in Actions(w), NEW b \in Actions(w)
  PROVE  /\ b[t] \in Bit /\ Contrast(w, a, b, t) \in Int
         /\ Contrast(w, a, b, t) = w.reward[a] - w.reward[Put(a, t, b[t])]
  <1>1. b[t] \in Bit
    BY DEF Actions
  <1>2. Put(a, t, b[t]) \in Actions(w)
    BY <1>1, ScoreAt
  <1>3. Contrast(w, a, b, t) = w.reward[a] - w.reward[Put(a, t, b[t])]
    BY DEF Contrast, Put
  <1>4. w.reward[a] \in Int /\ w.reward[Put(a, t, b[t])] \in Int
    BY <1>2, WorldFacts
  <1> QED
    BY <1>1, <1>3, <1>4

\* The reward averaged over the action at t, times the score of u.
Averaged(w, t, u) ==
  [a \in Actions(w) |-> (Chance(w, t, 0) * w.reward[Put(a, t, 0)]
                         + Chance(w, t, 1) * w.reward[Put(a, t, 1)]) * Score(w, a, u)]

LEMMA AveragedFacts ==
  ASSUME NEW w, IsWorld(w), NEW t \in Steps(w), NEW u \in Steps(w)
  PROVE  /\ Averaged(w, t, u) \in [Actions(w) -> Int]
         /\ Expect(w, Averaged(w, t, u)) = IF u = t THEN 0 ELSE Unit * Gradient(w)[u]
  <1> DEFINE A == Actions(w)
             p0 == Chance(w, t, 0)
             p1 == Chance(w, t, 1)
             R(a) == w.reward[a]
             m == [a \in A |-> p0 * R(Put(a, t, 0)) + p1 * R(Put(a, t, 1))]
             K == Averaged(w, t, u)
             G == Payoff(w, u)
  <1>1. /\ p0 \in Int /\ p1 \in Int /\ 0 \in Bit /\ 1 \in Bit
        /\ \A a \in A : /\ R(a) \in Int /\ Score(w, a, u) \in Int
                        /\ Put(a, t, 0) \in A /\ Put(a, t, 1) \in A
    <2>1. 0 \in Bit /\ 1 \in Bit
      BY DEF Bit
    <2> QED
      BY <2>1, ChanceFacts, WorldFacts, ScoreAt
  <1>2. m \in [A -> Int]
    BY <1>1
  <1>3. K = [a \in A |-> m[a] * Score(w, a, u)]
    BY DEF Averaged
  <1>4. K \in [A -> Int] /\ \A a \in A : K[a] = m[a] * Score(w, a, u)
    <2> HIDE DEF m
    <2>1. \A a \in A : m[a] * Score(w, a, u) \in Int
      BY <1>1, <1>2
    <2> QED
      BY <1>3, <2>1
  <1>5. CASE u = t
    <2>1. \A a \in A, x \in Bit : m[Put(a, t, x)] = m[a]
      <3>1. \A a \in A, x \in Bit : /\ Put(a, t, x) \in A
                                   /\ Put(Put(a, t, x), t, 0) = Put(a, t, 0)
                                   /\ Put(Put(a, t, x), t, 1) = Put(a, t, 1)
        BY <1>1, WorldFacts, Setting
      <3> QED
        BY <3>1
    <2> HIDE DEF m, K
    <2>2. Ignores(w, t, m)
      BY <1>2, <2>1 DEF Ignores
    <2>3. Expect(w, K) = 0
      BY <1>4, <1>5, <2>2, ExpectScore
    <2> QED
      BY <1>4, <1>5, <2>3 DEF K
  <1>6. CASE u # t
    <2>1. \A a \in A : K[a] = p0 * G[Put(a, t, 0)] + p1 * G[Put(a, t, 1)]
      <3> SUFFICES ASSUME NEW a \in A PROVE K[a] = p0 * G[Put(a, t, 0)] + p1 * G[Put(a, t, 1)]
        OBVIOUS
      <3> DEFINE R0 == R(Put(a, t, 0))
                 R1 == R(Put(a, t, 1))
                 s == Score(w, a, u)
      <3>1. R0 \in Int /\ R1 \in Int /\ s \in Int
        BY <1>1
      <3>2. Score(w, Put(a, t, 0), u) = s /\ Score(w, Put(a, t, 1), u) = s
        BY <1>1, <1>6, ScoreAt
      <3>3. G[Put(a, t, 0)] = R0 * s /\ G[Put(a, t, 1)] = R1 * s
        BY <1>1, <3>2 DEF Payoff
      <3>4. K[a] = (p0 * R0 + p1 * R1) * s
        BY <1>4
      <3> HIDE DEF R0, R1, s, p0, p1, K, G
      <3>5. (p0 * R0 + p1 * R1) * s = p0 * (R0 * s) + p1 * (R1 * s)
        BY ONLY <1>1, <3>1
      <3> QED
        BY <3>3, <3>4, <3>5
    <2>2. G \in [A -> Int] /\ Expect(w, G) = Gradient(w)[u]
      BY GradientIsExpect
    <2> HIDE DEF K, G, m
    <2>3. Averages(w, t, G, K)
      BY <1>4, <2>1, <2>2 DEF Averages
    <2>4. Expect(w, K) = Unit * Gradient(w)[u]
      BY <2>2, <2>3, ExpectStep
    <2> QED
      BY <1>4, <1>6, <2>4 DEF K
  <1> QED
    BY <1>5, <1>6

\* A local contrast has, times the score of its own decision, the gradient of
\* this decision for expectation, and times any other score, none.
LEMMA SiblingSum ==
  ASSUME NEW w, IsWorld(w), NEW t \in Steps(w), NEW u \in Steps(w)
  PROVE  /\ Swapped(w, t, u) \in [Pairs(w) -> Int]
         /\ Expect2(w, Swapped(w, t, u)) = IF u = t THEN Gradient(w)[t] * Paths(w) ELSE 0
  <1> DEFINE A == Actions(w)
             V == Swapped(w, t, u)
             row == [a \in A |-> [b \in A |-> V[<<a, b>>]]]
             h == [a \in A |-> Expect(w, row[a])]
             P == Paths(w)
             G == Payoff(w, u)
             K == Averaged(w, t, u)
             hU == [a \in A |-> Unit * h[a]]
             g == Gradient(w)[u]
  <1>1. Pairs(w) = A \X A /\ Unit \in Nat \ {0} /\ P \in Int /\ 0 \in Bit /\ 1 \in Bit
    BY MassIs, UnitAssumption DEF Pairs, Bit
  <1>2. /\ \A a \in A : Score(w, a, u) \in Int /\ w.reward[a] \in Int
        /\ \A a, b \in A : Contrast(w, a, b, t) \in Int
    BY ScoreAt, ContrastIs, WorldFacts
  <1>3. V \in [Pairs(w) -> Int] /\ \A a, b \in A : V[<<a, b>>] = Contrast(w, a, b, t) * Score(w, a, u)
    <2>1. \A k \in Pairs(w) : k[1] \in A /\ k[2] \in A
      BY <1>1
    <2>2. \A k \in Pairs(w) : Contrast(w, k[1], k[2], t) * Score(w, k[1], u) \in Int
      BY <1>2, <2>1
    <2> QED
      BY <1>1, <2>2 DEF Swapped
  <1>4. row \in [A -> [A -> Int]] /\ \A a, b \in A : row[a][b] = V[<<a, b>>]
    BY <1>1, <1>3
  <1>5. \A a \in A : h[a] = Expect(w, row[a]) /\ h[a] \in Int
    <2> SUFFICES ASSUME NEW a \in A PROVE h[a] = Expect(w, row[a]) /\ h[a] \in Int
      OBVIOUS
    <2>1. row[a] \in [A -> Int] /\ h[a] = Expect(w, row[a])
      BY <1>4
    <2> HIDE DEF row, h
    <2> QED
      BY <2>1, ExpectType
  <1>6. h \in [A -> Int]
    BY <1>5
  <1>7. K \in [A -> Int] /\ G \in [A -> Int] /\ Expect(w, G) = g /\ g \in Int
        /\ Expect(w, K) = (IF u = t THEN 0 ELSE Unit * g)
    BY AveragedFacts, GradientIsExpect
  <1>8. \A a \in A : hU[a] = (Unit * P) * G[a] + (0 - P) * K[a]
    <2> SUFFICES ASSUME NEW a \in A PROVE hU[a] = (Unit * P) * G[a] + (0 - P) * K[a]
      OBVIOUS
    <2> DEFINE s == Score(w, a, u)
               R == w.reward[a]
               R0 == w.reward[Put(a, t, 0)]
               R1 == w.reward[Put(a, t, 1)]
               p0 == Chance(w, t, 0)
               p1 == Chance(w, t, 1)
               c == [x \in Bit |-> (R - w.reward[Put(a, t, x)]) * s]
               F == row[a]
    <2>1. \A x \in Bit : Put(a, t, x) \in A /\ w.reward[Put(a, t, x)] \in Int
      BY ScoreAt, WorldFacts
    <2>2. /\ s \in Int /\ R \in Int /\ R0 \in Int /\ R1 \in Int
          /\ p0 \in Int /\ p1 \in Int /\ p0 + p1 = Unit
      <3>1. w.chance[t] \in Int
        BY WorldFacts
      <3> QED
        BY <1>1, <1>2, <2>1, <3>1, ChanceFacts
    <2>3. c \in [Bit -> Int] /\ c[0] = (R - R0) * s /\ c[1] = (R - R1) * s
          /\ \A x \in Bit : c[x] = (R - w.reward[Put(a, t, x)]) * s
      <3>1. \A x \in Bit : (R - w.reward[Put(a, t, x)]) * s \in Int
        <4> HIDE DEF s, R
        <4> QED
          BY <2>1, <2>2
      <3> QED
        BY <1>1, <3>1
    <2>4. F \in [A -> Int] /\ \A b \in A : b[t] \in Bit /\ F[b] = Contrast(w, a, b, t) * s
      BY <1>3, <1>4, ContrastIs
    <2>5. \A b \in A : F[b] = c[b[t]]
      <3> SUFFICES ASSUME NEW b \in A PROVE F[b] = c[b[t]]
        OBVIOUS
      <3>1. Contrast(w, a, b, t) = R - w.reward[Put(a, t, b[t])] /\ b[t] \in Bit
        BY ContrastIs
      <3> HIDE DEF F, c, s, R
      <3> QED
        BY <2>3, <2>4, <3>1
    <2>6. h[a] = Expect(w, F) /\ h[a] \in Int /\ hU[a] = Unit * h[a]
      BY <1>5
    <2>7. G[a] = R * s
      BY DEF Payoff
    <2>8. K[a] = (p0 * R0 + p1 * R1) * s
      BY DEF Averaged
    <2> HIDE DEF s, R, R0, R1, c, F, h, hU, G, K, P
    <2>9. Unit * Expect(w, F) = (p0 * c[0] + p1 * c[1]) * P
      BY <2>3, <2>4, <2>5, ExpectOneStep DEF P
    <2> HIDE DEF p0, p1
    <2>10. (p0 * ((R - R0) * s) + p1 * ((R - R1) * s)) * P
             = ((p0 + p1) * P) * (R * s) + (0 - P) * ((p0 * R0 + p1 * R1) * s)
      BY ONLY <1>1, <2>2
    <2>11. (p0 + p1) * P = Unit * P
      BY ONLY <2>2
    <2> QED
      BY ONLY <2>3, <2>6, <2>7, <2>8, <2>9, <2>10, <2>11
  <1>9. hU \in [A -> Int] /\ \A a \in A : hU[a] = Unit * h[a] + 0 * h[a]
    BY <1>1, <1>5
  <1> HIDE DEF V, row, h, P, G, K, hU, g, A
  <1>10. Expect2(w, V) = Expect(w, h) /\ Expect(w, h) \in Int
    <2>1. Inner(w, V, row, h)
      BY <1>3, <1>4, <1>5, <1>6 DEF Inner, A
    <2> QED
      BY <1>6, <2>1, Expect2Rows, ExpectType DEF A
  <1>11. Expect(w, hU) = Unit * Expect(w, h) + 0 * Expect(w, h)
    <2>1. Combines(Actions(w), h, h, Unit, 0, hU)
      BY <1>1, <1>6, <1>9 DEF Combines, A
    <2> QED
      BY <2>1, ExpectLinear
  <1>12. Expect(w, hU) = (Unit * P) * g + (0 - P) * Expect(w, K)
    <2>1. Combines(Actions(w), G, K, Unit * P, 0 - P, hU)
      BY <1>1, <1>7, <1>8, <1>9 DEF Combines, A
    <2> QED
      BY <1>7, <2>1, ExpectLinear
  <1>13. CASE u = t
    <2>1. Unit * Expect(w, h) = Unit * (g * P)
      BY <1>1, <1>7, <1>10, <1>11, <1>12, <1>13
    <2>2. \A m \in Nat \ {0}, x, y \in Int : m * x = m * y => x = y
      OBVIOUS
    <2>3. g * P \in Int
      BY <1>1, <1>7
    <2>4. Expect(w, h) = g * P
      BY <1>1, <1>10, <2>1, <2>2, <2>3
    <2> QED
      BY <1>3, <1>10, <1>13, <2>4 DEF V, g, P
  <1>14. CASE u # t
    <2>1. Unit * Expect(w, h) = 0
      <3>1. (Unit * P) * g + (0 - P) * (Unit * g) = 0
        BY ONLY <1>1, <1>7
      <3> QED
        BY <1>1, <1>7, <1>10, <1>11, <1>12, <1>14, <3>1
    <2>2. \A m \in Nat \ {0}, x \in Int : m * x = 0 => x = 0
      OBVIOUS
    <2>3. Expect(w, h) = 0
      BY <1>1, <1>10, <2>1, <2>2
    <2> QED
      BY <1>3, <1>10, <1>14, <2>3 DEF V
  <1> QED
    BY <1>13, <1>14

-----------------------------------------------------------------------------
(* Moments *)

\* One trajectory.
LEMMA SingleMoments ==
  ASSUME NEW w, IsWorld(w), NEW d, DOMAIN d.out = Actions(w),
         \A a \in Actions(w) : d.out[a].weight = Weight(w, a)
  PROVE  /\ Mass(d) = Paths(w)
         /\ \A t, V : (\A a \in Actions(w) : V[a] = d.out[a].vector[t]) => Mean(d, t) = Expect(w, V)
  <1> DEFINE A == Actions(w)
  <1>1. Mass(d) = SumFunction([a \in A |-> Weight(w, a)])
    <2>1. [k \in DOMAIN d.out |-> d.out[k].weight] = [a \in A |-> Weight(w, a)]
      OBVIOUS
    <2> QED
      BY <2>1 DEF Mass
  <1>2. Mass(d) = Paths(w)
    BY <1>1, MassIs, WorldFacts DEF PrefixMass
  <1>3. ASSUME NEW t, NEW V, \A a \in A : V[a] = d.out[a].vector[t]
        PROVE  Mean(d, t) = Expect(w, V)
    <2>1. [k \in DOMAIN d.out |-> d.out[k].weight * d.out[k].vector[t]]
            = [a \in A |-> Weight(w, a) * V[a]]
      BY <1>3
    <2> QED
      BY <2>1 DEF Mean, Expect
  <1> QED
    BY <1>2, <1>3

LEMMA Expect2Constant ==
  ASSUME NEW w, IsWorld(w), NEW V, V \in [Pairs(w) -> Int], \A k \in Pairs(w) : V[k] = 1
  PROVE  Expect2(w, V) = Paths(w) * Paths(w)
  <1> DEFINE A == Actions(w)
             one == [a \in A |-> 1]
             row == [a \in A |-> one]
             h == [a \in A |-> Paths(w)]
  <1>1. Pairs(w) = A \X A /\ Paths(w) \in Int
    BY MassIs DEF Pairs
  <1>2. one \in [A -> Int] /\ \A a \in A : one[a] = 1
    OBVIOUS
  <1>3. Expect(w, one) = 1 * Paths(w)
    <2>1. 1 \in Int
      OBVIOUS
    <2> HIDE DEF one
    <2> QED
      BY <1>2, <2>1, ExpectConstant
  <1>4. h \in [A -> Int] /\ \A a \in A : h[a] = Paths(w)
    BY <1>1
  <1>5. \A a \in A : row[a] = one
    OBVIOUS
  <1>6. row \in [A -> [A -> Int]] /\ \A a, b \in A : row[a][b] = V[<<a, b>>]
    BY <1>1, <1>2
  <1> HIDE DEF one, row, h
  <1>7. Inner(w, V, row, h)
    BY <1>1, <1>3, <1>4, <1>5, <1>6 DEF Inner
  <1>8. Expect(w, h) = Paths(w) * Paths(w)
    BY <1>1, <1>4, ExpectConstant
  <1> QED
    BY <1>7, <1>8, Expect2Rows

\* Two independent trajectories.
LEMMA PairMoments ==
  ASSUME NEW w, IsWorld(w), NEW d, DOMAIN d.out = Pairs(w),
         \A k \in Pairs(w) : d.out[k].weight = Weight(w, k[1]) * Weight(w, k[2])
  PROVE  /\ Mass(d) = Paths(w) * Paths(w)
         /\ \A t, V : (\A k \in Pairs(w) : V[k] = d.out[k].vector[t]) => Mean(d, t) = Expect2(w, V)
  <1> DEFINE one == [k \in Pairs(w) |-> 1]
  <1>1. \A k \in Pairs(w) : Weight(w, k[1]) * Weight(w, k[2]) \in Int
    <2>1. \A k \in Pairs(w) : Weight(w, k[1]) \in Int /\ Weight(w, k[2]) \in Int
      BY ActionWeight DEF Pairs
    <2> QED
      BY <2>1
  <1>2. Mass(d) = Expect2(w, one)
    <2>1. \A k \in Pairs(w) : Weight(w, k[1]) * Weight(w, k[2]) * one[k] = d.out[k].weight
      BY <1>1
    <2>2. [k \in DOMAIN d.out |-> d.out[k].weight]
            = [k \in Pairs(w) |-> Weight(w, k[1]) * Weight(w, k[2]) * one[k]]
      BY <2>1
    <2> HIDE DEF one
    <2> QED
      BY <2>2 DEF Mass, Expect2
  <1>3. Expect2(w, one) = Paths(w) * Paths(w)
    <2>1. one \in [Pairs(w) -> Int] /\ \A k \in Pairs(w) : one[k] = 1
      OBVIOUS
    <2> HIDE DEF one
    <2> QED
      BY <2>1, Expect2Constant
  <1>4. ASSUME NEW t, NEW V, \A k \in Pairs(w) : V[k] = d.out[k].vector[t]
        PROVE  Mean(d, t) = Expect2(w, V)
    <2>1. [k \in DOMAIN d.out |-> d.out[k].weight * d.out[k].vector[t]]
            = [k \in Pairs(w) |-> Weight(w, k[1]) * Weight(w, k[2]) * V[k]]
      BY <1>4
    <2> QED
      BY <2>1 DEF Mean, Expect2
  <1> QED
    BY <1>2, <1>3, <1>4

\* The gate multiplies out all denominators.
LEMMA UnbiasedIs ==
  ASSUME NEW w, IsWorld(w), NEW d, NEW target
  PROVE  /\ Unbiased(w, d, target) <=>
              \A t \in Steps(w) : Mean(d, t) * (Unit * Paths(w)) = target[t] * Mass(d) * d.scale[t]
         /\ Unit \in Nat \ {0} /\ Paths(w) \in Nat \ {0}
  <1>1. Power(Unit, Decisions(w) + 1) = Unit * Paths(w)
    BY WorldFacts, UnitAssumption, PowerNext DEF Paths
  <1> QED
    BY <1>1, MassIs, UnitAssumption DEF Unbiased

\* dense.py: the reward times the score is unbiased.
THEOREM DenseUnbiased ==
  ASSUME NEW w, IsWorld(w) PROVE Unbiased(w, DenseDist(w), Gradient(w))
  <1> DEFINE d == DenseDist(w)
             P == Paths(w)
  <1>1. DOMAIN d.out = Actions(w) /\ \A a \in Actions(w) : d.out[a].weight = Weight(w, a)
    BY DEF DenseDist
  <1>2. \A t \in Steps(w), a \in Actions(w) : Payoff(w, t)[a] = d.out[a].vector[t]
    BY DEF DenseDist, Payoff
  <1>3. \A t \in Steps(w) : d.scale[t] = Unit
    BY DEF DenseDist, Same
  <1> HIDE DEF d
  <1>4. Mass(d) = P
    BY <1>1, SingleMoments
  <1>5. ASSUME NEW t \in Steps(w)
        PROVE  Mean(d, t) * (Unit * P) = Gradient(w)[t] * Mass(d) * d.scale[t]
    <2> DEFINE g == Gradient(w)[t]
    <2>1. Mean(d, t) = g /\ g \in Int
      BY <1>1, <1>2, SingleMoments, GradientIsExpect
    <2>2. Unit \in Int /\ P \in Int
      BY UnbiasedIs
    <2> HIDE DEF g, P
    <2>3. g * (Unit * P) = g * P * Unit
      BY ONLY <2>1, <2>2
    <2> QED
      BY <1>3, <1>4, <2>1, <2>3 DEF g
  <1> QED
    BY <1>5, UnbiasedIs DEF d, P

\* What coordinate u of the three mechanisms can be, and its expectation m.
SiblingRow(w, vectors, u, t, m) ==
  \/ m = 0 /\ \A k \in Pairs(w) : vectors[k][u] = 0
  \/ m = Expect2(w, Swapped(w, t, u)) /\ \A k \in Pairs(w) : vectors[k][u] = Swapped(w, t, u)[k]

\* sibling.py: the moments of these.
LEMMA SiblingMean ==
  ASSUME NEW w, IsWorld(w), NEW vectors,
         NEW u \in Steps(w), NEW t, NEW m, SiblingRow(w, vectors, u, t, m)
  PROVE  /\ Mass(SiblingDist(w, vectors)) = Paths(w) * Paths(w)
         /\ SiblingDist(w, vectors).scale[u] = Unit
         /\ Mean(SiblingDist(w, vectors), u) = m
  <1> DEFINE d == SiblingDist(w, vectors)
             z == [k \in Pairs(w) |-> 0]
  <1>1. /\ DOMAIN d.out = Pairs(w)
        /\ \A k \in Pairs(w) : d.out[k].weight = Weight(w, k[1]) * Weight(w, k[2])
        /\ \A k \in Pairs(w) : d.out[k].vector[u] = vectors[k][u]
        /\ d.scale[u] = Unit
    BY DEF SiblingDist, Same
  <1>2. CASE m = 0 /\ \A k \in Pairs(w) : vectors[k][u] = 0
    <2> DEFINE f == [k \in Pairs(w) |-> Weight(w, k[1]) * Weight(w, k[2]) * z[k]]
               D == Pairs(w)
    <2>1. \A k \in Pairs(w) : Weight(w, k[1]) * Weight(w, k[2]) * z[k] = 0
      <3>1. \A k \in Pairs(w) : Weight(w, k[1]) \in Int /\ Weight(w, k[2]) \in Int
        BY ActionWeight DEF Pairs
      <3> QED
        BY <3>1
    <2>2. f \in [D -> Int] /\ \A k \in D : f[k] = 0
      BY <2>1
    <2>3. IsFiniteSet(D)
      BY ActionsFinite, CrossFinite DEF Pairs
    <2>4. Expect2(w, z) = SumFunction(f)
      BY DEF Expect2
    <2>5. \A k \in Pairs(w) : z[k] = d.out[k].vector[u]
      BY <1>1, <1>2
    <2> HIDE DEF d, z, f, D
    <2>6. SumFunction(f) = 0
      BY <2>2, <2>3, SumZero
    <2>7. Mean(d, u) = Expect2(w, z) /\ Mass(d) = Paths(w) * Paths(w)
      BY <1>1, <2>5, PairMoments
    <2> QED
      BY <1>1, <1>2, <2>4, <2>6, <2>7 DEF d
  <1>3. CASE m = Expect2(w, Swapped(w, t, u)) /\ \A k \in Pairs(w) : vectors[k][u] = Swapped(w, t, u)[k]
    <2>1. \A k \in Pairs(w) : Swapped(w, t, u)[k] = d.out[k].vector[u]
      BY <1>1, <1>3
    <2> HIDE DEF d
    <2>2. Mean(d, u) = Expect2(w, Swapped(w, t, u)) /\ Mass(d) = Paths(w) * Paths(w)
      BY <1>1, <2>1, PairMoments
    <2> QED
      BY <1>1, <1>3, <2>2 DEF d
  <1> QED
    BY <1>2, <1>3 DEF SiblingRow

LEMMA Balance ==
  ASSUME NEW U \in Nat \ {0}, NEW P \in Nat \ {0}, NEW g \in Int
  PROVE  /\ (g * P) * (U * P) = g * (P * P) * U
         /\ 0 * (U * P) = g * (P * P) * U <=> g = 0
  <1>1. (g * P) * (U * P) = g * (P * P) * U
    OBVIOUS
  <1>2. \A a, b \in Nat \ {0} : a * b \in Nat \ {0}
    OBVIOUS
  <1>3. (P * P) * U \in Nat \ {0}
    BY <1>2
  <1>4. \A m \in Nat \ {0} : g * m = 0 <=> g = 0
    OBVIOUS
  <1>5. g * (P * P) * U = g * ((P * P) * U)
    OBVIOUS
  <1>6. 0 * (U * P) = 0
    OBVIOUS
  <1> QED
    BY <1>1, <1>3, <1>4, <1>5, <1>6

Alone(w, t) == \A u \in Steps(w) \ {t} : Gradient(w)[u] = 0

\* What a sibling estimator whose vector is as follows has for verdict.
LEMMA SiblingVerdict ==
  ASSUME NEW w, IsWorld(w), NEW vectors, NEW u \in Steps(w), NEW target, target[u] \in Int
  PROVE  LET d == SiblingDist(w, vectors)
             holds == Mean(d, u) * (Unit * Paths(w)) = target[u] * Mass(d) * d.scale[u]
         IN /\ (\A k \in Pairs(w) : vectors[k][u] = Swapped(w, u, u)[k]) /\ target[u] = Gradient(w)[u]
                 => holds
            /\ \A t \in Steps(w) \ {u} :
                 (\A k \in Pairs(w) : vectors[k][u] = Swapped(w, t, u)[k])
                   => (holds <=> target[u] = 0)
            /\ (\A k \in Pairs(w) : vectors[k][u] = 0) => (holds <=> target[u] = 0)
  <1> DEFINE d == SiblingDist(w, vectors)
             P == Paths(w)
             g == Gradient(w)[u]
             x == target[u]
  <1>1. Unit \in Nat \ {0} /\ P \in Nat \ {0} /\ g \in Int /\ x \in Int
    BY UnbiasedIs, GradientIsExpect
  <1>2. ASSUME \A k \in Pairs(w) : vectors[k][u] = Swapped(w, u, u)[k], x = g
        PROVE  Mean(d, u) * (Unit * P) = x * Mass(d) * d.scale[u]
    <2>1. Mass(d) = P * P /\ d.scale[u] = Unit /\ Mean(d, u) = Expect2(w, Swapped(w, u, u))
      <3>1. SiblingRow(w, vectors, u, u, Expect2(w, Swapped(w, u, u)))
        BY <1>2 DEF SiblingRow
      <3> QED
        BY <3>1, SiblingMean
    <2>2. Expect2(w, Swapped(w, u, u)) = g * P
      BY SiblingSum
    <2> HIDE DEF d, P, g, x
    <2> QED
      BY <1>1, <1>2, <2>1, <2>2, Balance
  <1>3. ASSUME NEW t \in Steps(w) \ {u}, \A k \in Pairs(w) : vectors[k][u] = Swapped(w, t, u)[k]
        PROVE  Mean(d, u) * (Unit * P) = x * Mass(d) * d.scale[u] <=> x = 0
    <2>1. Mass(d) = P * P /\ d.scale[u] = Unit /\ Mean(d, u) = Expect2(w, Swapped(w, t, u))
      <3>1. SiblingRow(w, vectors, u, t, Expect2(w, Swapped(w, t, u)))
        BY <1>3 DEF SiblingRow
      <3> QED
        BY <3>1, SiblingMean
    <2>2. Expect2(w, Swapped(w, t, u)) = 0
      BY SiblingSum
    <2> HIDE DEF d, P, g, x
    <2> QED
      BY <1>1, <2>1, <2>2, Balance
  <1>4. ASSUME \A k \in Pairs(w) : vectors[k][u] = 0
        PROVE  Mean(d, u) * (Unit * P) = x * Mass(d) * d.scale[u] <=> x = 0
    <2>1. Mass(d) = P * P /\ d.scale[u] = Unit /\ Mean(d, u) = 0
      <3>1. SiblingRow(w, vectors, u, u, 0)
        BY <1>4 DEF SiblingRow
      <3> QED
        BY <3>1, SiblingMean
    <2> HIDE DEF d, P, g, x
    <2> QED
      BY <1>1, <2>1, Balance
  <1> HIDE DEF d
  <1> QED
    BY <1>2, <1>3, <1>4 DEF d, P, g, x

\* sibling.py, one contrast at its own decision: unbiased for the local target,
\* and for the gradient exactly if no other decision has one.
THEOREM LocalVerdict ==
  ASSUME NEW w, IsWorld(w), NEW t \in Steps(w)
  PROVE  /\ Unbiased(w, LocalDist(w, t), LocalTarget(w, t))
         /\ Unbiased(w, LocalDist(w, t), Gradient(w)) <=> Alone(w, t)
  <1> DEFINE vectors == [ab \in Pairs(w) |->
               [u \in Steps(w) |-> IF u = t THEN Contrast(w, ab[1], ab[2], t) * Score(w, ab[1], t) ELSE 0]]
             d == SiblingDist(w, vectors)
             holds(target, u) == Mean(d, u) * (Unit * Paths(w)) = target[u] * Mass(d) * d.scale[u]
  <1>1. LocalDist(w, t) = d
    BY DEF LocalDist
  <1>2. \A k \in Pairs(w) : vectors[k][t] = Swapped(w, t, t)[k]
    BY DEF Swapped
  <1>3. \A k \in Pairs(w), u \in Steps(w) \ {t} : vectors[k][u] = 0
    OBVIOUS
  <1>4. \A u \in Steps(w) : /\ Gradient(w)[u] \in Int
                            /\ LocalTarget(w, t)[u] = IF u = t THEN Gradient(w)[u] ELSE 0
    BY GradientIsExpect, LocalAgrees
  <1> HIDE DEF vectors
  <1>5. ASSUME NEW target, NEW u \in Steps(w), target[u] \in Int
        PROVE  /\ u = t /\ target[u] = Gradient(w)[u] => holds(target, u)
               /\ u # t => (holds(target, u) <=> target[u] = 0)
    <2>1. CASE u = t
      BY <1>2, <1>5, <2>1, SiblingVerdict
    <2>2. CASE u # t
      BY <1>3, <1>5, <2>2, SiblingVerdict
    <2> QED
      BY <2>1, <2>2
  <1> HIDE DEF d
  <1>6. \A u \in Steps(w) : holds(LocalTarget(w, t), u)
    BY <1>4, <1>5
  <1>7. (\A u \in Steps(w) : holds(Gradient(w), u)) <=> Alone(w, t)
    BY <1>4, <1>5 DEF Alone
  <1> QED
    BY <1>1, <1>6, <1>7, UnbiasedIs

\* sibling.py, one contrast at every decision: unbiased exactly if no other
\* decision has a gradient.  The scores of the prefix do not carry it there.
THEOREM PropagatedVerdict ==
  ASSUME NEW w, IsWorld(w), NEW t \in Steps(w)
  PROVE  Unbiased(w, PropagatedDist(w, t), Gradient(w)) <=> Alone(w, t)
  <1> DEFINE vectors == [ab \in Pairs(w) |->
               [u \in Steps(w) |-> Contrast(w, ab[1], ab[2], t) * Score(w, ab[1], u)]]
             d == SiblingDist(w, vectors)
             holds(u) == Mean(d, u) * (Unit * Paths(w)) = Gradient(w)[u] * Mass(d) * d.scale[u]
  <1>1. PropagatedDist(w, t) = d
    BY DEF PropagatedDist
  <1>2. \A k \in Pairs(w), u \in Steps(w) : vectors[k][u] = Swapped(w, t, u)[k]
    BY DEF Swapped
  <1>3. \A u \in Steps(w) : Gradient(w)[u] \in Int
    BY GradientIsExpect
  <1> HIDE DEF vectors
  <1>4. ASSUME NEW u \in Steps(w)
        PROVE  /\ u = t => holds(u)
               /\ u # t => (holds(u) <=> Gradient(w)[u] = 0)
    <2>1. CASE u = t
      BY <1>2, <1>3, <2>1, SiblingVerdict
    <2>2. CASE u # t
      BY <1>2, <1>3, <2>2, SiblingVerdict
    <2> QED
      BY <2>1, <2>2
  <1> HIDE DEF d
  <1>5. (\A u \in Steps(w) : holds(u)) <=> Alone(w, t)
    BY <1>4 DEF Alone
  <1> QED
    BY <1>1, <1>5, UnbiasedIs

\* sibling.py, a contrast at every decision: unbiased, and decisions without a
\* gradient may be left out.
THEOREM PairedUnbiased ==
  ASSUME NEW w, IsWorld(w), NEW skip, \A t \in Steps(w) \cap skip : Gradient(w)[t] = 0
  PROVE  Unbiased(w, PairedDist(w, skip), Gradient(w))
  <1> DEFINE vectors == [ab \in Pairs(w) |->
               [u \in Steps(w) |-> IF u \in skip THEN 0 ELSE Contrast(w, ab[1], ab[2], u) * Score(w, ab[1], u)]]
             d == SiblingDist(w, vectors)
             holds(u) == Mean(d, u) * (Unit * Paths(w)) = Gradient(w)[u] * Mass(d) * d.scale[u]
  <1>1. PairedDist(w, skip) = d
    BY DEF PairedDist
  <1>2. \A u \in Steps(w) \ skip, k \in Pairs(w) : vectors[k][u] = Swapped(w, u, u)[k]
    BY DEF Swapped
  <1>3. \A k \in Pairs(w), u \in Steps(w) \cap skip : vectors[k][u] = 0
    OBVIOUS
  <1>4. \A u \in Steps(w) : Gradient(w)[u] \in Int
    BY GradientIsExpect
  <1> HIDE DEF vectors
  <1>5. ASSUME NEW u \in Steps(w) PROVE holds(u)
    <2>1. CASE u \in skip
      BY <1>3, <1>4, <2>1, SiblingVerdict
    <2>2. CASE u \notin skip
      BY <1>2, <1>4, <2>2, SiblingVerdict
    <2> QED
      BY <2>1, <2>2
  <1> HIDE DEF d
  <1> QED
    BY <1>1, <1>5, UnbiasedIs

Scores(w, t) == [a \in Actions(w) |-> Score(w, a, t)]

LEMMA ScoreMean ==
  ASSUME NEW w, IsWorld(w), NEW t \in Steps(w)
  PROVE  Scores(w, t) \in [Actions(w) -> Int] /\ Expect(w, Scores(w, t)) = 0
  <1> DEFINE A == Actions(w)
             one == [a \in A |-> 1]
             S == Scores(w, t)
  <1>1. S \in [A -> Int] /\ \A a \in A : S[a] = Score(w, a, t) /\ S[a] \in Int
    BY ScoreAt DEF Scores
  <1>2. one \in [A -> Int] /\ \A a \in A, x \in Bit : one[Put(a, t, x)] = one[a]
    BY ScoreAt
  <1>3. \A a \in A : S[a] = one[a] * Score(w, a, t)
    BY <1>1
  <1> HIDE DEF one, S
  <1>4. Ignores(w, t, one)
    BY <1>2 DEF Ignores
  <1>5. Expect(w, S) = 0
    BY <1>1, <1>3, <1>4, ExpectScore
  <1> QED
    BY <1>1, <1>5 DEF S

\* dense.py: a constant baseline for each coordinate does not move the mean.
THEOREM OptimalConstantUnbiased ==
  ASSUME NEW w, IsWorld(w) PROVE Unbiased(w, OptimalConstantDist(w), Gradient(w))
  <1> DEFINE A == Actions(w)
             d == OptimalConstantDist(w)
             P == Paths(w)
             square(a, t) == Score(w, a, t) * Score(w, a, t)
             den == [t \in Steps(w) |-> SumFunction([a \in A |-> Weight(w, a) * square(a, t)])]
             num == [t \in Steps(w) |-> SumFunction([a \in A |-> Weight(w, a) * w.reward[a] * square(a, t)])]
  <1>1. d = [scale |-> [t \in Steps(w) |-> Unit * den[t]],
             out |-> [a \in A |->
                        [weight |-> Weight(w, a),
                         vector |-> [t \in Steps(w) |->
                                       (w.reward[a] * den[t] - num[t]) * Score(w, a, t)]]]]
    BY DEF OptimalConstantDist
  <1>2. \A t \in Steps(w) : den[t] \in Int /\ num[t] \in Int
    <2> SUFFICES ASSUME NEW t \in Steps(w) PROVE den[t] \in Int /\ num[t] \in Int
      OBVIOUS
    <2> DEFINE f == [a \in A |-> Weight(w, a) * square(a, t)]
               g == [a \in A |-> Weight(w, a) * w.reward[a] * square(a, t)]
    <2>1. \A a \in A : Weight(w, a) \in Int /\ w.reward[a] \in Int /\ square(a, t) \in Int
      <3>1. \A a \in A : Score(w, a, t) \in Int
        BY ScoreAt
      <3> QED
        BY <3>1, ActionWeight, WorldFacts
    <2>2. f \in [A -> Int] /\ g \in [A -> Int]
      <3> HIDE DEF square
      <3> QED
        BY <2>1
    <2>3. den[t] = SumFunction(f) /\ num[t] = SumFunction(g)
      OBVIOUS
    <2> HIDE DEF f, g
    <2> QED
      BY <2>2, <2>3, ActionsFinite, SumType
  <1> HIDE DEF den, num, square, d
  <1>3. DOMAIN d.out = Actions(w) /\ \A a \in Actions(w) : d.out[a].weight = Weight(w, a)
    BY <1>1
  <1>4. Mass(d) = P
    BY <1>3, SingleMoments
  <1>5. ASSUME NEW t \in Steps(w)
        PROVE  Mean(d, t) * (Unit * P) = Gradient(w)[t] * Mass(d) * d.scale[t]
    <2> DEFINE g == Gradient(w)[t]
               n == num[t]
               m == den[t]
               V == [a \in A |-> (w.reward[a] * m - n) * Score(w, a, t)]
               G == Payoff(w, t)
               S == Scores(w, t)
    <2>1. Unit \in Int /\ P \in Int /\ g \in Int /\ n \in Int /\ m \in Int
      BY <1>2, UnbiasedIs, GradientIsExpect
    <2>2. \A a \in A : V[a] = d.out[a].vector[t]
      BY <1>1
    <2>3. G \in [A -> Int] /\ S \in [A -> Int] /\ Expect(w, G) = g /\ Expect(w, S) = 0
      BY GradientIsExpect, ScoreMean
    <2>4. \A a \in A : V[a] = m * G[a] + (0 - n) * S[a] /\ V[a] \in Int
      <3> SUFFICES ASSUME NEW a \in A PROVE V[a] = m * G[a] + (0 - n) * S[a] /\ V[a] \in Int
        OBVIOUS
      <3> DEFINE R == w.reward[a]
                 s == Score(w, a, t)
      <3>1. R \in Int /\ s \in Int
        BY WorldFacts, ScoreAt
      <3>2. V[a] = (R * m - n) * s /\ G[a] = R * s /\ S[a] = s
        BY DEF Payoff, Scores
      <3> HIDE DEF V, G, S, R, s, m, n
      <3>3. (R * m - n) * s = m * (R * s) + (0 - n) * s /\ (R * m - n) * s \in Int
        BY ONLY <2>1, <3>1
      <3> QED
        BY <3>2, <3>3
    <2>5. V \in [A -> Int]
      BY <2>4
    <2>6. d.scale[t] = Unit * m
      BY <1>1
    <2> HIDE DEF V, G, S, m, n, g
    <2>7. Mean(d, t) = Expect(w, V)
      BY <1>3, <2>2, SingleMoments
    <2>8. Combines(Actions(w), G, S, m, 0 - n, V)
      BY <2>1, <2>3, <2>4, <2>5 DEF Combines
    <2>9. Expect(w, V) = m * g + (0 - n) * 0
      BY <2>3, <2>8, ExpectLinear
    <2> HIDE DEF P
    <2>10. (m * g + (0 - n) * 0) * (Unit * P) = g * P * (Unit * m)
      BY ONLY <2>1
    <2> QED
      BY <1>4, <2>6, <2>7, <2>9, <2>10 DEF g
  <1> QED
    BY <1>5, UnbiasedIs DEF d, P

\* dense.py: leave-one-out over two samples is unbiased.
THEOREM RlooUnbiased ==
  ASSUME NEW w, IsWorld(w) PROVE Unbiased(w, RlooDist(w), Gradient(w))
  <1> DEFINE A == Actions(w)
             d == RlooDist(w)
             P == Paths(w)
             one == [a \in A |-> 1]
             R == w.reward
  <1>1. /\ DOMAIN d.out = Pairs(w)
        /\ \A k \in Pairs(w) : d.out[k].weight = Weight(w, k[1]) * Weight(w, k[2])
    BY DEF RlooDist, Pairs
  <1>2. Mass(d) = P * P
    <2> HIDE DEF d
    <2> QED
      BY <1>1, PairMoments
  <1>3. one \in [A -> Int] /\ R \in [A -> Int] /\ \A a \in A : one[a] = 1
    BY WorldFacts
  <1>4. Expect(w, one) = 1 * P /\ Expect(w, R) \in Int
    <2>1. 1 \in Int
      OBVIOUS
    <2> HIDE DEF one
    <2> QED
      BY <1>3, <2>1, ExpectConstant, ExpectType
  <1>5. ASSUME NEW t \in Steps(w)
        PROVE  Mean(d, t) * (Unit * P) = Gradient(w)[t] * Mass(d) * d.scale[t]
    <2> DEFINE g == Gradient(w)[t]
               V == [k \in Pairs(w) |-> (R[k[1]] - R[k[2]]) * (Score(w, k[1], t) - Score(w, k[2], t))]
               G == Payoff(w, t)
               S == Scores(w, t)
               r == Expect(w, R)
               row == [a \in A |-> [b \in A |-> V[<<a, b>>]]]
               h == [a \in A |-> g + (G[a] * P - S[a] * r)]
    <2>1. Unit \in Int /\ P \in Int /\ g \in Int /\ r \in Int
      BY <1>4, UnbiasedIs, GradientIsExpect
    <2>2. G \in [A -> Int] /\ S \in [A -> Int] /\ Expect(w, G) = g /\ Expect(w, S) = 0
          /\ \A a \in A : G[a] = R[a] * S[a] /\ R[a] \in Int /\ S[a] \in Int /\ S[a] = Score(w, a, t)
      <3>1. \A a \in A : G[a] = R[a] * S[a] /\ S[a] = Score(w, a, t)
        BY DEF Payoff, Scores
      <3> QED
        BY <1>3, <3>1, GradientIsExpect, ScoreMean
    <2>3. Pairs(w) = A \X A
      BY DEF Pairs
    <2>4. \A k \in Pairs(w) : V[k] = d.out[k].vector[t]
      BY DEF RlooDist, Pairs
    <2>5. d.scale[t] = 2 * Unit
      BY DEF RlooDist, Same
    <2>6. \A a, b \in A : V[<<a, b>>] = (R[a] - R[b]) * (S[a] - S[b])
      <3>1. \A a, b \in A : <<a, b>> \in Pairs(w) /\ <<a, b>>[1] = a /\ <<a, b>>[2] = b
        BY <2>3
      <3> HIDE DEF R, S
      <3> QED
        BY <2>2, <3>1
    <2>7. V \in [Pairs(w) -> Int]
      <3>1. \A k \in Pairs(w) : k[1] \in A /\ k[2] \in A
        BY <2>3
      <3>2. \A k \in Pairs(w) : (R[k[1]] - R[k[2]]) * (Score(w, k[1], t) - Score(w, k[2], t)) \in Int
        <4> SUFFICES ASSUME NEW k \in Pairs(w)
                     PROVE (R[k[1]] - R[k[2]]) * (Score(w, k[1], t) - Score(w, k[2], t)) \in Int
          OBVIOUS
        <4>1. R[k[1]] \in Int /\ R[k[2]] \in Int /\ Score(w, k[1], t) \in Int /\ Score(w, k[2], t) \in Int
          BY <2>2, <3>1
        <4> QED
          BY <4>1
      <3> QED
        BY <3>2
    <2>8. row \in [A -> [A -> Int]] /\ \A a, b \in A : row[a][b] = V[<<a, b>>]
      BY <2>3, <2>7
    <2>9. \A a \in A : h[a] \in Int /\ h[a] = g + (G[a] * P - S[a] * r)
      <3> HIDE DEF G, S, g, P, r
      <3> QED
        BY <2>1, <2>2
    <2>10. h \in [A -> Int]
      BY <2>9
    <2> HIDE DEF d, V, row, h, G, S, r, g, one, P, R, A
    <2>11. ASSUME NEW a \in A PROVE h[a] = Expect(w, row[a])
      <3> DEFINE x == R[a]
                 y == S[a]
                 F1 == [b \in A |-> (0 - x) * S[b] + 1 * G[b]]
                 F2 == [b \in A |-> (0 - y) * R[b] + (x * y) * one[b]]
                 F == row[a]
      <3>1. x \in Int /\ y \in Int /\ G[a] = x * y /\ x * y \in Int
        BY <2>2
      <3>2. F \in [A -> Int] /\ \A b \in A : F[b] = (x - R[b]) * (y - S[b])
        BY <2>6, <2>8
      <3> HIDE DEF x, y, F
      <3>3. F1 \in [A -> Int] /\ \A b \in A : F1[b] = (0 - x) * S[b] + 1 * G[b]
        BY <2>2, <3>1
      <3>4. F2 \in [A -> Int] /\ \A b \in A : F2[b] = (0 - y) * R[b] + (x * y) * one[b]
        BY <1>3, <2>2, <3>1
      <3> HIDE DEF F1, F2
      <3>5. \A b \in A : F[b] = 1 * F1[b] + 1 * F2[b]
        <4> SUFFICES ASSUME NEW b \in A PROVE F[b] = 1 * F1[b] + 1 * F2[b]
          OBVIOUS
        <4> DEFINE u == R[b]
                   v == S[b]
        <4>1. u \in Int /\ v \in Int /\ G[b] = u * v /\ one[b] = 1
          BY <1>3, <2>2
        <4>2. F[b] = (x - u) * (y - v) /\ F1[b] = (0 - x) * v + 1 * (u * v)
              /\ F2[b] = (0 - y) * u + (x * y) * 1
          BY <3>2, <3>3, <3>4, <4>1
        <4> HIDE DEF u, v
        <4>3. (x - u) * (y - v) = 1 * ((0 - x) * v + 1 * (u * v)) + 1 * ((0 - y) * u + (x * y) * 1)
          BY ONLY <3>1, <4>1
        <4> QED
          BY <4>2, <4>3
      <3>6. Expect(w, F1) = (0 - x) * 0 + 1 * g
        <4>1. Combines(Actions(w), S, G, 0 - x, 1, F1)
          BY <2>2, <3>1, <3>3 DEF Combines, A
        <4> QED
          BY <2>2, <4>1, ExpectLinear
      <3>7. Expect(w, F2) = (0 - y) * r + (x * y) * (1 * P)
        <4>1. Combines(Actions(w), R, one, 0 - y, x * y, F2)
          BY <1>3, <3>1, <3>4 DEF Combines, A
        <4>2. Expect(w, F2) = (0 - y) * Expect(w, R) + (x * y) * Expect(w, one)
          BY <4>1, ExpectLinear
        <4> QED
          BY <1>4, <4>2 DEF r
      <3>8. Expect(w, F) = 1 * Expect(w, F1) + 1 * Expect(w, F2)
        <4>1. Combines(Actions(w), F1, F2, 1, 1, F)
          BY <3>2, <3>3, <3>4, <3>5 DEF Combines, A
        <4> QED
          BY <4>1, ExpectLinear
      <3>9. 1 * ((0 - x) * 0 + 1 * g) + 1 * ((0 - y) * r + (x * y) * (1 * P)) = g + ((x * y) * P - y * r)
        BY ONLY <2>1, <3>1
      <3>10. h[a] = g + ((x * y) * P - y * r)
        BY <2>9, <3>1 DEF y
      <3> QED
        BY <3>6, <3>7, <3>8, <3>9, <3>10 DEF F
    <2>12. Expect2(w, V) = Expect(w, h)
      <3>1. Inner(w, V, row, h)
        BY <2>7, <2>8, <2>10, <2>11 DEF Inner, A
      <3> QED
        BY <3>1, Expect2Rows
    <2>13. Expect(w, h) = g * P + g * P
      <3> DEFINE K == [a \in A |-> g * one[a] + P * G[a]]
      <3>1. K \in [A -> Int] /\ \A a \in A : K[a] = g * one[a] + P * G[a]
        BY <1>3, <2>1, <2>2
      <3> HIDE DEF K
      <3>2. Combines(Actions(w), one, G, g, P, K)
        BY <1>3, <2>1, <2>2, <3>1 DEF Combines, A
      <3>3. Expect(w, K) = g * (1 * P) + P * g
        <4>1. Expect(w, K) = g * Expect(w, one) + P * Expect(w, G)
          BY <3>2, ExpectLinear
        <4> QED
          BY <1>4, <2>2, <4>1
      <3>4. \A a \in A : h[a] = 1 * K[a] + (0 - r) * S[a]
        <4> SUFFICES ASSUME NEW a \in A PROVE h[a] = 1 * K[a] + (0 - r) * S[a]
          OBVIOUS
        <4> DEFINE x == G[a]
                   y == S[a]
        <4>1. x \in Int /\ y \in Int /\ h[a] = g + (x * P - y * r) /\ K[a] = g * 1 + P * x
          BY <1>3, <2>2, <2>9, <3>1
        <4> HIDE DEF x, y
        <4>2. g + (x * P - y * r) = 1 * (g * 1 + P * x) + (0 - r) * y
          BY ONLY <2>1, <4>1
        <4> QED
          BY <4>1, <4>2 DEF y
      <3>5. Combines(Actions(w), K, S, 1, 0 - r, h)
        BY <2>1, <2>2, <2>10, <3>1, <3>4 DEF Combines, A
      <3>6. Expect(w, h) = 1 * Expect(w, K) + (0 - r) * Expect(w, S)
        BY <3>5, ExpectLinear
      <3>7. 1 * (g * (1 * P) + P * g) + (0 - r) * 0 = g * P + g * P
        BY ONLY <2>1
      <3> QED
        BY <2>2, <3>3, <3>6, <3>7
    <2>14. Mean(d, t) = Expect2(w, V)
      BY <1>1, <2>4, PairMoments
    <2>15. (g * P + g * P) * (Unit * P) = g * (P * P) * (2 * Unit)
      BY ONLY <2>1
    <2> QED
      BY <1>2, <2>5, <2>12, <2>13, <2>14, <2>15 DEF g
  <1> QED
    BY <1>5, UnbiasedIs DEF P, d

-----------------------------------------------------------------------------
(* Sampled decisions *)

LEMMA SumInterval ==
  ASSUME NEW c \in Int PROVE \A n \in Nat : SumFunction([t \in 1..n |-> c]) = n * c
  <1> DEFINE X == {n \in Nat : SumFunction([t \in 1..n |-> c]) = n * c}
  <1>1. 0 \in X
    <2> DEFINE f == [t \in 1..0 |-> c]
    <2>1. DOMAIN f = {}
      OBVIOUS
    <2> HIDE DEF f
    <2>2. SumFunction(f) = 0
      BY <2>1, SumEmpty
    <2> QED
      BY <2>2 DEF f
  <1>2. ASSUME NEW n \in Nat, n \in X PROVE n + 1 \in X
    <2> DEFINE D == 1..(n + 1)
               E == 1..n
               f == [t \in D |-> c]
               g == [t \in E |-> c]
    <2>1. IsFiniteSet(D)
      BY FS_Interval
    <2>2. E = D \ {n + 1} /\ n + 1 \in D
      OBVIOUS
    <2>3. f \in [D -> Int] /\ g \in [E -> Int] /\ (\A t \in E : g[t] = f[t]) /\ f[n + 1] = c
      BY <2>2
    <2>4. SumFunction(g) = n * c
      BY <1>2
    <2> HIDE DEF D, E, f, g
    <2>5. SumFunction(f) = f[n + 1] + SumFunction(g)
      BY ONLY <2>1, <2>2, <2>3, SumTake
    <2>6. SumFunction(f) = (n + 1) * c
      BY <2>3, <2>4, <2>5
    <2> QED
      BY <2>6 DEF f, D
  <1> HIDE DEF X
  <1>3. Nat \subseteq X
    BY <1>1, <1>2, NatSetInduction
  <1> QED
    BY <1>3 DEF X

LEMMA PowerOne == \A n \in Nat : Power(1, n) = 1
  <1> DEFINE X == {n \in Nat : Power(1, n) = 1}
  <1>1. 0 \in X
    BY PowerZero
  <1>2. ASSUME NEW n \in Nat, n \in X PROVE n + 1 \in X
    <2>1. Power(1, n + 1) = 1 * Power(1, n)
      BY PowerNext
    <2> QED
      BY <1>2, <2>1
  <1> HIDE DEF X
  <1>3. Nat \subseteq X
    BY <1>1, <1>2, NatSetInduction
  <1> QED
    BY <1>3 DEF X

LEMMA UniformFacts ==
  ASSUME NEW w, IsWorld(w)
  PROVE  LET odds == UniformOdds(w)
         IN /\ Common(odds) = 1
            /\ \A t \in Steps(w) : odds[t] = 1 /\ odds[t] > 0 /\ Inverted(odds, t) = Decisions(w)
  <1> DEFINE odds == UniformOdds(w)
             H == Decisions(w)
             c == [t \in DOMAIN odds |-> IF odds[t] > 0 THEN odds[t] ELSE 1]
  <1>1. odds = [t \in 1..H |-> 1] /\ H \in Nat /\ Steps(w) = 1..H
    BY WorldFacts DEF UniformOdds, Same
  <1>2. c = [t \in 1..H |-> 1]
    BY <1>1
  <1>3. Common(odds) = 1
    <2>1. Common(odds) = Power(1, H)
      BY <1>2 DEF Common, Power
    <2> QED
      BY <1>1, <2>1, PowerOne
  <1>4. Total(odds) = H * 1
    <2>1. 1 \in Int
      OBVIOUS
    <2> QED
      BY <1>1, <2>1, SumInterval DEF Total
  <1>5. \A t \in Steps(w) : odds[t] = 1
    BY <1>1
  <1>6. \A t \in Steps(w) : Inverted(odds, t) = H
    <2>1. 1 \div 1 = 1
      OBVIOUS
    <2> HIDE DEF odds
    <2> QED
      BY <1>1, <1>3, <1>4, <1>5, <2>1 DEF Inverted
  <1> QED
    BY <1>3, <1>5, <1>6

LEMMA StepsFinite == ASSUME NEW w, IsWorld(w) PROVE IsFiniteSet(Steps(w))
  <1>1. Decisions(w) \in Int /\ 1 \in Int
    BY WorldFacts
  <1> QED
    BY <1>1, FS_Interval DEF Steps

LEMMA SumOverSteps ==
  ASSUME NEW w, IsWorld(w), NEW h, h \in [Steps(w) -> Int]
  PROVE  /\ \A u \in Steps(w) : (\A t \in Steps(w) \ {u} : h[t] = 0) => SumFunction(h) = h[u]
         /\ \A c \in Int : (\A t \in Steps(w) : h[t] = c) => SumFunction(h) = Decisions(w) * c
  <1>1. ASSUME NEW u \in Steps(w), \A t \in Steps(w) \ {u} : h[t] = 0
        PROVE  SumFunction(h) = h[u]
    BY <1>1, StepsFinite, SumSingle
  <1>2. ASSUME NEW c \in Int, \A t \in Steps(w) : h[t] = c
        PROVE  SumFunction(h) = Decisions(w) * c
    <2>1. h = [t \in 1..Decisions(w) |-> c] /\ Decisions(w) \in Nat
      BY <1>2, WorldFacts
    <2> QED
      BY <2>1, SumInterval
  <1> QED
    BY <1>1, <1>2

\* f sums, over the decisions, weighted functions of the trajectory.
Sampled(w, V, f) ==
  /\ V \in [Steps(w) -> [Actions(w) -> Int]]
  /\ f \in [Steps(w) \X Actions(w) -> Int]
  /\ \A t \in Steps(w), a \in Actions(w) : f[<<t, a>>] = Weight(w, a) * V[t][a]

LEMMA SampledSum ==
  ASSUME NEW w, IsWorld(w), NEW V, NEW f, Sampled(w, V, f),
         NEW h, h = [t \in Steps(w) |-> Expect(w, V[t])]
  PROVE  h \in [Steps(w) -> Int] /\ SumFunction(f) = SumFunction(h)
  <1> DEFINE A == Actions(w)
             T == Steps(w)
             row == [t \in T |-> [a \in A |-> Weight(w, a) * V[t][a]]]
  <1>1. V \in [T -> [A -> Int]] /\ f \in [T \X A -> Int]
        /\ (\A t \in T, a \in A : f[<<t, a>>] = Weight(w, a) * V[t][a])
    BY DEF Sampled
  <1>2. ASSUME NEW t \in T
        PROVE  /\ row[t] \in [A -> Int] /\ h[t] = SumFunction(row[t]) /\ h[t] \in Int
    <2> DEFINE F == V[t]
               r == [a \in A |-> Weight(w, a) * F[a]]
    <2>1. F \in [A -> Int] /\ A = Actions(w) /\ row[t] = r /\ h[t] = Expect(w, F)
      BY <1>1
    <2>2. r = [a \in A |-> Weight(w, a) * F[a]]
      OBVIOUS
    <2> HIDE DEF A, F, r, row
    <2>3. r \in [A -> Int] /\ Expect(w, F) = SumFunction(r)
      BY <2>1, <2>2, ExpectIs
    <2> QED
      BY <2>1, <2>3, ExpectType
  <1>3. row \in [T -> [A -> Int]]
    BY <1>2
  <1>4. h \in [T -> Int]
    BY <1>2
  <1>5. \A t \in T, a \in A : row[t][a] = f[<<t, a>>]
    BY <1>1
  <1>6. IsFiniteSet(T) /\ IsFiniteSet(A)
    BY StepsFinite, ActionsFinite
  <1> HIDE DEF row, T, A
  <1>7. Crossed(T, A, f, row, h)
    BY <1>1, <1>2, <1>3, <1>4, <1>5 DEF Crossed
  <1>8. SumFunction(f) = SumFunction(h)
    BY <1>6, <1>7, SumCross
  <1> QED
    BY <1>4, <1>8 DEF T

LEMMA ExpectScaled ==
  ASSUME NEW w, IsWorld(w), NEW F, F \in [Actions(w) -> Int], NEW c \in Int,
         NEW G, G \in [Actions(w) -> Int], \A a \in Actions(w) : G[a] = c * F[a]
  PROVE  Expect(w, G) = c * Expect(w, F)
  <1>1. \A a \in Actions(w) : G[a] = c * F[a] + 0 * F[a]
    <2>1. \A a \in Actions(w) : F[a] \in Int /\ G[a] = c * F[a] /\ c * F[a] \in Int
      OBVIOUS
    <2> QED
      BY <2>1
  <1>2. Combines(Actions(w), F, F, c, 0, G)
    BY <1>1 DEF Combines
  <1>3. Expect(w, G) = c * Expect(w, F) + 0 * Expect(w, F)
    BY <1>2, ExpectLinear
  <1>4. Expect(w, F) \in Int
    BY ExpectType
  <1>5. c * Expect(w, F) \in Int
    BY <1>4
  <1> QED
    BY <1>3, <1>4, <1>5

\* hh_ht.py: sampling one decision, each as likely as the others, and dividing by
\* its probability is unbiased.
THEOREM UniformHansenUnbiased ==
  ASSUME NEW w, IsWorld(w)
  PROVE  Unbiased(w, HansenHurwitzDist(w, UniformOdds(w)), Gradient(w))
  <1> DEFINE A == Actions(w)
             T == Steps(w)
             H == Decisions(w)
             odds == UniformOdds(w)
             d == HansenHurwitzDist(w, odds)
             P == Paths(w)
  <1>1. /\ Common(odds) = 1 /\ H \in Nat
        /\ \A t \in T : odds[t] = 1 /\ odds[t] > 0 /\ Inverted(odds, t) = H
    BY UniformFacts, WorldFacts
  <1> HIDE DEF odds
  <1>2. \A k \in T \X A : d.out[k].weight = Weight(w, k[2]) * odds[k[1]]
    BY DEF HansenHurwitzDist
  <1>3. \A k \in T \X A, u \in T :
          d.out[k].vector[u] = IF u = k[1] /\ odds[u] > 0
                                 THEN w.reward[k[2]] * Score(w, k[2], u) * Inverted(odds, u) ELSE 0
    BY DEF HansenHurwitzDist
  <1>4. DOMAIN d.out = T \X A
    BY DEF HansenHurwitzDist
  <1>5. \A t \in T : d.scale[t] = Unit * 1
    BY <1>1 DEF HansenHurwitzDist, Same
  <1>6. Unit \in Nat \ {0} /\ P \in Nat \ {0}
    BY UnbiasedIs
  <1>7. \A k \in T \X A : k[1] \in T /\ k[2] \in A /\ k = <<k[1], k[2]>>
    OBVIOUS
  <1>8. \A a \in A : Weight(w, a) \in Int /\ w.reward[a] \in Int
    BY ActionWeight, WorldFacts
  <1> HIDE DEF d
  <1>9. Mass(d) = H * P
    <2> DEFINE f == [k \in T \X A |-> d.out[k].weight]
               one == [a \in A |-> 1]
               V == [t \in T |-> one]
               h == [t \in T |-> Expect(w, V[t])]
    <2>1. \A k \in T \X A : d.out[k].weight = Weight(w, k[2]) /\ d.out[k].weight \in Int
      <3> SUFFICES ASSUME NEW k \in T \X A
                   PROVE  d.out[k].weight = Weight(w, k[2]) /\ d.out[k].weight \in Int
        OBVIOUS
      <3>1. Weight(w, k[2]) \in Int /\ odds[k[1]] = 1
        BY <1>1, <1>7, <1>8
      <3> QED
        BY <1>2, <3>1
    <2>2. f \in [T \X A -> Int] /\ \A t \in T, a \in A : f[<<t, a>>] = Weight(w, a)
      <3>1. \A t \in T, a \in A : <<t, a>> \in T \X A /\ <<t, a>>[2] = a
        OBVIOUS
      <3> QED
        BY <2>1, <3>1
    <2>3. one \in [A -> Int] /\ \A a \in A : one[a] = 1
      OBVIOUS
    <2>4. \A t \in T : V[t] = one
      OBVIOUS
    <2>5. V \in [T -> [A -> Int]] /\ \A t \in T, a \in A : f[<<t, a>>] = Weight(w, a) * V[t][a]
      <3>1. \A t \in T, a \in A : V[t][a] = 1 /\ Weight(w, a) * 1 = Weight(w, a)
        BY <1>8
      <3> HIDE DEF f
      <3> QED
        BY <2>2, <2>3, <3>1
    <2>6. Mass(d) = SumFunction(f)
      BY <1>4 DEF Mass
    <2>7. h = [t \in T |-> Expect(w, V[t])] /\ \A t \in T : h[t] = Expect(w, one)
      BY <2>4
    <2> HIDE DEF f, one, V, h
    <2>8. Expect(w, one) = 1 * P
      <3>1. 1 \in Int
        OBVIOUS
      <3> QED
        BY <2>3, <3>1, ExpectConstant
    <2>9. Sampled(w, V, f)
      BY <2>2, <2>5 DEF Sampled
    <2>10. h \in [T -> Int] /\ SumFunction(f) = SumFunction(h)
      BY <2>7, <2>9, SampledSum
    <2>11. \A t \in T : h[t] = P
      BY <1>6, <2>7, <2>8
    <2> HIDE DEF T, P
    <2>12. SumFunction(h) = H * P
      BY <1>6, <2>10, <2>11, SumOverSteps DEF T
    <2> QED
      BY <2>6, <2>10, <2>12
  <1>10. ASSUME NEW u \in T PROVE Mean(d, u) = H * Gradient(w)[u] /\ Gradient(w)[u] \in Int
    <2> DEFINE f == [k \in T \X A |-> d.out[k].weight * d.out[k].vector[u]]
               G == Payoff(w, u)
               z == [a \in A |-> 0]
               HG == [a \in A |-> H * G[a]]
               V == [t \in T |-> IF t = u THEN HG ELSE z]
               h == [t \in T |-> Expect(w, V[t])]
    <2>1. /\ G \in [A -> Int] /\ Gradient(w)[u] = Expect(w, G) /\ Gradient(w)[u] \in Int
          /\ \A a \in A : G[a] = w.reward[a] * Score(w, a, u) /\ Score(w, a, u) \in Int
      <3>1. \A a \in A : G[a] = w.reward[a] * Score(w, a, u) /\ Score(w, a, u) \in Int
        BY ScoreAt DEF Payoff
      <3> QED
        BY <3>1, GradientIsExpect
    <2> HIDE DEF G
    <2>2. HG \in [A -> Int] /\ z \in [A -> Int] /\ \A a \in A : HG[a] = H * G[a] /\ z[a] = 0
      <3>1. \A a \in A : H * G[a] \in Int
        BY <1>1, <2>1
      <3> QED
        BY <3>1
    <2>3. \A t \in T : V[t] = IF t = u THEN HG ELSE z
      OBVIOUS
    <2>4. V \in [T -> [A -> Int]]
      <3> HIDE DEF HG, z
      <3> QED
        BY <2>2
    <2>5. ASSUME NEW t \in T, NEW a \in A
          PROVE  f[<<t, a>>] = Weight(w, a) * V[t][a]
      <3> DEFINE k == <<t, a>>
                 W == Weight(w, a)
                 v == d.out[k].vector[u]
      <3>1. k \in T \X A /\ k[1] = t /\ k[2] = a
        OBVIOUS
      <3>2. d.out[k].weight = W * 1 /\ W \in Int
        BY <1>1, <1>2, <1>8, <3>1
      <3>3. v = V[t][a]
        <4>1. CASE t = u
          <5>1. v = w.reward[a] * Score(w, a, u) * H
            BY <1>1, <1>3, <3>1, <4>1
          <5>2. V[t][a] = H * G[a]
            BY <2>2, <2>3, <4>1
          <5>3. w.reward[a] * Score(w, a, u) * H = H * (w.reward[a] * Score(w, a, u))
            <6>1. w.reward[a] \in Int /\ Score(w, a, u) \in Int /\ H \in Int
              BY <1>1, <1>8, <2>1
            <6> QED
              BY ONLY <6>1
          <5> QED
            BY <2>1, <5>1, <5>2, <5>3
        <4>2. CASE t # u
          BY <1>3, <2>2, <2>3, <3>1, <4>2
        <4> QED
          BY <4>1, <4>2
      <3>4. f[k] = d.out[k].weight * v
        BY <3>1
      <3> HIDE DEF v, k, W, f, V
      <3>5. W * 1 = W
        BY <3>2
      <3> QED
        BY <3>2, <3>3, <3>4, <3>5 DEF k, W
    <2>6. f \in [T \X A -> Int]
      <3>1. \A k \in T \X A : f[k] \in Int
        <4> SUFFICES ASSUME NEW k \in T \X A PROVE f[k] \in Int
          OBVIOUS
        <4>1. f[<<k[1], k[2]>>] = Weight(w, k[2]) * V[k[1]][k[2]] /\ k = <<k[1], k[2]>>
          BY <1>7, <2>5
        <4>2. Weight(w, k[2]) \in Int /\ V[k[1]][k[2]] \in Int
          BY <1>7, <1>8, <2>4
        <4> HIDE DEF f, V
        <4> QED
          BY <4>1, <4>2
      <3> QED
        BY <3>1
    <2>7. Mean(d, u) = SumFunction(f)
      BY <1>4 DEF Mean
    <2>8. h = [t \in T |-> Expect(w, V[t])] /\ \A t \in T : h[t] = Expect(w, V[t])
      OBVIOUS
    <2> HIDE DEF f, HG, z, V, h
    <2>9. Sampled(w, V, f)
      BY <2>4, <2>5, <2>6 DEF Sampled
    <2>10. h \in [T -> Int] /\ SumFunction(f) = SumFunction(h)
      BY <2>8, <2>9, SampledSum
    <2>11. Expect(w, HG) = H * Gradient(w)[u]
      BY <1>1, <2>1, <2>2, ExpectScaled
    <2>12. Expect(w, z) = 0
      <3>1. Expect(w, z) = 0 * P
        <4>1. 0 \in Int
          OBVIOUS
        <4> QED
          BY <2>2, <4>1, ExpectConstant
      <3> QED
        BY <1>6, <3>1
    <2>13. h[u] = H * Gradient(w)[u] /\ \A t \in T \ {u} : h[t] = 0
      BY <2>3, <2>8, <2>11, <2>12
    <2> HIDE DEF T
    <2>14. SumFunction(h) = h[u]
      BY <2>10, <2>13, SumOverSteps DEF T
    <2> QED
      BY <2>1, <2>7, <2>10, <2>13, <2>14
  <1>11. ASSUME NEW u \in T
         PROVE  Mean(d, u) * (Unit * P) = Gradient(w)[u] * Mass(d) * d.scale[u]
    <2> DEFINE g == Gradient(w)[u]
    <2>1. g \in Int /\ Mean(d, u) = H * g /\ d.scale[u] = Unit * 1
      BY <1>5, <1>10
    <2> HIDE DEF g, P, H
    <2>2. (H * g) * (Unit * P) = g * (H * P) * (Unit * 1)
      BY ONLY <1>1, <1>6, <2>1
    <2> QED
      BY <1>9, <2>1, <2>2 DEF g
  <1> QED
    BY <1>11, UnbiasedIs DEF d, odds, P

\* A pair and a bit: over the bit first.
BitTriple(y, x) == <<y[1], y[2], x>>
BitPairing(A, B) == [y \in A \X B |-> [x \in Bit |-> BitTriple(y, x)]]

BitRows(A, B, f, g) ==
  /\ f \in [A \X B \X Bit -> Int] /\ g \in [A \X B -> Int]
  /\ \A a \in A, b \in B : g[<<a, b>>] = f[<<a, b, 0>>] + f[<<a, b, 1>>]

LEMMA SumByBit ==
  ASSUME NEW A, IsFiniteSet(A), NEW B, IsFiniteSet(B), NEW f, NEW g, BitRows(A, B, f, g)
  PROVE  SumFunction(f) = SumFunction(g)
  <1> DEFINE D == A \X B \X Bit
             E == A \X B
             p == BitPairing(A, B)
             row == [y \in E |-> [x \in Bit |-> f[BitTriple(y, x)]]]
  <1>1. \A e \in E : e[1] \in A /\ e[2] \in B /\ e = <<e[1], e[2]>>
    OBVIOUS
  <1>2. \A y \in E, x \in Bit : BitTriple(y, x) \in D
    BY <1>1 DEF BitTriple
  <1>3. p \in [E -> [Bit -> D]] /\ \A y \in E, x \in Bit : p[y][x] = BitTriple(y, x)
    BY <1>2 DEF BitPairing
  <1>4. \A d \in D : \E y \in E, x \in Bit : d = BitTriple(y, x)
    <2> SUFFICES ASSUME NEW d \in D PROVE \E y \in E, x \in Bit : d = BitTriple(y, x)
      OBVIOUS
    <2>1. <<d[1], d[2]>> \in E /\ d[3] \in Bit /\ d = <<d[1], d[2], d[3]>>
      OBVIOUS
    <2>2. d = BitTriple(<<d[1], d[2]>>, d[3])
      BY <2>1 DEF BitTriple
    <2> HIDE DEF D, E
    <2> QED
      BY <2>1, <2>2
  <1>5. \A y, v \in E, x, u \in Bit : BitTriple(y, x) = BitTriple(v, u) => y = v /\ x = u
    BY <1>1 DEF BitTriple
  <1>6. \A y \in E : g[y] = f[BitTriple(y, 0)] + f[BitTriple(y, 1)]
    <2> SUFFICES ASSUME NEW y \in E PROVE g[y] = f[BitTriple(y, 0)] + f[BitTriple(y, 1)]
      OBVIOUS
    <2>1. y[1] \in A /\ y[2] \in B /\ y = <<y[1], y[2]>>
      BY <1>1
    <2>2. g[<<y[1], y[2]>>] = f[<<y[1], y[2], 0>>] + f[<<y[1], y[2], 1>>]
      BY <2>1 DEF BitRows
    <2> QED
      BY <2>1, <2>2 DEF BitTriple
  <1>7. f \in [D -> Int] /\ g \in [E -> Int]
    BY DEF BitRows
  <1>8. row \in [E -> [Bit -> Int]] /\ \A y \in E, x \in Bit : row[y][x] = f[p[y][x]]
    <2> HIDE DEF D, E, p
    <2> QED
      BY <1>2, <1>3, <1>7
  <1>9. \A y \in E : row[y] \in [Bit -> Int] /\ row[y][0] = f[BitTriple(y, 0)] /\ row[y][1] = f[BitTriple(y, 1)]
    <2> HIDE DEF D, E, p
    <2>1. 0 \in Bit /\ 1 \in Bit
      BY DEF Bit
    <2> QED
      BY <1>8, <2>1
  <1>10. IsFiniteSet(E)
    BY CrossFinite
  <1> HIDE DEF D, E, p, row
  <1>11. \A y \in E : g[y] = SumFunction(row[y])
    <2> SUFFICES ASSUME NEW y \in E PROVE g[y] = SumFunction(row[y])
      OBVIOUS
    <2> DEFINE r == row[y]
    <2>1. r \in [Bit -> Int] /\ g[y] = r[0] + r[1]
      BY <1>6, <1>9
    <2> HIDE DEF r
    <2>2. SumFunction(r) = r[0] + r[1]
      BY <2>1, SumBits
    <2> QED
      BY <2>1, <2>2 DEF r
  <1>12. IsPairing(E, Bit, D, p)
    BY <1>3, <1>4, <1>5 DEF IsPairing
  <1>13. ByRows(E, Bit, D, p, f, row, g)
    BY <1>3, <1>7, <1>8, <1>11 DEF ByRows
  <1> QED
    BY <1>10, <1>12, <1>13, BitFinite, SumPairs

\* pc_rsg.py, the residual part: with every decision as likely as the others,
\* the correction of the sampled decision has no expectation and the estimator no
\* bias.
THEOREM UniformResidualUnbiased ==
  ASSUME NEW w, IsWorld(w)
  PROVE  Unbiased(w, PcRsgDist(w, UniformOdds(w)), Gradient(w))
  <1> DEFINE A == Actions(w)
             T == Steps(w)
             H == Decisions(w)
             odds == UniformOdds(w)
             d == PcRsgDist(w, odds)
             P == Paths(w)
             D == T \X A \X Bit
  <1>1. /\ Common(odds) = 1 /\ H \in Nat
        /\ \A t \in T : odds[t] = 1 /\ odds[t] > 0 /\ Inverted(odds, t) = H
    BY UniformFacts, WorldFacts
  <1> HIDE DEF odds
  <1>2. \A k \in D : d.out[k].weight = Weight(w, k[2]) * odds[k[1]] * Chance(w, k[1], k[3])
    BY DEF PcRsgDist
  <1>3. \A k \in D, u \in T :
          d.out[k].vector[u] =
            w.reward[k[2]] * Score(w, k[2], u) * Common(odds)
            + (IF u = k[1] /\ odds[k[1]] > 0
                 THEN ((w.reward[k[2]] - w.reward[Put(k[2], k[1], k[3])]) * Score(w, k[2], k[1])
                       - w.reward[k[2]] * Score(w, k[2], k[1])) * Inverted(odds, k[1])
                 ELSE 0)
    BY DEF PcRsgDist, Put
  <1>4. DOMAIN d.out = D
    BY DEF PcRsgDist
  <1>5. \A t \in T : d.scale[t] = Unit * 1
    BY <1>1 DEF PcRsgDist, Same
  <1>6. Unit \in Nat \ {0} /\ P \in Nat \ {0}
    BY UnbiasedIs
  <1>7. \A a \in A : Weight(w, a) \in Int /\ w.reward[a] \in Int
    BY ActionWeight, WorldFacts
  <1>8. /\ 0 \in Bit /\ 1 \in Bit
        /\ \A t \in T : /\ Chance(w, t, 0) \in Int /\ Chance(w, t, 1) \in Int
                        /\ Chance(w, t, 0) + Chance(w, t, 1) = Unit
    <2>1. 0 \in Bit /\ 1 \in Bit
      BY DEF Bit
    <2>2. ASSUME NEW t \in T
          PROVE  /\ Chance(w, t, 0) \in Int /\ Chance(w, t, 1) \in Int
                 /\ Chance(w, t, 0) + Chance(w, t, 1) = Unit
      <3>1. w.chance[t] \in Int
        BY WorldFacts
      <3>2. Chance(w, t, 0) \in Int /\ Chance(w, t, 1) \in Int
            /\ Chance(w, t, 1) = w.chance[t] /\ Chance(w, t, 0) = Unit - w.chance[t]
        BY <2>1, ChanceFacts
      <3> QED
        BY <1>6, <3>1, <3>2
    <2> QED
      BY <2>1, <2>2
  <1> HIDE DEF d
  <1>9. \A k \in D : k[1] \in T /\ k[2] \in A /\ k[3] \in Bit
    OBVIOUS
  <1>10. \A t \in T, a \in A, x \in Bit :
            <<t, a, x>> \in D /\ <<t, a, x>>[1] = t /\ <<t, a, x>>[2] = a /\ <<t, a, x>>[3] = x
    OBVIOUS
  <1>11. \A k \in D : d.out[k].weight \in Int /\ d.out[k].weight = Weight(w, k[2]) * Chance(w, k[1], k[3])
    <2> SUFFICES ASSUME NEW k \in D
                 PROVE  d.out[k].weight \in Int /\ d.out[k].weight = Weight(w, k[2]) * Chance(w, k[1], k[3])
      OBVIOUS
    <2> DEFINE W == Weight(w, k[2])
               C == Chance(w, k[1], k[3])
    <2>1. k[1] \in T /\ k[2] \in A /\ k[3] \in Bit
      BY <1>9
    <2>2. odds[k[1]] = 1 /\ W \in Int /\ C \in Int
      BY <1>1, <1>7, <2>1, ChanceFacts
    <2>3. d.out[k].weight = W * 1 * C
      BY <1>2, <2>2
    <2> HIDE DEF W, C
    <2> QED
      BY <2>2, <2>3 DEF W, C
  <1> HIDE DEF D
  <1>12. Mass(d) = H * (Unit * P)
    <2> DEFINE f == [k \in D |-> d.out[k].weight]
               c == [a \in A |-> Unit]
               V == [t \in T |-> c]
               g == [y \in T \X A |-> Weight(w, y[2]) * V[y[1]][y[2]]]
               h == [t \in T |-> Expect(w, V[t])]
    <2>1. f \in [D -> Int] /\ \A t \in T, a \in A, x \in Bit : f[<<t, a, x>>] = Weight(w, a) * Chance(w, t, x)
      BY <1>10, <1>11
    <2>2. c \in [A -> Int] /\ \A a \in A : c[a] = Unit
      BY <1>6
    <2>3. (\A t \in T : V[t] = c) /\ V \in [T -> [A -> Int]]
      BY <2>2
    <2> HIDE DEF c, V, f
    <2>4. \A t \in T, a \in A : /\ <<t, a>> \in T \X A /\ g[<<t, a>>] = Weight(w, a) * V[t][a]
                                /\ g[<<t, a>>] \in Int
      <3> SUFFICES ASSUME NEW t \in T, NEW a \in A
                   PROVE  /\ <<t, a>> \in T \X A /\ g[<<t, a>>] = Weight(w, a) * V[t][a]
                          /\ g[<<t, a>>] \in Int
        OBVIOUS
      <3>1. g[<<t, a>>] = Weight(w, a) * V[t][a] /\ Weight(w, a) \in Int /\ V[t][a] \in Int
        BY <1>7, <2>3
      <3> HIDE DEF g
      <3> QED
        BY <3>1
    <2>5. g \in [T \X A -> Int]
      <3>1. \A y \in T \X A : Weight(w, y[2]) * V[y[1]][y[2]] \in Int
        <4> SUFFICES ASSUME NEW y \in T \X A PROVE Weight(w, y[2]) * V[y[1]][y[2]] \in Int
          OBVIOUS
        <4>1. Weight(w, y[2]) \in Int /\ V[y[1]][y[2]] \in Int
          BY <1>7, <2>3
        <4> QED
          BY <4>1
      <3> QED
        BY <3>1
    <2>6. Mass(d) = SumFunction(f)
      BY <1>4 DEF Mass, f
    <2>7. h = [t \in T |-> Expect(w, V[t])] /\ \A t \in T : h[t] = Expect(w, c)
      BY <2>3
    <2>8. \A t \in T, a \in A : g[<<t, a>>] = f[<<t, a, 0>>] + f[<<t, a, 1>>]
      <3> SUFFICES ASSUME NEW t \in T, NEW a \in A PROVE g[<<t, a>>] = f[<<t, a, 0>>] + f[<<t, a, 1>>]
        OBVIOUS
      <3> DEFINE W == Weight(w, a)
                 p0 == Chance(w, t, 0)
                 p1 == Chance(w, t, 1)
      <3>1. f[<<t, a, 0>>] = W * p0 /\ f[<<t, a, 1>>] = W * p1 /\ g[<<t, a>>] = W * Unit
        BY <1>8, <2>1, <2>2, <2>3, <2>4
      <3>2. W \in Int /\ p0 \in Int /\ p1 \in Int /\ p0 + p1 = Unit
        BY <1>7, <1>8
      <3> HIDE DEF W, p0, p1, f, g
      <3>3. W * (p0 + p1) = W * p0 + W * p1
        BY ONLY <3>2
      <3> QED
        BY <3>1, <3>2, <3>3
    <2>9. f \in [T \X A \X Bit -> Int]
      BY <2>1 DEF D
    <2>10. IsFiniteSet(T) /\ IsFiniteSet(A)
      BY StepsFinite, ActionsFinite
    <2>11. Sampled(w, V, g)
      <3> HIDE DEF g
      <3> QED
        BY <2>3, <2>4, <2>5 DEF Sampled
    <2> HIDE DEF g, h
    <2>12. h \in [T -> Int] /\ SumFunction(g) = SumFunction(h)
      BY <2>7, <2>11, SampledSum
    <2> HIDE DEF T, A, P
    <2>13. SumFunction(f) = SumFunction(g)
      <3>1. BitRows(T, A, f, g)
        BY <2>5, <2>8, <2>9 DEF BitRows
      <3> QED
        BY <2>10, <3>1, SumByBit
    <2>14. Expect(w, c) = Unit * P
      BY <1>6, <2>2, ExpectConstant DEF A, P
    <2>15. \A t \in T : h[t] = Unit * P
      BY <2>7, <2>14
    <2>16. Unit * P \in Int
      BY <1>6
    <2>17. SumFunction(h) = H * (Unit * P)
      BY <2>12, <2>15, <2>16, SumOverSteps DEF T
    <2> QED
      BY <2>6, <2>12, <2>13, <2>17
  <1>13. ASSUME NEW u \in T PROVE Mean(d, u) = H * (Unit * Gradient(w)[u]) /\ Gradient(w)[u] \in Int
    <2> DEFINE f == [k \in D |-> d.out[k].weight * d.out[k].vector[u]]
               G == Payoff(w, u)
               M == Averaged(w, u, u)
               UG == [a \in A |-> Unit * G[a]]
               UGM == [a \in A |-> Unit * G[a] + (0 - H) * M[a]]
               V == [t \in T |-> IF t = u THEN UGM ELSE UG]
               g == [y \in T \X A |-> Weight(w, y[2]) * V[y[1]][y[2]]]
               h == [t \in T |-> Expect(w, V[t])]
               R == w.reward
    <2>1. /\ G \in [A -> Int] /\ Gradient(w)[u] = Expect(w, G) /\ Gradient(w)[u] \in Int
          /\ M \in [A -> Int] /\ Expect(w, M) = 0
          /\ \A a \in A : G[a] = R[a] * Score(w, a, u) /\ Score(w, a, u) \in Int
      <3>1. \A a \in A : G[a] = R[a] * Score(w, a, u) /\ Score(w, a, u) \in Int
        BY ScoreAt DEF Payoff
      <3> QED
        BY <3>1, GradientIsExpect, AveragedFacts
    <2>2. \A a \in A : /\ R[Put(a, u, 0)] \in Int /\ R[Put(a, u, 1)] \in Int /\ R[a] \in Int
                       /\ M[a] = (Chance(w, u, 0) * R[Put(a, u, 0)] + Chance(w, u, 1) * R[Put(a, u, 1)])
                                   * Score(w, a, u)
      <3>1. \A a \in A : Put(a, u, 0) \in A /\ Put(a, u, 1) \in A
        BY <1>8, ScoreAt
      <3> QED
        BY <1>7, <3>1 DEF Averaged
    <2> HIDE DEF G, M
    <2>3. UG \in [A -> Int] /\ UGM \in [A -> Int]
          /\ \A a \in A : UG[a] = Unit * G[a] /\ UGM[a] = Unit * G[a] + (0 - H) * M[a]
      <3>1. \A a \in A : Unit * G[a] \in Int /\ Unit * G[a] + (0 - H) * M[a] \in Int
        <4> SUFFICES ASSUME NEW a \in A PROVE Unit * G[a] \in Int /\ Unit * G[a] + (0 - H) * M[a] \in Int
          OBVIOUS
        <4>1. G[a] \in Int /\ M[a] \in Int
          BY <2>1
        <4> QED
          BY <1>1, <1>6, <4>1
      <3> QED
        BY <3>1
    <2> HIDE DEF UG, UGM
    <2>4. (\A t \in T : V[t] = IF t = u THEN UGM ELSE UG) /\ V \in [T -> [A -> Int]]
      BY <2>3
    <2>5. ASSUME NEW t \in T, NEW a \in A
          PROVE  /\ Weight(w, a) * V[t][a] \in Int
                 /\ f[<<t, a, 0>>] \in Int /\ f[<<t, a, 1>>] \in Int
                 /\ Weight(w, a) * V[t][a] = f[<<t, a, 0>>] + f[<<t, a, 1>>]
      <3> DEFINE W == Weight(w, a)
                 p0 == Chance(w, t, 0)
                 p1 == Chance(w, t, 1)
                 s == Score(w, a, u)
                 r == R[a]
                 R0 == R[Put(a, u, 0)]
                 R1 == R[Put(a, u, 1)]
                 v0 == d.out[<<t, a, 0>>].vector[u]
                 v1 == d.out[<<t, a, 1>>].vector[u]
      <3>1. W \in Int /\ p0 \in Int /\ p1 \in Int /\ p0 + p1 = Unit
            /\ s \in Int /\ r \in Int /\ R0 \in Int /\ R1 \in Int /\ H \in Int /\ Unit \in Int
        BY <1>1, <1>6, <1>7, <1>8, <2>1, <2>2
      <3>2. f[<<t, a, 0>>] = (W * p0) * v0 /\ f[<<t, a, 1>>] = (W * p1) * v1
        BY <1>8, <1>10, <1>11
      <3>3. CASE t = u
        <4>1. v0 = r * s * 1 + ((r - R0) * s - r * s) * H
          BY <1>1, <1>3, <1>8, <1>10, <3>3
        <4>2. v1 = r * s * 1 + ((r - R1) * s - r * s) * H
          BY <1>1, <1>3, <1>8, <1>10, <3>3
        <4>3. V[t][a] = Unit * (r * s) + (0 - H) * ((p0 * R0 + p1 * R1) * s)
          BY <2>1, <2>2, <2>3, <2>4, <3>3
        <4> HIDE DEF f, V, W, p0, p1, s, r, R0, R1, v0, v1
        <4>4. (p0 + p1) * (r * s) + (0 - H) * ((p0 * R0 + p1 * R1) * s)
                = p0 * (r * s * 1 + ((r - R0) * s - r * s) * H)
                  + p1 * (r * s * 1 + ((r - R1) * s - r * s) * H)
          BY ONLY <3>1
        <4>5. V[t][a] = p0 * v0 + p1 * v1
          BY <3>1, <4>1, <4>2, <4>3, <4>4
        <4>6. v0 \in Int /\ v1 \in Int
          BY <3>1, <4>1, <4>2
        <4>7. W * (p0 * v0 + p1 * v1) = (W * p0) * v0 + (W * p1) * v1
              /\ W * (p0 * v0 + p1 * v1) \in Int /\ (W * p0) * v0 \in Int /\ (W * p1) * v1 \in Int
          BY ONLY <3>1, <4>6
        <4> QED
          BY <3>2, <4>5, <4>7 DEF W
      <3>4. CASE t # u
        <4>1. v0 = r * s * 1 + 0 /\ v1 = r * s * 1 + 0
          BY <1>1, <1>3, <1>8, <1>10, <3>4
        <4>2. V[t][a] = Unit * (r * s)
          BY <2>1, <2>3, <2>4, <3>4
        <4> HIDE DEF f, V, W, p0, p1, s, r, R0, R1, v0, v1
        <4>3. v0 = r * s /\ v1 = r * s /\ r * s \in Int
          BY <3>1, <4>1
        <4> DEFINE e == r * s
        <4>4. e \in Int /\ v0 = e /\ v1 = e /\ V[t][a] = (p0 + p1) * e
          BY <3>1, <4>2, <4>3
        <4> HIDE DEF e
        <4>5. W * ((p0 + p1) * e) = (W * p0) * e + (W * p1) * e
              /\ W * ((p0 + p1) * e) \in Int /\ (W * p0) * e \in Int /\ (W * p1) * e \in Int
          BY ONLY <3>1, <4>4
        <4> QED
          BY <3>2, <4>4, <4>5 DEF W
      <3> QED
        BY <3>3, <3>4
    <2>6. \A t \in T, a \in A, x \in Bit : f[<<t, a, x>>] \in Int
      BY <2>5 DEF Bit
    <2>7. \A t \in T, a \in A : <<t, a>> \in T \X A /\ g[<<t, a>>] = Weight(w, a) * V[t][a]
      OBVIOUS
    <2> HIDE DEF V
    <2>8. g \in [T \X A -> Int]
      <3>1. \A y \in T \X A : Weight(w, y[2]) * V[y[1]][y[2]] \in Int
        BY <2>5
      <3> QED
        BY <3>1
    <2>9. f \in [D -> Int]
      <3>1. \A k \in D : f[k] \in Int
        <4> SUFFICES ASSUME NEW k \in D PROVE f[k] \in Int
          OBVIOUS
        <4>1. k = <<k[1], k[2], k[3]>> /\ k[1] \in T /\ k[2] \in A /\ k[3] \in Bit
          BY DEF D
        <4> HIDE DEF f
        <4> QED
          BY <2>6, <4>1
      <3> QED
        BY <3>1
    <2>10. f \in [T \X A \X Bit -> Int]
      BY <2>9 DEF D
    <2>11. Mean(d, u) = SumFunction(f)
      BY <1>4 DEF Mean
    <2>12. h = [t \in T |-> Expect(w, V[t])] /\ \A t \in T : h[t] = Expect(w, V[t])
      OBVIOUS
    <2>13. IsFiniteSet(T) /\ IsFiniteSet(A)
      BY StepsFinite, ActionsFinite
    <2> HIDE DEF f, g, h
    <2>14. Sampled(w, V, g)
      BY <2>4, <2>7, <2>8 DEF Sampled
    <2>15. \A t \in T, a \in A : g[<<t, a>>] = f[<<t, a, 0>>] + f[<<t, a, 1>>]
      BY <2>5, <2>7
    <2>16. h \in [T -> Int] /\ SumFunction(g) = SumFunction(h)
      BY <2>12, <2>14, SampledSum
    <2>17. Expect(w, UG) = Unit * Gradient(w)[u]
      BY <1>6, <2>1, <2>3, ExpectScaled
    <2>18. Expect(w, UGM) = Unit * Gradient(w)[u]
      <3>1. Combines(A, G, M, Unit, 0 - H, UGM)
        BY <1>1, <1>6, <2>1, <2>3 DEF Combines
      <3>2. Expect(w, UGM) = Unit * Expect(w, G) + (0 - H) * Expect(w, M)
        BY <3>1, ExpectLinear
      <3> DEFINE e == Gradient(w)[u]
      <3>3. Expect(w, UGM) = Unit * e + (0 - H) * 0 /\ e \in Int
        BY <2>1, <3>2
      <3> HIDE DEF e
      <3>4. Unit * e + (0 - H) * 0 = Unit * e
        BY <1>1, <1>6, <3>3
      <3> QED
        BY <3>3, <3>4 DEF e
    <2>19. \A t \in T : h[t] = Unit * Gradient(w)[u]
      BY <2>4, <2>12, <2>17, <2>18
    <2> HIDE DEF T, A
    <2>20. SumFunction(f) = SumFunction(g)
      <3>1. BitRows(T, A, f, g)
        BY <2>8, <2>10, <2>15 DEF BitRows
      <3> QED
        BY <2>13, <3>1, SumByBit
    <2>21. Unit * Gradient(w)[u] \in Int
      BY <1>6, <2>1
    <2>22. SumFunction(h) = H * (Unit * Gradient(w)[u])
      BY <2>16, <2>19, <2>21, SumOverSteps DEF T
    <2> QED
      BY <2>1, <2>11, <2>16, <2>20, <2>22
  <1>14. ASSUME NEW u \in T
         PROVE  Mean(d, u) * (Unit * P) = Gradient(w)[u] * Mass(d) * d.scale[u]
    <2> DEFINE g == Gradient(w)[u]
    <2>1. g \in Int /\ Mean(d, u) = H * (Unit * g) /\ d.scale[u] = Unit * 1
      BY <1>5, <1>13
    <2> HIDE DEF g, P, H
    <2>2. (H * (Unit * g)) * (Unit * P) = g * (H * (Unit * P)) * (Unit * 1)
      BY ONLY <1>1, <1>6, <2>1
    <2> QED
      BY <1>12, <2>1, <2>2 DEF g
  <1> QED
    BY <1>14, UnbiasedIs DEF d, odds, P

-----------------------------------------------------------------------------
(* bpo_like.py *)

\* With several decisions none of them has all the odds.
LEMMA BpoOddsFacts ==
  ASSUME NEW w, IsWorld(w), Decisions(w) >= 2
  PROVE  LET odds == BpoOdds(w)
         IN /\ odds \in [Steps(w) -> Int] /\ SumFunction(odds) \in Int
            /\ \A u \in Steps(w) : odds[u] # SumFunction(odds)
  <1> DEFINE T == Steps(w)
             H == Decisions(w)
             m == MostEntropic(w)
             odds == BpoOdds(w)
             one == [t \in T |-> 1]
             e == [t \in T |-> IF t = m THEN 9 * H ELSE 0]
  <1>1. H \in Nat /\ H >= 2 /\ IsFiniteSet(T)
    BY WorldFacts, StepsFinite
  <1> HIDE DEF m, H
  <1>2. odds = [t \in T |-> IF t = m THEN 1 + 9 * H ELSE 1]
    BY DEF BpoOdds, m, H
  <1> HIDE DEF odds
  <1>3. odds \in [T -> Int] /\ \A t \in T : odds[t] = IF t = m THEN 1 + 9 * H ELSE 1
    BY <1>1, <1>2
  <1>4. one \in [T -> Int] /\ \A t \in T : one[t] = 1
    OBVIOUS
  <1>5. e \in [T -> Int] /\ \A t \in T : e[t] = IF t = m THEN 9 * H ELSE 0
    BY <1>1
  <1>6. \A t \in T : odds[t] = one[t] + e[t]
    BY <1>1, <1>3, <1>4, <1>5
  <1> HIDE DEF one, e
  <1>7. SumFunction(one) = H * 1
    <2>1. 1 \in Int
      OBVIOUS
    <2> QED
      BY <1>4, <2>1, SumOverSteps DEF H
  <1>8. SumFunction(e) = IF m \in T THEN 9 * H ELSE 0
    <2>1. CASE m \in T
      <3>1. \A t \in T \ {m} : e[t] = 0
        BY <1>5
      <3> HIDE DEF T
      <3>2. SumFunction(e) = e[m]
        BY <1>1, <1>5, <2>1, <3>1, SumSingle
      <3> QED
        BY <1>5, <2>1, <3>2
    <2>2. CASE m \notin T
      <3>1. \A t \in T : e[t] = 0
        BY <1>5, <2>2
      <3> HIDE DEF T
      <3> QED
        BY <1>1, <1>5, <2>2, <3>1, SumZero
    <2> QED
      BY <2>1, <2>2
  <1> HIDE DEF T
  <1>9. SumFunction(odds) = SumFunction(one) + SumFunction(e)
    BY <1>1, <1>3, <1>4, <1>5, <1>6, SumAdd
  <1>10. SumFunction(odds) = IF m \in T THEN 10 * H ELSE H
    BY <1>1, <1>7, <1>8, <1>9
  <1>11. \A u \in T : odds[u] # SumFunction(odds)
    BY <1>1, <1>3, <1>10
  <1>12. SumFunction(odds) \in Int
    BY <1>1, <1>10
  <1> QED
    BY <1>3, <1>11, <1>12 DEF odds, T

LEMMA Expect2Is ==
  ASSUME NEW w, IsWorld(w), NEW V, V \in [Pairs(w) -> Int], NEW c \in Int,
         NEW f, f = [k \in Pairs(w) |-> c * (Weight(w, k[1]) * Weight(w, k[2]) * V[k])]
  PROVE  f \in [Pairs(w) -> Int] /\ SumFunction(f) = c * Expect2(w, V) /\ Expect2(w, V) \in Int
  <1> DEFINE D == Pairs(w)
             g == [k \in D |-> Weight(w, k[1]) * Weight(w, k[2]) * V[k]]
  <1>1. \A k \in D : Weight(w, k[1]) * Weight(w, k[2]) * V[k] \in Int
    <2> SUFFICES ASSUME NEW k \in D PROVE Weight(w, k[1]) * Weight(w, k[2]) * V[k] \in Int
      OBVIOUS
    <2>1. Weight(w, k[1]) \in Int /\ Weight(w, k[2]) \in Int /\ V[k] \in Int
      BY ActionWeight DEF Pairs
    <2> QED
      BY <2>1
  <1>2. g \in [D -> Int]
    BY <1>1
  <1>3. f \in [D -> Int] /\ \A k \in D : f[k] = c * g[k]
    <2>1. \A k \in D : f[k] = c * g[k]
      OBVIOUS
    <2>2. \A k \in D : c * g[k] \in Int
      <3> HIDE DEF g
      <3> QED
        BY <1>2
    <2>3. f = [k \in D |-> c * g[k]]
      OBVIOUS
    <2> HIDE DEF g
    <2> QED
      BY <2>1, <2>2, <2>3
  <1>4. IsFiniteSet(D)
    BY ActionsFinite, CrossFinite DEF Pairs
  <1>5. Expect2(w, V) = SumFunction(g)
    BY DEF Expect2
  <1> HIDE DEF D, g
  <1>6. SumFunction(f) = c * SumFunction(g)
    BY <1>2, <1>3, <1>4, SumScale
  <1>7. SumFunction(g) \in Int
    BY <1>2, <1>4, SumType
  <1> QED
    BY <1>3, <1>5, <1>6, <1>7 DEF D

\* A sum over a decision and a pair, weighted with the odds of the decision.
SampledPairs(w, odds, V, f, h) ==
  /\ odds \in [Steps(w) -> Int]
  /\ V \in [Steps(w) -> [Pairs(w) -> Int]]
  /\ f = [k \in Steps(w) \X Actions(w) \X Actions(w) |->
            Weight(w, k[2]) * Weight(w, k[3]) * odds[k[1]] * V[k[1]][<<k[2], k[3]>>]]
  /\ h = [t \in Steps(w) |-> odds[t] * Expect2(w, V[t])]

LEMMA SampledPairsSum ==
  ASSUME NEW w, IsWorld(w), NEW odds, NEW V, NEW f, NEW h, SampledPairs(w, odds, V, f, h)
  PROVE  h \in [Steps(w) -> Int] /\ SumFunction(f) = SumFunction(h)
  <1> DEFINE T == Steps(w)
             A == Actions(w)
             B == Pairs(w)
             row == [t \in T |-> [k \in B |-> odds[t] * (Weight(w, k[1]) * Weight(w, k[2]) * V[t][k])]]
  <1>1. /\ odds \in [T -> Int] /\ V \in [T -> [B -> Int]] /\ B = A \X A
        /\ f = [k \in T \X A \X A |-> Weight(w, k[2]) * Weight(w, k[3]) * odds[k[1]] * V[k[1]][<<k[2], k[3]>>]]
        /\ h = [t \in T |-> odds[t] * Expect2(w, V[t])]
    BY DEF SampledPairs, Pairs
  <1>2. ASSUME NEW t \in T
        PROVE  row[t] \in [B -> Int] /\ h[t] = SumFunction(row[t]) /\ h[t] \in Int
    <2> DEFINE F == V[t]
               c == odds[t]
               r == [k \in B |-> c * (Weight(w, k[1]) * Weight(w, k[2]) * F[k])]
    <2>1. F \in [B -> Int] /\ c \in Int /\ row[t] = r /\ h[t] = c * Expect2(w, F)
      BY <1>1
    <2>2. r = [k \in Pairs(w) |-> c * (Weight(w, k[1]) * Weight(w, k[2]) * F[k])] /\ F \in [Pairs(w) -> Int]
      BY <1>1
    <2> HIDE DEF F, r, row, c
    <2>3. r \in [Pairs(w) -> Int] /\ SumFunction(r) = c * Expect2(w, F) /\ Expect2(w, F) \in Int
      BY <2>1, <2>2, Expect2Is
    <2> QED
      BY <2>1, <2>3
  <1>3. row \in [T -> [B -> Int]] /\ h \in [T -> Int]
    BY <1>1, <1>2
  <1>4. ASSUME NEW t \in T, NEW a \in A, NEW b \in A
        PROVE  row[t][<<a, b>>] = f[<<t, a, b>>]
    <2> DEFINE x == Weight(w, a)
               y == Weight(w, b)
               v == V[t][<<a, b>>]
               c == odds[t]
    <2>1. <<a, b>> \in B /\ <<a, b>>[1] = a /\ <<a, b>>[2] = b
      BY <1>1
    <2>2. x \in Int /\ y \in Int /\ v \in Int /\ c \in Int
      BY <1>1, <2>1, ActionWeight
    <2>3. row[t][<<a, b>>] = c * (x * y * v)
      BY <2>1
    <2>4. f[<<t, a, b>>] = x * y * c * v
      <3>1. <<t, a, b>> \in T \X A \X A /\ <<t, a, b>>[1] = t /\ <<t, a, b>>[2] = a /\ <<t, a, b>>[3] = b
        OBVIOUS
      <3> QED
        BY <1>1, <3>1
    <2> HIDE DEF x, y, v, c, row
    <2>5. c * (x * y * v) = x * y * c * v
      BY ONLY <2>2
    <2> QED
      BY <2>3, <2>4, <2>5
  <1>5. f \in [T \X A \X A -> Int]
    <2> DEFINE D == T \X A \X A
    <2>1. \A k \in D : k[1] \in T /\ k[2] \in A /\ k[3] \in A
      OBVIOUS
    <2>2. \A k \in D : Weight(w, k[2]) * Weight(w, k[3]) * odds[k[1]] * V[k[1]][<<k[2], k[3]>>] \in Int
      <3> SUFFICES ASSUME NEW k \in D
                   PROVE Weight(w, k[2]) * Weight(w, k[3]) * odds[k[1]] * V[k[1]][<<k[2], k[3]>>] \in Int
        OBVIOUS
      <3>1. <<k[2], k[3]>> \in B
        BY <1>1, <2>1
      <3>2. Weight(w, k[2]) \in Int /\ Weight(w, k[3]) \in Int /\ odds[k[1]] \in Int
            /\ V[k[1]][<<k[2], k[3]>>] \in Int
        BY <1>1, <2>1, <3>1, ActionWeight
      <3> QED
        BY <3>2
    <2>3. f = [k \in D |-> Weight(w, k[2]) * Weight(w, k[3]) * odds[k[1]] * V[k[1]][<<k[2], k[3]>>]]
      BY <1>1
    <2> HIDE DEF D
    <2> QED
      BY <2>2, <2>3 DEF D
  <1>6. IsFiniteSet(T) /\ IsFiniteSet(A)
    BY StepsFinite, ActionsFinite
  <1>7. row \in [T -> [A \X A -> Int]]
    BY <1>1, <1>3
  <1> HIDE DEF T, A, B, row
  <1>8. Crossed3(T, A, A, f, row, h)
    BY <1>2, <1>3, <1>4, <1>5, <1>7 DEF Crossed3
  <1>9. SumFunction(f) = SumFunction(h)
    BY <1>6, <1>8, SumCross3
  <1> QED
    BY <1>3, <1>9 DEF T

\* bpo_like.py: with at least two decisions, the contrast of a sampled decision
\* at every coordinate is biased unless there is no gradient at all.
THEOREM BpoVerdict ==
  ASSUME NEW w, IsWorld(w), Decisions(w) >= 2
  PROVE  Unbiased(w, BpoLikeDist(w), Gradient(w)) <=> \A u \in Steps(w) : Gradient(w)[u] = 0
  <1> DEFINE A == Actions(w)
             T == Steps(w)
             odds == BpoOdds(w)
             total == SumFunction(odds)
             d == BpoLikeDist(w)
             P == Paths(w)
             D == T \X A \X A
  <1>1. /\ odds \in [T -> Int] /\ total \in Int
        /\ \A u \in T : odds[u] # total
    BY BpoOddsFacts
  <1> HIDE DEF odds, total
  <1>2. \A k \in D : d.out[k].weight = Weight(w, k[2]) * Weight(w, k[3]) * odds[k[1]]
    BY DEF BpoLikeDist, odds
  <1>3. \A k \in D, u \in T :
          d.out[k].vector[u] = Contrast(w, k[2], k[3], k[1]) * Score(w, k[2], u)
    BY DEF BpoLikeDist
  <1>4. DOMAIN d.out = D /\ \A t \in T : d.scale[t] = Unit
    BY DEF BpoLikeDist, Same
  <1>5. Unit \in Nat \ {0} /\ P \in Nat \ {0}
    BY UnbiasedIs
  <1>6. Pairs(w) = A \X A
    BY DEF Pairs
  <1>7. \A k \in D : k[1] \in T /\ k[2] \in A /\ k[3] \in A /\ <<k[2], k[3]>> \in Pairs(w)
    BY <1>6
  <1> HIDE DEF d, D
  <1>8. Mass(d) = total * (P * P)
    <2> DEFINE one == [k \in Pairs(w) |-> 1]
               V == [t \in T |-> one]
               f == [k \in D |-> Weight(w, k[2]) * Weight(w, k[3]) * odds[k[1]] * V[k[1]][<<k[2], k[3]>>]]
               h == [t \in T |-> odds[t] * Expect2(w, V[t])]
    <2>1. one \in [Pairs(w) -> Int] /\ \A k \in Pairs(w) : one[k] = 1
      OBVIOUS
    <2>2. V \in [T -> [Pairs(w) -> Int]] /\ \A t \in T : V[t] = one
      OBVIOUS
    <2>3. [k \in DOMAIN d.out |-> d.out[k].weight] = f
      <3>1. \A k \in D : d.out[k].weight
              = Weight(w, k[2]) * Weight(w, k[3]) * odds[k[1]] * V[k[1]][<<k[2], k[3]>>]
        <4> SUFFICES ASSUME NEW k \in D
                     PROVE d.out[k].weight
                             = Weight(w, k[2]) * Weight(w, k[3]) * odds[k[1]] * V[k[1]][<<k[2], k[3]>>]
          OBVIOUS
        <4> DEFINE q == Weight(w, k[2]) * Weight(w, k[3]) * odds[k[1]]
        <4>1. Weight(w, k[2]) \in Int /\ Weight(w, k[3]) \in Int /\ odds[k[1]] \in Int
          BY <1>1, <1>7, ActionWeight
        <4>2. q \in Int
          BY <4>1
        <4>3. V[k[1]][<<k[2], k[3]>>] = 1
          BY <1>7, <2>1, <2>2
        <4>4. d.out[k].weight = q
          BY <1>2
        <4> HIDE DEF q
        <4>5. q * 1 = q
          BY <4>2
        <4> QED
          BY <4>3, <4>4, <4>5 DEF q
      <3> QED
        BY <1>4, <3>1
    <2>4. Mass(d) = SumFunction(f)
      BY <2>3 DEF Mass
    <2>5. \A t \in T : h[t] = odds[t] * Expect2(w, one)
      BY <2>2
    <2>6. SampledPairs(w, odds, V, f, h)
      <3> HIDE DEF V
      <3> QED
        BY <1>1, <2>2 DEF SampledPairs, D
    <2> HIDE DEF one, V, f, h
    <2>7. h \in [T -> Int] /\ SumFunction(f) = SumFunction(h)
      BY <2>6, SampledPairsSum
    <2>8. Expect2(w, one) = P * P
      BY <2>1, Expect2Constant
    <2> DEFINE c == P * P
    <2>9. c \in Int /\ \A t \in T : h[t] = c * odds[t]
      <3>1. c \in Int
        BY <1>5
      <3>2. \A t \in T : h[t] = odds[t] * c
        BY <2>5, <2>8
      <3> HIDE DEF c
      <3>3. \A t \in T : odds[t] * c = c * odds[t]
        BY <1>1, <3>1
      <3> QED
        BY <3>1, <3>2, <3>3
    <2>10. IsFiniteSet(T)
      BY StepsFinite
    <2> HIDE DEF T, c
    <2>11. SumFunction(h) = c * total
      BY <1>1, <2>7, <2>9, <2>10, SumScale DEF total
    <2>12. c * total = total * c
      BY <1>1, <2>9
    <2> QED
      BY <2>4, <2>7, <2>11, <2>12 DEF c
  <1>9. ASSUME NEW u \in T PROVE Mean(d, u) = odds[u] * (Gradient(w)[u] * P) /\ Gradient(w)[u] \in Int
    <2> DEFINE V == [t \in T |-> Swapped(w, t, u)]
               f == [k \in D |-> Weight(w, k[2]) * Weight(w, k[3]) * odds[k[1]] * V[k[1]][<<k[2], k[3]>>]]
               h == [t \in T |-> odds[t] * Expect2(w, V[t])]
    <2>1. V \in [T -> [Pairs(w) -> Int]] /\ \A t \in T : V[t] = Swapped(w, t, u)
      BY SiblingSum
    <2>2. [k \in DOMAIN d.out |-> d.out[k].weight * d.out[k].vector[u]] = f
      <3>1. \A k \in D : d.out[k].vector[u] = V[k[1]][<<k[2], k[3]>>]
        <4> SUFFICES ASSUME NEW k \in D PROVE d.out[k].vector[u] = V[k[1]][<<k[2], k[3]>>]
          OBVIOUS
        <4> DEFINE y == <<k[2], k[3]>>
        <4>1. y \in Pairs(w) /\ y[1] = k[2] /\ y[2] = k[3] /\ k[1] \in T
          BY <1>7
        <4>2. V[k[1]][y] = Contrast(w, y[1], y[2], k[1]) * Score(w, y[1], u)
          BY <4>1 DEF Swapped
        <4> HIDE DEF V
        <4> QED
          BY <1>3, <4>1, <4>2
      <3> HIDE DEF V
      <3> QED
        BY <1>2, <1>4, <3>1
    <2>3. Mean(d, u) = SumFunction(f)
      BY <2>2 DEF Mean
    <2>4. \A t \in T : h[t] = odds[t] * Expect2(w, Swapped(w, t, u))
      BY <2>1
    <2>5. SampledPairs(w, odds, V, f, h)
      <3> HIDE DEF V
      <3> QED
        BY <1>1, <2>1 DEF SampledPairs, D
    <2> HIDE DEF V, f, h
    <2>6. h \in [T -> Int] /\ SumFunction(f) = SumFunction(h)
      BY <2>5, SampledPairsSum
    <2>7. h[u] = odds[u] * (Gradient(w)[u] * P) /\ \A t \in T \ {u} : h[t] = 0
      <3>1. Expect2(w, Swapped(w, u, u)) = Gradient(w)[u] * P
        BY SiblingSum
      <3>2. \A t \in T \ {u} : Expect2(w, Swapped(w, t, u)) = 0
        BY SiblingSum
      <3>3. \A t \in T : odds[t] * 0 = 0
        BY <1>1
      <3> QED
        BY <2>4, <3>1, <3>2, <3>3
    <2>8. SumFunction(h) = h[u]
      BY <2>6, <2>7, SumOverSteps
    <2> QED
      BY <2>3, <2>6, <2>7, <2>8, GradientIsExpect
  <1>10. ASSUME NEW u \in T
         PROVE  Mean(d, u) * (Unit * P) = Gradient(w)[u] * Mass(d) * d.scale[u] <=> Gradient(w)[u] = 0
    <2> DEFINE g == Gradient(w)[u]
               o == odds[u]
    <2>1. g \in Int /\ o \in Int /\ total \in Int /\ o # total /\ Mean(d, u) = o * (g * P)
          /\ d.scale[u] = Unit /\ Mass(d) = total * (P * P)
      BY <1>1, <1>4, <1>8, <1>9
    <2> HIDE DEF g, o, P, d
    <2> DEFINE m == P * P * Unit
    <2>2. \A a, b \in Nat \ {0} : a * b \in Nat \ {0}
      OBVIOUS
    <2>3. m \in Nat \ {0}
      BY <1>5, <2>2
    <2>4. (o * (g * P)) * (Unit * P) = (o * g) * m
      BY ONLY <1>5, <2>1
    <2>5. g * (total * (P * P)) * Unit = (total * g) * m
      BY ONLY <1>5, <2>1
    <2> HIDE DEF m
    <2>6. \A a, b \in Int : a * m = b * m <=> a = b
      BY <2>3
    <2>7. o * g \in Int /\ total * g \in Int
      BY <2>1
    <2>8. o * g = total * g <=> g = 0
      BY ONLY <2>1
    <2> QED
      BY <2>1, <2>4, <2>5, <2>6, <2>7, <2>8 DEF g
  <1> QED
    BY <1>10, UnbiasedIs DEF d, P

-----------------------------------------------------------------------------
(* The uncoupled control *)

\* A trajectory and what is drawn beside it, with the weights q.
Beside(w, B, C, q, X, f, h) ==
  /\ q \in [B \X C -> Int]
  /\ X \in [Actions(w) -> [B \X C -> Int]]
  /\ f \in [Actions(w) \X B \X C -> Int]
  /\ \A a \in Actions(w), b \in B, c \in C :
       f[<<a, b, c>>] = Weight(w, a) * (q[<<b, c>>] * X[a][<<b, c>>])
  /\ h = [a \in Actions(w) |-> SumFunction([y \in B \X C |-> q[y] * X[a][y]])]

LEMMA BesideSum ==
  ASSUME NEW w, IsWorld(w), NEW B, IsFiniteSet(B), NEW C, IsFiniteSet(C),
         NEW q, NEW X, NEW f, NEW h, Beside(w, B, C, q, X, f, h)
  PROVE  h \in [Actions(w) -> Int] /\ SumFunction(f) = Expect(w, h)
  <1> DEFINE A == Actions(w)
             E == B \X C
             inner(a) == [y \in E |-> q[y] * X[a][y]]
             row == [a \in A |-> [y \in E |-> Weight(w, a) * (q[y] * X[a][y])]]
             g == [a \in A |-> Weight(w, a) * h[a]]
  <1>1. /\ q \in [E -> Int] /\ X \in [A -> [E -> Int]] /\ f \in [A \X B \X C -> Int]
        /\ \A a \in A, b \in B, c \in C : f[<<a, b, c>>] = Weight(w, a) * (q[<<b, c>>] * X[a][<<b, c>>])
        /\ \A a \in A : h[a] = SumFunction(inner(a))
        /\ h = [a \in A |-> SumFunction(inner(a))]
    BY DEF Beside
  <1>2. IsFiniteSet(E) /\ IsFiniteSet(A) /\ A = Actions(w) /\ g = [a \in A |-> Weight(w, a) * h[a]]
    BY CrossFinite, ActionsFinite
  <1>3. \A b \in B, c \in C : <<b, c>> \in E
    OBVIOUS
  <1> HIDE DEF E, A
  <1>4. ASSUME NEW a \in A
        PROVE  /\ inner(a) \in [E -> Int] /\ h[a] \in Int
               /\ row[a] \in [E -> Int] /\ SumFunction(row[a]) = g[a]
    <2> DEFINE W == Weight(w, a)
               F == X[a]
               r == inner(a)
               s == row[a]
    <2>1. W \in Int /\ F \in [E -> Int]
      BY <1>1, ActionWeight DEF A
    <2>2. \A y \in E : r[y] = q[y] * F[y] /\ q[y] \in Int /\ F[y] \in Int
      BY <1>1, <2>1
    <2>3. r = [y \in E |-> q[y] * F[y]] /\ s = [y \in E |-> W * (q[y] * F[y])]
      OBVIOUS
    <2> HIDE DEF W, F
    <2>4. r \in [E -> Int] /\ s \in [E -> Int] /\ \A y \in E : s[y] = W * r[y]
      <3>1. \A y \in E : q[y] * F[y] \in Int
        BY <2>2
      <3>2. \A y \in E : W * (q[y] * F[y]) \in Int
        BY <2>1, <3>1
      <3> HIDE DEF row, inner
      <3> QED
        BY <2>3, <3>1, <3>2
    <2>5. h[a] = SumFunction(r)
      BY <1>1
    <2>6. g[a] = W * h[a]
      BY DEF W
    <2> HIDE DEF r, s, row, inner, g
    <2>7. SumFunction(s) = W * SumFunction(r) /\ SumFunction(r) \in Int
      BY <1>2, <2>1, <2>4, SumScale, SumType
    <2> QED
      BY <2>4, <2>5, <2>6, <2>7 DEF r, s
  <1>5. h \in [A -> Int]
    <2> HIDE DEF inner, row, g
    <2>1. h = [a \in A |-> h[a]]
      BY <1>1
    <2> QED
      BY <1>4, <2>1
  <1>6. g \in [A -> Int] /\ Expect(w, h) = SumFunction(g)
    BY <1>2, <1>5, ExpectIs
  <1>7. row \in [A -> [E -> Int]]
    <2> HIDE DEF inner, g
    <2> QED
      BY <1>4
  <1>8. \A a \in A, b \in B, c \in C : row[a][<<b, c>>] = f[<<a, b, c>>]
    BY <1>1, <1>3
  <1> HIDE DEF row, g, inner
  <1>9. Crossed3(A, B, C, f, row, g)
    <2>1. row \in [A -> [B \X C -> Int]]
      BY <1>7 DEF E
    <2> QED
      BY <1>1, <1>4, <1>6, <1>8, <2>1 DEF Crossed3
  <1>10. SumFunction(f) = SumFunction(g)
    BY <1>2, <1>9, SumCross3
  <1> QED
    BY <1>5, <1>6, <1>10 DEF A

SuffixWeight(w, f) == ProductOf([s \in 1..(Decisions(w) - 1) |-> Chance(w, s + 1, f[s])])
Fresh(w, a, b, f, t) ==
  [u \in Steps(w) |-> IF u < t THEN a[u] ELSE IF u = t THEN b[t] ELSE f[u - t]]

LEMMA SuffixFacts ==
  ASSUME NEW w, IsWorld(w), NEW t \in Steps(w), NEW C, C = [1..(Decisions(w) - 1) -> Bit]
  PROVE  /\ IsFiniteSet(C)
         /\ \A f \in C : SuffixWeight(w, f) \in Int
         /\ \A a, b \in Actions(w), f \in C :
              /\ Fresh(w, a, b, f, t) \in Actions(w)
              /\ \A x \in Bit : Fresh(w, Put(a, t, x), b, f, t) = Fresh(w, a, b, f, t)
  <1> DEFINE n == Decisions(w) - 1
  <1>1. n \in Nat /\ t \in 1..(n + 1) /\ Steps(w) = 1..(n + 1) /\ C = History(n) /\ Decisions(w) = n + 1
    BY WorldFacts DEF History
  <1>2. IsFiniteSet(C)
    BY <1>1, HistoriesFinite
  <1>3. ASSUME NEW f \in C PROVE SuffixWeight(w, f) \in Int
    <2> DEFINE D == 1..n
               g == [s \in D |-> Chance(w, s + 1, f[s])]
    <2>1. \A s \in D : s + 1 \in Steps(w) /\ f[s] \in Bit
      BY <1>1 DEF History
    <2>2. g \in [D -> Int]
      <3>1. \A s \in D : Chance(w, s + 1, f[s]) \in Int
        BY <2>1, ChanceFacts
      <3> QED
        BY <3>1
    <2>3. IsFiniteSet(D)
      <3>1. 1 \in Int /\ n \in Int
        BY <1>1
      <3> QED
        BY <3>1, FS_Interval
    <2>4. SuffixWeight(w, f) = ProductOf(g)
      BY DEF SuffixWeight
    <2> HIDE DEF D, g
    <2> QED
      BY <2>2, <2>3, <2>4, ProductType
  <1>4. ASSUME NEW a \in Actions(w), NEW b \in Actions(w), NEW f \in C
        PROVE  /\ Fresh(w, a, b, f, t) \in Actions(w)
               /\ \A x \in Bit : Fresh(w, Put(a, t, x), b, f, t) = Fresh(w, a, b, f, t)
    <2>1. \A u \in Steps(w) : a[u] \in Bit /\ b[u] \in Bit
      BY DEF Actions
    <2>2. \A u \in Steps(w) : u > t => u - t \in 1..n
      BY <1>1
    <2>3. \A i \in 1..n : f[i] \in Bit
      BY <1>1 DEF History
    <2>4. Fresh(w, a, b, f, t) \in Actions(w)
      <3>1. \A u \in Steps(w) : (IF u < t THEN a[u] ELSE IF u = t THEN b[t] ELSE f[u - t]) \in Bit
        BY <1>1, <2>1, <2>2, <2>3
      <3> QED
        BY <3>1 DEF Fresh, Actions
    <2>5. ASSUME NEW x \in Bit PROVE Fresh(w, Put(a, t, x), b, f, t) = Fresh(w, a, b, f, t)
      <3>1. \A u \in Steps(w) : u < t => Put(a, t, x)[u] = a[u]
        BY <1>1, WorldFacts, Setting
      <3> QED
        BY <3>1 DEF Fresh
    <2> QED
      BY <2>4, <2>5
  <1> QED
    BY <1>2, <1>3, <1>4

\* sibling.py, the control: whatever the weights of the fresh suffix, and
\* wherever its actions end up, it does not depend on the decision it is for.
THEOREM UncoupledUnbiased ==
  ASSUME NEW w, IsWorld(w), NEW skip, \A t \in Steps(w) \cap skip : Gradient(w)[t] = 0
  PROVE  Unbiased(w, UncoupledDist(w, skip), Gradient(w))
  <1> DEFINE A == Actions(w)
             C == [1..(Decisions(w) - 1) -> Bit]
             D == A \X A \X C
             E == A \X C
             d == UncoupledDist(w, skip)
             P == Paths(w)
             R == w.reward
  <1> SUFFICES ASSUME NEW t \in Steps(w)
               PROVE  Mean(d, t) * (Unit * P) = Gradient(w)[t] * Mass(d) * d.scale[t]
    BY UnbiasedIs
  <1> DEFINE q == [y \in E |-> Weight(w, y[1]) * SuffixWeight(w, y[2])]
             Q == SumFunction(q)
             g == Gradient(w)[t]
  <1>1. DOMAIN d.out = D /\ d.scale[t] = Unit
    BY DEF UncoupledDist, Same
  <1>2. \A k \in D : d.out[k].weight = Weight(w, k[1]) * Weight(w, k[2]) * SuffixWeight(w, k[3])
    BY DEF UncoupledDist, SuffixWeight
  <1>3. \A k \in D :
          d.out[k].vector[t] = IF t \in skip THEN 0
                               ELSE (R[k[1]] - R[Fresh(w, k[1], k[2], k[3], t)]) * Score(w, k[1], t)
    BY DEF UncoupledDist, Fresh
  <1>4. Unit \in Nat \ {0} /\ P \in Nat \ {0} /\ g \in Int
    BY UnbiasedIs, GradientIsExpect
  <1>5. /\ IsFiniteSet(C)
        /\ \A f \in C : SuffixWeight(w, f) \in Int
        /\ \A a, b \in A, f \in C : /\ Fresh(w, a, b, f, t) \in A
                                    /\ \A x \in Bit : Fresh(w, Put(a, t, x), b, f, t) = Fresh(w, a, b, f, t)
    BY SuffixFacts
  <1>6. IsFiniteSet(A) /\ (\A a \in A : Weight(w, a) \in Int /\ R[a] \in Int /\ Score(w, a, t) \in Int)
    <2>1. IsFiniteSet(A) /\ (\A a \in A : Weight(w, a) \in Int)
      BY ActionsFinite, ActionWeight
    <2>2. \A a \in A : R[a] \in Int
      BY WorldFacts
    <2>3. \A a \in A : Score(w, a, t) \in Int
      BY ScoreAt
    <2> QED
      BY <2>1, <2>2, <2>3
  <1> HIDE DEF C
  <1>7. IsFiniteSet(E)
    BY <1>5, <1>6, CrossFinite
  <1>8. \A y \in E : y[1] \in A /\ y[2] \in C /\ y = <<y[1], y[2]>>
    OBVIOUS
  <1>9. q \in [E -> Int] /\ Q \in Int
        /\ \A b \in A, c \in C : <<b, c>> \in E /\ q[<<b, c>>] = Weight(w, b) * SuffixWeight(w, c)
    <2>1. \A y \in E : Weight(w, y[1]) * SuffixWeight(w, y[2]) \in Int
      <3> SUFFICES ASSUME NEW y \in E PROVE Weight(w, y[1]) * SuffixWeight(w, y[2]) \in Int
        OBVIOUS
      <3>1. Weight(w, y[1]) \in Int /\ SuffixWeight(w, y[2]) \in Int
        BY <1>5, <1>6, <1>8
      <3> QED
        BY <3>1
    <2>2. q \in [E -> Int]
      BY <2>1
    <2>3. Q \in Int
      <3> HIDE DEF q, E
      <3> QED
        BY <1>7, <2>2, SumType
    <2> QED
      BY <2>2, <2>3
  <1>10. \A k \in D : k[1] \in A /\ k[2] \in A /\ k[3] \in C /\ k = <<k[1], k[2], k[3]>>
    OBVIOUS
  <1>11. \A a \in A, b \in A, c \in C :
           <<a, b, c>> \in D /\ <<a, b, c>>[1] = a /\ <<a, b, c>>[2] = b /\ <<a, b, c>>[3] = c
    OBVIOUS
  <1> HIDE DEF d, D, E, q
  <1>12. Mass(d) = Q * P
    <2> DEFINE one == [y \in E |-> 1]
               X == [a \in A |-> one]
               f == [k \in D |-> d.out[k].weight]
               h == [a \in A |-> SumFunction([y \in E |-> q[y] * X[a][y]])]
    <2>1. ASSUME NEW a \in A, NEW b \in A, NEW c \in C
          PROVE  /\ f[<<a, b, c>>] = Weight(w, a) * (q[<<b, c>>] * X[a][<<b, c>>])
                 /\ f[<<a, b, c>>] \in Int
      <3> DEFINE x == Weight(w, a)
                 y == Weight(w, b)
                 z == SuffixWeight(w, c)
      <3>1. x \in Int /\ y \in Int /\ z \in Int
        BY <1>5, <1>6
      <3>2. f[<<a, b, c>>] = x * y * z
        BY <1>2, <1>11
      <3>3. q[<<b, c>>] = y * z /\ X[a][<<b, c>>] = 1
        BY <1>9
      <3> HIDE DEF x, y, z, f, X
      <3>4. x * y * z = x * ((y * z) * 1) /\ x * y * z \in Int
        BY ONLY <3>1
      <3> QED
        BY <3>2, <3>3, <3>4 DEF x
    <2>2. f \in [D -> Int]
      <3>1. \A k \in D : f[k] \in Int
        <4> SUFFICES ASSUME NEW k \in D PROVE f[k] \in Int
          OBVIOUS
        <4>1. k[1] \in A /\ k[2] \in A /\ k[3] \in C /\ k = <<k[1], k[2], k[3]>>
          BY <1>10
        <4> HIDE DEF f, X
        <4>2. f[<<k[1], k[2], k[3]>>] \in Int
          BY <2>1, <4>1
        <4> QED
          BY <4>1, <4>2
      <3> QED
        BY <3>1
    <2>3. X \in [A -> [E -> Int]]
      OBVIOUS
    <2>4. \A a \in A : [y \in E |-> q[y] * X[a][y]] = q
      <3>1. \A y \in E : q[y] * 1 = q[y]
        BY <1>9
      <3>2. \A a \in A : [y \in E |-> q[y] * X[a][y]] = [y \in E |-> q[y]]
        BY <3>1
      <3> QED
        BY <1>9, <3>2
    <2>5. \A a \in A : h[a] = Q
      BY <2>4
    <2>6. Mass(d) = SumFunction(f)
      BY <1>1 DEF Mass
    <2> HIDE DEF f, X
    <2>7. Beside(w, A, C, q, X, f, h)
      BY <1>9, <2>1, <2>2, <2>3 DEF Beside, D, E
    <2> HIDE DEF h
    <2>8. h \in [A -> Int] /\ SumFunction(f) = Expect(w, h)
      BY <1>5, <1>6, <2>7, BesideSum
    <2> HIDE DEF Q, P
    <2>9. Expect(w, h) = Q * P
      BY <1>9, <2>5, <2>8, ExpectConstant DEF P
    <2> QED
      BY <2>6, <2>8, <2>9
  <1>13. CASE t \in skip
    <2> DEFINE zero == [y \in E |-> 0]
               X == [a \in A |-> zero]
               f == [k \in D |-> d.out[k].weight * d.out[k].vector[t]]
    <2>1. \A k \in D : f[k] = 0
      <3> SUFFICES ASSUME NEW k \in D PROVE f[k] = 0
        OBVIOUS
      <3>1. d.out[k].weight \in Int
        <4>1. Weight(w, k[1]) \in Int /\ Weight(w, k[2]) \in Int /\ SuffixWeight(w, k[3]) \in Int
          BY <1>5, <1>6, <1>10
        <4> QED
          BY <1>2, <4>1
      <3>2. f[k] = d.out[k].weight * 0
        BY <1>3, <1>13
      <3> HIDE DEF f
      <3> QED
        BY <3>1, <3>2
    <2>2. f \in [D -> Int]
      <3>1. \A k \in D : f[k] \in Int
        BY <2>1
      <3> QED
        BY <3>1
    <2>3. IsFiniteSet(D)
      BY <1>5, <1>6, Cross3Finite DEF D
    <2>4. Mean(d, t) = SumFunction(f)
      BY <1>1 DEF Mean
    <2> HIDE DEF f
    <2>5. Mean(d, t) = 0
      BY <2>1, <2>2, <2>3, <2>4, SumZero
    <2>6. g = 0
      BY <1>13
    <2> HIDE DEF P, Q, g
    <2>7. 0 * (Unit * P) = 0 * (Q * P) * Unit
      BY ONLY <1>4, <1>9
    <2> QED
      BY <1>1, <1>12, <2>5, <2>6, <2>7 DEF g
  <1>14. CASE t \notin skip
    <2> DEFINE S == Scores(w, t)
               G == Payoff(w, t)
               X == [a \in A |-> [y \in E |-> (R[a] - R[Fresh(w, a, y[1], y[2], t)]) * S[a]]]
               f == [k \in D |-> d.out[k].weight * d.out[k].vector[t]]
               h == [a \in A |-> SumFunction([y \in E |-> q[y] * X[a][y]])]
               inner(a) == [y \in E |-> q[y] * R[Fresh(w, a, y[1], y[2], t)]]
               Z == [a \in A |-> SumFunction(inner(a))]
               ZS == [a \in A |-> Z[a] * S[a]]
    <2>1. /\ G \in [A -> Int] /\ Expect(w, G) = g
          /\ S \in [A -> Int]
          /\ \A a \in A : G[a] = R[a] * S[a] /\ S[a] = Score(w, a, t) /\ S[a] \in Int /\ R[a] \in Int
      <3>1. \A a \in A : G[a] = R[a] * S[a] /\ S[a] = Score(w, a, t)
        BY DEF Payoff, Scores
      <3> QED
        BY <1>6, <3>1, GradientIsExpect, ScoreMean
    <2> HIDE DEF G, S
    <2>2. \A a \in A, y \in E : Fresh(w, a, y[1], y[2], t) \in A /\ R[Fresh(w, a, y[1], y[2], t)] \in Int
      <3>1. \A y \in E : y[1] \in A /\ y[2] \in C
        BY <1>8 DEF E
      <3> QED
        BY <1>5, <1>6, <3>1
    <2>3. \A a \in A, y \in E : (R[a] - R[Fresh(w, a, y[1], y[2], t)]) * S[a] \in Int
      <3> SUFFICES ASSUME NEW a \in A, NEW y \in E
                   PROVE  (R[a] - R[Fresh(w, a, y[1], y[2], t)]) * S[a] \in Int
        OBVIOUS
      <3>1. R[a] \in Int /\ R[Fresh(w, a, y[1], y[2], t)] \in Int /\ S[a] \in Int
        BY <2>1, <2>2
      <3> QED
        BY <3>1
    <2>4. X \in [A -> [E -> Int]]
          /\ \A a \in A, y \in E : X[a][y] = (R[a] - R[Fresh(w, a, y[1], y[2], t)]) * S[a]
      BY <2>3
    <2> HIDE DEF X
    <2>5. ASSUME NEW a \in A, NEW b \in A, NEW c \in C
          PROVE  /\ f[<<a, b, c>>] = Weight(w, a) * (q[<<b, c>>] * X[a][<<b, c>>])
                 /\ f[<<a, b, c>>] \in Int
      <3> DEFINE x == Weight(w, a)
                 y == Weight(w, b)
                 z == SuffixWeight(w, c)
                 k == <<a, b, c>>
                 v == X[a][<<b, c>>]
      <3>1. x \in Int /\ y \in Int /\ z \in Int
        BY <1>5, <1>6
      <3>2. d.out[k].weight = x * y * z
        BY <1>2, <1>11
      <3>3. v = (R[a] - R[Fresh(w, a, b, c, t)]) * S[a]
        <4>1. <<b, c>> \in E /\ <<b, c>>[1] = b /\ <<b, c>>[2] = c
          BY <1>9
        <4> QED
          BY <2>4, <4>1
      <3>4. d.out[k].vector[t] = (R[a] - R[Fresh(w, a, b, c, t)]) * S[a]
        BY <1>3, <1>11, <1>14, <2>1
      <3>5. v \in Int
        BY <1>9, <2>4
      <3>6. f[k] = d.out[k].weight * d.out[k].vector[t]
        BY <1>11
      <3>7. f[k] = (x * y * z) * v
        BY <3>2, <3>3, <3>4, <3>6
      <3>8. q[<<b, c>>] = y * z
        BY <1>9
      <3> HIDE DEF x, y, z, v, f, k
      <3>9. (x * y * z) * v = x * ((y * z) * v) /\ (x * y * z) * v \in Int
        BY ONLY <3>1, <3>5
      <3> QED
        BY <3>7, <3>8, <3>9 DEF x, v, k
    <2>6. f \in [D -> Int]
      <3>1. ASSUME NEW k \in D PROVE f[k] \in Int
        <4> HIDE DEF f
        <4>1. k[1] \in A /\ k[2] \in A /\ k[3] \in C /\ k = <<k[1], k[2], k[3]>>
          BY <1>10
        <4>2. f[<<k[1], k[2], k[3]>>] \in Int
          BY ONLY <2>5, <4>1
        <4> QED
          BY <4>1, <4>2
      <3> QED
        BY <3>1
    <2>7. Mean(d, t) = SumFunction(f)
      BY <1>1 DEF Mean
    <2> HIDE DEF f
    <2>8. Beside(w, A, C, q, X, f, h)
      BY <1>9, <2>4, <2>5, <2>6 DEF Beside, D, E
    <2>9. ASSUME NEW a \in A
          PROVE  /\ inner(a) \in [E -> Int] /\ Z[a] \in Int /\ Z[a] = SumFunction(inner(a))
                 /\ h[a] = (R[a] * S[a]) * Q + (0 - S[a]) * Z[a]
      <3> DEFINE r == R[a]
                 s == S[a]
                 i == inner(a)
                 k == [y \in E |-> q[y] * X[a][y]]
      <3>1. r \in Int /\ s \in Int /\ r * s \in Int /\ 0 - s \in Int
        BY <2>1
      <3>2. \A y \in E : q[y] \in Int /\ R[Fresh(w, a, y[1], y[2], t)] \in Int
        BY <1>9, <2>2
      <3>3. i \in [E -> Int] /\ \A y \in E : i[y] = q[y] * R[Fresh(w, a, y[1], y[2], t)]
        BY <3>2
      <3>4. Z[a] = SumFunction(i) /\ h[a] = SumFunction(k)
        OBVIOUS
      <3>5. \A y \in E : k[y] = q[y] * ((r - R[Fresh(w, a, y[1], y[2], t)]) * s)
        BY <2>4
      <3> HIDE DEF r, s, i
      <3>6. \A y \in E : k[y] = (r * s) * q[y] + (0 - s) * i[y] /\ k[y] \in Int
        <4> SUFFICES ASSUME NEW y \in E PROVE k[y] = (r * s) * q[y] + (0 - s) * i[y] /\ k[y] \in Int
          OBVIOUS
        <4> DEFINE m == q[y]
                   n == R[Fresh(w, a, y[1], y[2], t)]
        <4>1. m \in Int /\ n \in Int /\ i[y] = m * n /\ k[y] = m * ((r - n) * s)
          BY <3>2, <3>3, <3>5
        <4> HIDE DEF m, n, k
        <4>2. m * ((r - n) * s) = (r * s) * m + (0 - s) * (m * n) /\ m * ((r - n) * s) \in Int
          BY ONLY <3>1, <4>1
        <4> QED
          BY <4>1, <4>2 DEF m
      <3>7. k \in [E -> Int]
        BY <3>6
      <3> HIDE DEF k
      <3>8. SumFunction(k) = (r * s) * SumFunction(q) + (0 - s) * SumFunction(i)
        BY <1>7, <1>9, <3>1, <3>3, <3>6, <3>7, SumLinear
      <3>9. SumFunction(i) \in Int
        BY <1>7, <3>3, SumType
      <3> QED
        BY <3>3, <3>4, <3>8, <3>9 DEF r, s, i
    <2>10. Ignores(w, t, Z)
      <3>1. Z \in [A -> Int]
        <4>1. \A a \in A : SumFunction(inner(a)) \in Int
          BY <2>9
        <4> HIDE DEF inner
        <4> QED
          BY <4>1
      <3>2. ASSUME NEW a \in A, NEW x \in Bit PROVE Z[Put(a, t, x)] = Z[a]
        <4>1. Put(a, t, x) \in A
          BY ScoreAt
        <4>2. \A y \in E : Fresh(w, Put(a, t, x), y[1], y[2], t) = Fresh(w, a, y[1], y[2], t)
          <5>1. \A y \in E : y[1] \in A /\ y[2] \in C
            BY <1>8 DEF E
          <5> QED
            BY <1>5, <5>1
        <4>3. inner(Put(a, t, x)) = inner(a)
          BY <4>2
        <4> QED
          BY <2>9, <4>1, <4>3
      <3> HIDE DEF Z
      <3> QED
        BY <3>1, <3>2 DEF Ignores
    <2>11. ZS \in [A -> Int] /\ \A a \in A : ZS[a] = Z[a] * Score(w, a, t)
      <3>1. \A a \in A : Z[a] * S[a] \in Int
        <4> SUFFICES ASSUME NEW a \in A PROVE Z[a] * S[a] \in Int
          OBVIOUS
        <4>1. Z[a] \in Int /\ S[a] \in Int
          BY <2>1, <2>9
        <4> HIDE DEF Z
        <4> QED
          BY <4>1
      <3> HIDE DEF Z
      <3> QED
        BY <2>1, <3>1
    <2> HIDE DEF h, Z, ZS, inner
    <2>12. h \in [A -> Int] /\ SumFunction(f) = Expect(w, h)
      BY <1>5, <1>6, <2>8, BesideSum
    <2>13. Expect(w, ZS) = 0
      BY <2>10, <2>11, ExpectScore
    <2>14. \A a \in A : h[a] = Q * G[a] + (0 - 1) * ZS[a]
      <3> SUFFICES ASSUME NEW a \in A PROVE h[a] = Q * G[a] + (0 - 1) * ZS[a]
        OBVIOUS
      <3> DEFINE r == R[a]
                 s == S[a]
                 z == Z[a]
      <3>1. /\ r \in Int /\ s \in Int /\ z \in Int
            /\ G[a] = r * s /\ ZS[a] = z * s /\ h[a] = (r * s) * Q + (0 - s) * z
        BY <2>1, <2>9, <2>11
      <3> HIDE DEF r, s, z, Q
      <3>2. (r * s) * Q + (0 - s) * z = Q * (r * s) + (0 - 1) * (z * s)
        BY ONLY <1>9, <3>1
      <3> QED
        BY <3>1, <3>2
    <2> HIDE DEF Q
    <2>15. Combines(A, G, ZS, Q, 0 - 1, h)
      BY <1>9, <2>1, <2>11, <2>12, <2>14 DEF Combines
    <2>16. Expect(w, h) = Q * g + (0 - 1) * 0
      <3>1. Expect(w, h) = Q * Expect(w, G) + (0 - 1) * Expect(w, ZS)
        BY <2>15, ExpectLinear
      <3> QED
        BY <2>1, <2>13, <3>1
    <2> HIDE DEF P, g
    <2>17. (Q * g + (0 - 1) * 0) * (Unit * P) = g * (Q * P) * Unit
      BY ONLY <1>4, <1>9
    <2> QED
      BY <1>1, <1>12, <2>7, <2>12, <2>16, <2>17 DEF g
  <1> QED
    BY <1>13, <1>14
=============================================================================
