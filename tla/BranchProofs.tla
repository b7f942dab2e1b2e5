------------------------------ MODULE BranchProofs ------------------------------
(***************************************************************************)
(* The moments of D002's options, for any buckets, depths and widths: the  *)
(* three ways to a bucket's gradient agree, every option is unbiased, and  *)
(* the closed forms of the second moments are what enumeration gives.      *)
(***************************************************************************)
EXTENDS BranchMoments, EstimatorProofs

-----------------------------------------------------------------------------
(* Buckets *)

LEMMA BitIs == Bit = {0, 1} /\ 0 \in Bit /\ 1 \in Bit /\ IsFiniteSet(Bit)
  BY BitFinite DEF Bit

LEMMA BucketIs ==
  ASSUME NEW b, IsBucket(b)
  PROVE  /\ b.horizon \in Nat \ {0} /\ Times(b) = 1..b.horizon /\ b.initial \in Bit
         /\ \A j \in Logit : b.logit[j] \in 1..(Unit - 1) /\ b.logit[j] \in Int
         /\ \A t \in Times(b), s \in Bit : b.map[t][s] \in Logit
         /\ \A s, a, n \in Bit : b.terminal[<<s, a, n>>] \in Int
         /\ b.noise \subseteq Times(b) /\ IsFiniteSet(b.noise) /\ Cardinality(b.noise) # 1
         /\ Focal(b) => \A t \in Times(b), s \in Bit : b.map[t][s] = b.map[t][0]
         /\ Unit \in Nat \ {0, 1}
  <1>1. b.horizon \in Nat \ {0} /\ Times(b) = 1..b.horizon /\ Unit \in Nat \ {0, 1}
    BY UnitAssumption DEF IsBucket, Times
  <1>2. \A j \in Logit : b.logit[j] \in 1..(Unit - 1) /\ b.logit[j] \in Int
    BY <1>1 DEF IsBucket
  <1>3. \A s, a, n \in Bit : b.terminal[<<s, a, n>>] \in Int
    BY DEF IsBucket
  <1>4. IsFiniteSet(b.noise)
    <2>1. IsFiniteSet(1..b.horizon)
      BY <1>1, FS_Interval
    <2> QED
      BY <1>1, <2>1, FS_Subset DEF IsBucket
  <1>5. \A t \in Times(b), s \in Bit : b.map[t][s] \in Logit
    BY DEF IsBucket
  <1>6. Focal(b) => \A t \in Times(b), s \in Bit : b.map[t][s] = b.map[t][0]
    BY DEF IsBucket, Bit
  <1> QED
    BY <1>1, <1>2, <1>3, <1>4, <1>5, <1>6 DEF IsBucket

LEMMA TakesFacts ==
  ASSUME NEW b, IsBucket(b), NEW t \in Times(b), NEW s \in Bit
  PROVE  /\ ActionProb(b, t, s) \in 1..(Unit - 1) /\ ActionProb(b, t, s) \in Int
         /\ ActionProb(b, t, s) = b.logit[b.map[t][s]]
         /\ \A a \in Bit : Takes(b, t, s, a) \in Nat \ {0}
         /\ Takes(b, t, s, 1) = ActionProb(b, t, s)
         /\ Takes(b, t, s, 0) = Unit - ActionProb(b, t, s)
  <1>1. b.map[t][s] \in Logit /\ Unit \in Nat \ {0, 1}
    BY BucketIs
  <1>2. ActionProb(b, t, s) \in 1..(Unit - 1) /\ ActionProb(b, t, s) = b.logit[b.map[t][s]]
    BY <1>1, BucketIs DEF ActionProb
  <1>3. Takes(b, t, s, 1) = ActionProb(b, t, s) /\ Takes(b, t, s, 0) = Unit - ActionProb(b, t, s)
    BY DEF Takes
  <1>4. \A a \in Bit : Takes(b, t, s, a) \in Nat \ {0}
    BY <1>1, <1>2, <1>3 DEF Bit
  <1> QED
    BY <1>2, <1>3, <1>4

LEMMA MovesFacts ==
  ASSUME NEW b, IsBucket(b), NEW t \in Times(b), NEW s \in Bit, NEW a \in Bit
  PROVE  /\ MoveUnit(b) \in Nat \ {0}
         /\ \A n \in Bit : Moves(b, t, s, a, n) \in Nat
         /\ Moves(b, t, s, a, 1) + Moves(b, t, s, a, 0) = MoveUnit(b)
         /\ Focal(b) => \A n \in Bit : Moves(b, t, s, a, n) = IF n = a THEN 1 ELSE 0
  <1>1. Unit \in Nat \ {0, 1}
    BY UnitAssumption
  <1>2. MoveUnit(b) \in Nat \ {0} /\ (Focal(b) => MoveUnit(b) = 1)
    BY <1>1 DEF MoveUnit
  <1>3. ToOne(b, t, s, a) \in 0..MoveUnit(b) /\ (Focal(b) => ToOne(b, t, s, a) = a)
    <2>1. CASE Focal(b)
      BY <2>1 DEF ToOne, MoveUnit, Bit
    <2>2. CASE ~Focal(b)
      <3> DEFINE x == b.base[t][s] + b.offset[t][s] + (2 * a - 1) * b.effect[t][s]
      <3>1. b.base[t][s] \in Int /\ b.offset[t][s] \in Int /\ b.effect[t][s] \in Int
        BY DEF IsBucket
      <3>2. (2 * a - 1) * b.effect[t][s] \in Int
        BY <3>1 DEF Bit
      <3>3. x \in Int
        BY <3>1, <3>2
      <3>4. ToOne(b, t, s, a) = Clip(x) /\ MoveUnit(b) = Unit
        BY <2>2 DEF ToOne, MoveUnit
      <3> HIDE DEF x
      <3>5. Clip(x) \in 0..Unit
        BY <1>1, <3>3 DEF Clip
      <3> QED
        BY <2>2, <3>4, <3>5
    <2> QED
      BY <2>1, <2>2
  <1>4. /\ Moves(b, t, s, a, 1) = ToOne(b, t, s, a)
        /\ Moves(b, t, s, a, 0) = MoveUnit(b) - ToOne(b, t, s, a)
    BY DEF Moves
  <1> QED
    BY <1>2, <1>3, <1>4 DEF Bit

\* The weight of an action and of the state after it.
Kernel(b, t, s, x, y) == Takes(b, t, s, x) * Moves(b, t, s, x, y)

LEMMA KernelType ==
  ASSUME NEW b, IsBucket(b), NEW t \in Times(b), NEW s \in Bit, NEW x \in Bit, NEW y \in Bit
  PROVE  Kernel(b, t, s, x, y) \in Nat
  <1>1. Takes(b, t, s, x) \in Nat /\ Moves(b, t, s, x, y) \in Nat
    BY TakesFacts, MovesFacts
  <1> QED
    BY <1>1 DEF Kernel

-----------------------------------------------------------------------------
(* Walks: the paths of the first decisions *)

Walks(b, n) == {p \in [a : History(n), s : History(n + 1)] : p.s[1] = b.initial}
Walk(a, s) == [a |-> a, s |-> s]
Grow(p, x, y) == Walk(Append(p.a, x), Append(p.s, y))
Stem(p, k) == Walk(Cut(p.a, k), Cut(p.s, k + 1))

LEMMA WalkIs ==
  ASSUME NEW b, NEW n \in Nat, NEW p
  PROVE  /\ p \in Walks(b, n) <=> /\ p = Walk(p.a, p.s) /\ p.a \in History(n)
                                  /\ p.s \in History(n + 1) /\ p.s[1] = b.initial
         /\ \A a, s : Walk(a, s).a = a /\ Walk(a, s).s = s
  BY DEF Walks, Walk

LEMMA WalkFacts ==
  ASSUME NEW b, NEW n \in Nat, NEW p \in Walks(b, n)
  PROVE  /\ p = Walk(p.a, p.s) /\ p.a \in History(n) /\ p.s \in History(n + 1)
         /\ p.s[1] = b.initial
         /\ \A t \in 1..n : p.a[t] \in Bit /\ p.s[t] \in Bit /\ p.s[t + 1] \in Bit
         /\ p.s[n + 1] \in Bit
  <1>1. p = Walk(p.a, p.s) /\ p.a \in History(n) /\ p.s \in History(n + 1) /\ p.s[1] = b.initial
    BY WalkIs
  <1>2. \A t \in 1..n : p.a[t] \in Bit /\ p.s[t] \in Bit /\ p.s[t + 1] \in Bit
    <2>1. \A t \in 1..n : t \in 1..(n + 1) /\ t + 1 \in 1..(n + 1)
      OBVIOUS
    <2> QED
      BY <1>1, <2>1 DEF History
  <1>3. n + 1 \in 1..(n + 1)
    OBVIOUS
  <1>4. p.s[n + 1] \in Bit
    BY <1>1, <1>3 DEF History
  <1> QED
    BY <1>1, <1>2, <1>4

LEMMA GrowFacts ==
  ASSUME NEW b, NEW n \in Nat, NEW p \in Walks(b, n), NEW x \in Bit, NEW y \in Bit
  PROVE  /\ Grow(p, x, y) \in Walks(b, n + 1)
         /\ Grow(p, x, y).a[n + 1] = x /\ Grow(p, x, y).s[n + 2] = y
         /\ \A t \in 1..n : Grow(p, x, y).a[t] = p.a[t]
         /\ \A t \in 1..(n + 1) : Grow(p, x, y).s[t] = p.s[t]
         /\ Grow(p, x, y).a = Append(p.a, x) /\ Grow(p, x, y).s = Append(p.s, y)
  <1> DEFINE q == Grow(p, x, y)
  <1>1. p.a \in History(n) /\ p.s \in History(n + 1) /\ p.s[1] = b.initial
    BY WalkIs
  <1>2. q.a = Append(p.a, x) /\ q.s = Append(p.s, y) /\ q = Walk(q.a, q.s)
    BY DEF Grow, Walk
  <1>3. /\ q.a \in History(n + 1) /\ q.a[n + 1] = x /\ \A t \in 1..n : q.a[t] = p.a[t]
    BY <1>1, <1>2, Appending
  <1>4. n + 1 \in Nat /\ (n + 1) + 1 = n + 2 /\ 1 \in 1..(n + 1)
    OBVIOUS
  <1>5. /\ q.s \in History((n + 1) + 1) /\ q.s[(n + 1) + 1] = y
        /\ \A t \in 1..(n + 1) : q.s[t] = p.s[t]
    BY <1>1, <1>2, <1>4, Appending
  <1> HIDE DEF q
  <1>6. q \in Walks(b, n + 1)
    BY <1>1, <1>2, <1>3, <1>4, <1>5, WalkIs
  <1> QED
    BY <1>2, <1>3, <1>4, <1>5, <1>6 DEF q

LEMMA SameWalk ==
  ASSUME NEW b, NEW n \in Nat, NEW p \in Walks(b, n), NEW q \in Walks(b, n),
         \A t \in 1..n : p.a[t] = q.a[t], \A t \in 1..(n + 1) : p.s[t] = q.s[t]
  PROVE  p = q
  <1>1. /\ p = Walk(p.a, p.s) /\ p.a \in History(n) /\ p.s \in History(n + 1)
        /\ q = Walk(q.a, q.s) /\ q.a \in History(n) /\ q.s \in History(n + 1)
    BY WalkIs
  <1>2. p.a = q.a
    BY <1>1, SameHistory
  <1>3. p.s = q.s
    <2>1. n + 1 \in Nat
      OBVIOUS
    <2> QED
      BY <1>1, <2>1, SameHistory
  <1> QED
    BY <1>1, <1>2, <1>3

LEMMA StemFacts ==
  ASSUME NEW b, NEW n \in Nat, NEW k \in 0..n, NEW p \in Walks(b, n)
  PROVE  /\ Stem(p, k) \in Walks(b, k)
         /\ \A t \in 1..k : Stem(p, k).a[t] = p.a[t]
         /\ \A t \in 1..(k + 1) : Stem(p, k).s[t] = p.s[t]
         /\ k = n => Stem(p, k) = p
         /\ \A x, y \in Bit : Stem(Grow(p, x, y), k) = Stem(p, k)
  <1> DEFINE q == Stem(p, k)
  <1>1. p.a \in History(n) /\ p.s \in History(n + 1) /\ p.s[1] = b.initial /\ p = Walk(p.a, p.s)
    BY WalkIs
  <1>2. k \in Nat /\ n + 1 \in Nat /\ k + 1 \in 0..(n + 1) /\ 1 \in 1..(k + 1)
    OBVIOUS
  <1>3. q = Walk(q.a, q.s) /\ q.a = Cut(p.a, k) /\ q.s = Cut(p.s, k + 1)
    BY DEF Stem, Walk
  <1>4. /\ q.a \in History(k) /\ (\A t \in 1..k : q.a[t] = p.a[t]) /\ (k = n => q.a = p.a)
        /\ \A x \in Bit : Cut(Append(p.a, x), k) = q.a
    BY <1>1, <1>3, Cutting
  <1>5. /\ q.s \in History(k + 1) /\ (\A t \in 1..(k + 1) : q.s[t] = p.s[t])
        /\ (k + 1 = n + 1 => q.s = p.s)
        /\ \A y \in Bit : Cut(Append(p.s, y), k + 1) = q.s
    BY <1>1, <1>2, <1>3, Cutting
  <1>6. \A x, y \in Bit : Stem(Grow(p, x, y), k) = q
    <2> SUFFICES ASSUME NEW x \in Bit, NEW y \in Bit PROVE Stem(Grow(p, x, y), k) = q
      OBVIOUS
    <2>1. Grow(p, x, y).a = Append(p.a, x) /\ Grow(p, x, y).s = Append(p.s, y)
      BY DEF Grow, Walk
    <2>2. Stem(Grow(p, x, y), k) = Walk(Cut(Append(p.a, x), k), Cut(Append(p.s, y), k + 1))
      BY <2>1 DEF Stem
    <2> HIDE DEF q
    <2> QED
      BY <1>3, <1>4, <1>5, <2>2
  <1> HIDE DEF q
  <1>7. q \in Walks(b, k)
    BY <1>1, <1>2, <1>3, <1>4, <1>5, WalkIs
  <1>8. k = n => q = p
    BY <1>1, <1>3, <1>4, <1>5
  <1> QED
    BY <1>4, <1>5, <1>6, <1>7, <1>8 DEF q

FourBits(f) == f[<<0, 0>>] + f[<<0, 1>>] + f[<<1, 0>>] + f[<<1, 1>>]

LEMMA SumFour ==
  ASSUME NEW f, f \in [Bit \X Bit -> Int]
  PROVE  IsFiniteSet(Bit \X Bit) /\ SumFunction(f) = FourBits(f)
  <1> DEFINE row == [x \in Bit |-> [y \in Bit |-> f[<<x, y>>]]]
             h == [x \in Bit |-> f[<<x, 0>>] + f[<<x, 1>>]]
  <1>1. \A x, y \in Bit : f[<<x, y>>] \in Int
    OBVIOUS
  <1>2. row \in [Bit -> [Bit -> Int]] /\ \A x \in Bit, y \in Bit : row[x][y] = f[<<x, y>>]
    BY <1>1
  <1>3. h \in [Bit -> Int] /\ \A x \in Bit : h[x] = SumFunction(row[x])
    <2>1. h \in [Bit -> Int]
      BY <1>1, BitIs
    <2>2. ASSUME NEW x \in Bit PROVE h[x] = SumFunction(row[x])
      <3> DEFINE r == row[x]
      <3>1. r \in [Bit -> Int] /\ r[0] = f[<<x, 0>>] /\ r[1] = f[<<x, 1>>]
        BY <1>2, BitIs
      <3> HIDE DEF r, row
      <3>2. SumFunction(r) = r[0] + r[1]
        BY <3>1, SumBits
      <3> QED
        BY <3>1, <3>2 DEF r
    <2> QED
      BY <2>1, <2>2
  <1>4. Crossed(Bit, Bit, f, row, h)
    BY <1>2, <1>3 DEF Crossed
  <1> HIDE DEF row
  <1>5. SumFunction(f) = SumFunction(h) /\ IsFiniteSet(Bit \X Bit)
    BY <1>4, SumCross, CrossFinite, BitFinite
  <1>6. SumFunction(h) = h[0] + h[1]
    BY <1>3, SumBits
  <1>7. h[0] = f[<<0, 0>>] + f[<<0, 1>>] /\ h[1] = f[<<1, 0>>] + f[<<1, 1>>]
    BY BitIs
  <1> QED
    BY <1>1, <1>5, <1>6, <1>7, BitIs DEF FourBits

Growing(b, n) == [p \in Walks(b, n) |-> [xy \in Bit \X Bit |-> Grow(p, xy[1], xy[2])]]

LEMMA GrowingIsPairing ==
  ASSUME NEW b, NEW n \in Nat
  PROVE  IsPairing(Walks(b, n), Bit \X Bit, Walks(b, n + 1), Growing(b, n))
  <1> DEFINE A == Walks(b, n)
             B == Bit \X Bit
             D == Walks(b, n + 1)
             pair == Growing(b, n)
  <1>0. \A p \in A, x \in Bit, y \in Bit :
          /\ Grow(p, x, y) \in D /\ Grow(p, x, y).a[n + 1] = x /\ Grow(p, x, y).s[n + 2] = y
          /\ \A t \in 1..n : Grow(p, x, y).a[t] = p.a[t]
          /\ \A t \in 1..(n + 1) : Grow(p, x, y).s[t] = p.s[t]
    BY GrowFacts
  <1>1. \A p \in A, z \in B : pair[p][z] = Grow(p, z[1], z[2]) /\ pair[p][z] \in D
    BY GrowFacts DEF Growing
  <1>2. pair \in [A -> [B -> D]]
    BY <1>1 DEF Growing
  <1>3. ASSUME NEW q \in D PROVE \E p \in A, z \in B : q = pair[p][z]
    <2> DEFINE p == Stem(q, n)
               z == <<q.a[n + 1], q.s[n + 2]>>
    <2>1. n + 1 \in Nat /\ n \in 0..(n + 1) /\ (n + 1) + 1 = n + 2 /\ n + 1 \in 1..(n + 1)
      OBVIOUS
    <2>2. /\ p \in A /\ (\A t \in 1..n : p.a[t] = q.a[t]) /\ (\A t \in 1..(n + 1) : p.s[t] = q.s[t])
      BY <2>1, StemFacts
    <2>3. q.a[n + 1] \in Bit /\ q.s[n + 2] \in Bit
      BY <2>1, WalkFacts
    <2>4. z \in B /\ z[1] = q.a[n + 1] /\ z[2] = q.s[n + 2]
      BY <2>3
    <2> DEFINE r == Grow(p, z[1], z[2])
    <2> HIDE DEF p, z
    <2>5. /\ r \in D /\ r.a[n + 1] = z[1] /\ r.s[n + 2] = z[2]
          /\ \A t \in 1..n : r.a[t] = p.a[t]
          /\ \A t \in 1..(n + 1) : r.s[t] = p.s[t]
      <3>1. z[1] \in Bit /\ z[2] \in Bit
        BY <2>3, <2>4
      <3> HIDE DEF A, B, D, pair
      <3> QED
        BY <1>0, <2>2, <3>1
    <2> HIDE DEF r
    <2>6. \A t \in 1..(n + 1) : q.a[t] = r.a[t]
      <3>1. \A t \in 1..(n + 1) : t \in 1..n \/ t = n + 1
        OBVIOUS
      <3> QED
        BY <2>2, <2>4, <2>5, <3>1
    <2>7. \A t \in 1..((n + 1) + 1) : q.s[t] = r.s[t]
      <3>1. \A t \in 1..((n + 1) + 1) : t \in 1..(n + 1) \/ t = n + 2
        OBVIOUS
      <3> QED
        BY <2>2, <2>4, <2>5, <3>1
    <2>8. q = r
      BY <2>1, <2>5, <2>6, <2>7, SameWalk
    <2> HIDE DEF A, B, D, pair
    <2>9. q = pair[p][z]
      BY <1>1, <2>2, <2>4, <2>8 DEF r
    <2> QED
      BY <2>2, <2>4, <2>9
  <1>4. ASSUME NEW p \in A, NEW q \in A, NEW z \in B, NEW y \in B, pair[p][z] = pair[q][y]
        PROVE  p = q /\ z = y
    <2> DEFINE u == Grow(p, z[1], z[2])
               v == Grow(q, y[1], y[2])
    <2>1. z[1] \in Bit /\ z[2] \in Bit /\ y[1] \in Bit /\ y[2] \in Bit
      OBVIOUS
    <2>2. /\ u.a[n + 1] = z[1] /\ u.s[n + 2] = z[2] /\ (\A t \in 1..n : u.a[t] = p.a[t])
          /\ \A t \in 1..(n + 1) : u.s[t] = p.s[t]
      BY <1>0, <2>1
    <2>3. /\ v.a[n + 1] = y[1] /\ v.s[n + 2] = y[2] /\ (\A t \in 1..n : v.a[t] = q.a[t])
          /\ \A t \in 1..(n + 1) : v.s[t] = q.s[t]
      BY <1>0, <2>1
    <2>4. u = v
      BY <1>1, <1>4
    <2> HIDE DEF u, v
    <2>5. p = q
      BY <2>2, <2>3, <2>4, SameWalk
    <2>6. z = y
      BY <2>2, <2>3, <2>4
    <2> QED
      BY <2>5, <2>6
  <1> HIDE DEF A, B, D, pair
  <1>5. IsPairing(A, B, D, pair)
    BY <1>2, <1>3, <1>4 DEF IsPairing
  <1> QED
    BY <1>5 DEF A, B, D, pair

LEMMA OneWalk ==
  ASSUME NEW b, b.initial \in Bit
  PROVE  \E r : Walks(b, 0) = {r} /\ r.s[1] = b.initial
  <1>1. PICK e : History(0) = {e}
    BY NoHistory
  <1> DEFINE r == Walk(e, Append(e, b.initial))
  <1>2. e \in History(0) /\ 0 \in Nat /\ 0 + 1 = 1
    BY <1>1
  <1>3. Append(e, b.initial) \in History(0 + 1) /\ Append(e, b.initial)[0 + 1] = b.initial
    BY <1>2, Appending
  <1>4. r.a = e /\ r.s = Append(e, b.initial) /\ r = Walk(r.a, r.s)
    BY DEF Walk
  <1> HIDE DEF r
  <1>5. r \in Walks(b, 0) /\ r.s[1] = b.initial
    BY <1>2, <1>3, <1>4, WalkIs
  <1>6. ASSUME NEW p \in Walks(b, 0) PROVE p = r
    <2>1. \A t \in 1..0 : p.a[t] = r.a[t]
      OBVIOUS
    <2>2. p.s[1] = b.initial /\ \A t \in 1..(0 + 1) : t = 1
      BY <1>2, WalkFacts
    <2>3. \A t \in 1..(0 + 1) : p.s[t] = r.s[t]
      BY <1>5, <2>2
    <2> QED
      BY <1>2, <1>5, <2>1, <2>3, SameWalk
  <1> QED
    BY <1>5, <1>6

LEMMA WalksFinite ==
  ASSUME NEW b, b.initial \in Bit PROVE \A n \in Nat : IsFiniteSet(Walks(b, n))
  <1> DEFINE X == {n \in Nat : IsFiniteSet(Walks(b, n))}
  <1>1. 0 \in X
    <2>1. PICK r : Walks(b, 0) = {r}
      BY OneWalk
    <2> QED
      BY <2>1, FS_Singleton
  <1>2. ASSUME NEW n \in Nat, n \in X PROVE n + 1 \in X
    <2>1. IsFiniteSet(Bit \X Bit)
      BY CrossFinite, BitFinite
    <2>2. IsFiniteSet(Walks(b, n + 1))
      BY <1>2, <2>1, GrowingIsPairing, PairsFinite
    <2> QED
      BY <2>2
  <1> HIDE DEF X
  <1>3. Nat \subseteq X
    BY <1>1, <1>2, NatSetInduction
  <1> QED
    BY <1>3 DEF X

\* A sum over walks, by their last step.
Grown(f, p) == f[Grow(p, 0, 0)] + f[Grow(p, 0, 1)] + f[Grow(p, 1, 0)] + f[Grow(p, 1, 1)]

LEMMA SumByGrowth ==
  ASSUME NEW b, b.initial \in Bit, NEW n \in Nat,
         NEW f, f \in [Walks(b, n + 1) -> Int], NEW g, g \in [Walks(b, n) -> Int],
         \A p \in Walks(b, n) : g[p] = Grown(f, p)
  PROVE  SumFunction(f) = SumFunction(g)
  <1> DEFINE A == Walks(b, n)
             B == Bit \X Bit
             D == Walks(b, n + 1)
             pair == Growing(b, n)
             row == [p \in A |-> [z \in B |-> f[Grow(p, z[1], z[2])]]]
  <1>1. IsPairing(A, B, D, pair) /\ IsFiniteSet(A) /\ IsFiniteSet(B)
    BY GrowingIsPairing, WalksFinite, CrossFinite, BitFinite
  <1>2. \A p \in A, z \in B : /\ Grow(p, z[1], z[2]) \in D
                              /\ pair[p][z] = Grow(p, z[1], z[2])
    BY GrowFacts DEF Growing
  <1>3. pair \in [A -> [B -> D]]
    BY <1>2 DEF Growing
  <1>4. row \in [A -> [B -> Int]] /\ \A p \in A, z \in B : row[p][z] = f[pair[p][z]]
    BY <1>2
  <1>5. ASSUME NEW p \in A PROVE g[p] = SumFunction(row[p])
    <2> DEFINE r == row[p]
    <2>1. r \in [B -> Int]
      BY <1>4
    <2>2. /\ r[<<0, 0>>] = f[Grow(p, 0, 0)] /\ r[<<0, 1>>] = f[Grow(p, 0, 1)]
          /\ r[<<1, 0>>] = f[Grow(p, 1, 0)] /\ r[<<1, 1>>] = f[Grow(p, 1, 1)]
      BY BitIs
    <2> HIDE DEF r
    <2>3. SumFunction(r) = FourBits(r)
      BY <2>1, SumFour
    <2>4. FourBits(r) = Grown(f, p)
      BY <2>2 DEF FourBits, Grown
    <2> QED
      BY <2>3, <2>4 DEF r
  <1> HIDE DEF A, B, D, pair, row
  <1>6. ByRows(A, B, D, pair, f, row, g)
    BY <1>3, <1>4, <1>5 DEF ByRows, A, D
  <1> QED
    BY <1>1, <1>6, SumPairs

LEMMA LastStep ==
  ASSUME NEW b, NEW n \in Nat, NEW q \in Walks(b, n + 1)
  PROVE  \E p \in Walks(b, n), x, y \in Bit : q = Grow(p, x, y)
  <1> DEFINE A == Walks(b, n)
             B == Bit \X Bit
             D == Walks(b, n + 1)
             pair == Growing(b, n)
  <1>1. \A p \in A, z \in B : pair[p][z] = Grow(p, z[1], z[2]) /\ z[1] \in Bit /\ z[2] \in Bit
    BY DEF Growing
  <1>2. IsPairing(A, B, D, pair)
    BY GrowingIsPairing
  <1> HIDE DEF A, B, D, pair
  <1>3. \A e \in D : \E p \in A, z \in B : e = pair[p][z]
    BY <1>2 DEF IsPairing
  <1>4. q \in D
    BY DEF D
  <1>5. PICK p \in A, z \in B : q = pair[p][z]
    BY <1>3, <1>4
  <1>6. p \in Walks(b, n) /\ z[1] \in Bit /\ z[2] \in Bit /\ q = Grow(p, z[1], z[2])
    BY <1>1, <1>5 DEF A
  <1> QED
    BY <1>6

-----------------------------------------------------------------------------
(* Weights and scores of walks *)

Pace(b, p, t) == Takes(b, t, p.s[t], p.a[t]) * Moves(b, t, p.s[t], p.a[t], p.s[t + 1])

LEMMA PathWeightIs ==
  ASSUME NEW b, NEW n, NEW p
  PROVE  PathWeight(b, n, p) = ProductOf([t \in 1..n |-> Pace(b, p, t)])
  BY DEF PathWeight, Pace

LEMMA SameWeight ==
  ASSUME NEW b, NEW n \in Nat, NEW p, NEW q,
         \A t \in 1..n : p.a[t] = q.a[t], \A t \in 1..(n + 1) : p.s[t] = q.s[t]
  PROVE  PathWeight(b, n, p) = PathWeight(b, n, q)
  <1> DEFINE f == [t \in 1..n |-> Pace(b, p, t)]
             g == [t \in 1..n |-> Pace(b, q, t)]
  <1>1. ASSUME NEW t \in 1..n PROVE Pace(b, p, t) = Pace(b, q, t)
    <2>1. t \in 1..(n + 1) /\ t + 1 \in 1..(n + 1)
      OBVIOUS
    <2>2. p.a[t] = q.a[t] /\ p.s[t] = q.s[t] /\ p.s[t + 1] = q.s[t + 1]
      BY <2>1
    <2> QED
      BY <2>2 DEF Pace
  <1>2. f = g
    BY <1>1
  <1>3. PathWeight(b, n, p) = ProductOf(f) /\ PathWeight(b, n, q) = ProductOf(g)
    BY PathWeightIs
  <1> HIDE DEF f, g
  <1> QED
    BY <1>2, <1>3

LEMMA SameScore ==
  ASSUME NEW b, NEW n \in Nat, NEW p, NEW q, NEW j,
         \A t \in 1..n : p.a[t] = q.a[t], \A t \in 1..(n + 1) : p.s[t] = q.s[t]
  PROVE  PathScore(b, n, p, j) = PathScore(b, n, q, j)
  <1> DEFINE S == {t \in 1..n : b.map[t][p.s[t]] = j}
             T == {t \in 1..n : b.map[t][q.s[t]] = j}
             f == [t \in S |-> p.a[t] * Unit - b.logit[j]]
             g == [t \in T |-> q.a[t] * Unit - b.logit[j]]
  <1>1. \A t \in 1..n : t \in 1..(n + 1)
    OBVIOUS
  <1>2. S = T
    BY <1>1
  <1>3. \A t \in S : p.a[t] * Unit - b.logit[j] = q.a[t] * Unit - b.logit[j]
    BY <1>1
  <1>4. f = g
    BY <1>2, <1>3
  <1>5. PathScore(b, n, p, j) = SumFunction(f) /\ PathScore(b, n, q, j) = SumFunction(g)
    BY DEF PathScore
  <1> HIDE DEF f, g
  <1> QED
    BY <1>4, <1>5

LEMMA PaceType ==
  ASSUME NEW b, IsBucket(b), NEW n \in Nat, n <= b.horizon, NEW p \in Walks(b, n), NEW t \in 1..n
  PROVE  Pace(b, p, t) \in Nat /\ Pace(b, p, t) = Kernel(b, t, p.s[t], p.a[t], p.s[t + 1])
  <1>1. p.a[t] \in Bit /\ p.s[t] \in Bit /\ p.s[t + 1] \in Bit
    BY WalkFacts
  <1>2. t \in Times(b)
    BY BucketIs
  <1>3. Pace(b, p, t) = Kernel(b, t, p.s[t], p.a[t], p.s[t + 1])
    BY DEF Pace, Kernel
  <1> QED
    BY <1>1, <1>2, <1>3, KernelType

LEMMA WeightGrow ==
  ASSUME NEW b, IsBucket(b), NEW n \in Nat, n + 1 <= b.horizon, NEW p \in Walks(b, n),
         NEW x \in Bit, NEW y \in Bit
  PROVE  /\ PathWeight(b, n, p) \in Int
         /\ PathWeight(b, n + 1, Grow(p, x, y))
              = PathWeight(b, n, p) * Kernel(b, n + 1, p.s[n + 1], x, y)
  <1> DEFINE q == Grow(p, x, y)
             f == [t \in 1..(n + 1) |-> Pace(b, q, t)]
             g == [t \in 1..n |-> Pace(b, q, t)]
             k == Kernel(b, n + 1, p.s[n + 1], x, y)
  <1>0. n <= b.horizon /\ n + 1 \in Nat /\ n + 1 \in 1..(n + 1) /\ (n + 1) + 1 = n + 2
    BY BucketIs
  <1>1. /\ q \in Walks(b, n + 1) /\ q.a[n + 1] = x /\ q.s[n + 2] = y
        /\ (\A t \in 1..n : q.a[t] = p.a[t]) /\ \A t \in 1..(n + 1) : q.s[t] = p.s[t]
    <2> HIDE DEF f, g, k
    <2>1. /\ q \in Walks(b, n + 1) /\ q.a[n + 1] = x /\ q.s[n + 2] = y
          /\ (\A t \in 1..n : q.a[t] = p.a[t]) /\ (\A t \in 1..(n + 1) : q.s[t] = p.s[t])
          /\ q.a = Append(p.a, x) /\ q.s = Append(p.s, y)
      BY ONLY n \in Nat, p \in Walks(b, n), x \in Bit, y \in Bit, GrowFacts
    <2> HIDE DEF q
    <2> QED
      BY ONLY <2>1
  <1> HIDE DEF q
  <1>2. \A t \in 1..(n + 1) : Pace(b, q, t) \in Int
    BY <1>0, <1>1, PaceType
  <1>3. f \in [1..(n + 1) -> Int] /\ g \in [1..n -> Int] /\ \A t \in 1..n : g[t] = f[t]
    BY <1>2
  <1>4. f[n + 1] = k
    <2>1. f[n + 1] = Pace(b, q, n + 1)
      BY <1>0
    <2>2. Pace(b, q, n + 1) = Kernel(b, n + 1, q.s[n + 1], q.a[n + 1], q.s[(n + 1) + 1])
      BY <1>0, <1>1, PaceType
    <2>3. q.s[n + 1] = p.s[n + 1]
      BY <1>0, <1>1
    <2> QED
      BY <1>0, <1>1, <2>1, <2>2, <2>3
  <1>5. PathWeight(b, n + 1, q) = ProductOf(f) /\ PathWeight(b, n, q) = ProductOf(g)
    BY PathWeightIs
  <1>6. PathWeight(b, n, q) = PathWeight(b, n, p)
    BY <1>1, SameWeight
  <1> HIDE DEF f, g, k
  <1>7. 1..n = (1..(n + 1)) \ {n + 1} /\ IsFiniteSet(1..(n + 1)) /\ IsFiniteSet(1..n)
    <2>1. \A m \in Nat : IsFiniteSet(1..m)
      BY FS_Interval
    <2>2. 1..n = (1..(n + 1)) \ {n + 1}
      OBVIOUS
    <2> QED
      BY <1>0, <2>1, <2>2
  <1>8. ProductOf(f) = f[n + 1] * ProductOf(g)
    <2> DEFINE D == 1..(n + 1)
               E == 1..n
    <2>1. IsFiniteSet(D) /\ f \in [D -> Int] /\ n + 1 \in D /\ E = D \ {n + 1} /\ g \in [E -> Int]
          /\ \A y2 \in E : g[y2] = f[y2]
      BY <1>0, <1>3, <1>7
    <2> HIDE DEF D, E
    <2> QED
      BY <2>1, ProductTake
  <1>9. ProductOf(g) \in Int
    BY <1>3, <1>7, ProductType
  <1>10. k \in Int
    BY <1>0, <1>3, <1>4
  <1>11. \A u, v \in Int : u * v = v * u
    OBVIOUS
  <1>12. PathWeight(b, n + 1, q) = PathWeight(b, n, p) * k
    BY <1>4, <1>5, <1>6, <1>8, <1>9, <1>10, <1>11
  <1> QED
    BY <1>5, <1>6, <1>9, <1>12 DEF q, k

LEMMA WeightType2 ==
  ASSUME NEW b, IsBucket(b)
  PROVE  \A n \in Nat : n <= b.horizon => \A p \in Walks(b, n) : PathWeight(b, n, p) \in Nat
  <1> DEFINE X == {n \in Nat : n <= b.horizon => \A p \in Walks(b, n) : PathWeight(b, n, p) \in Nat}
  <1>1. 0 \in X
    <2> SUFFICES ASSUME NEW p \in Walks(b, 0) PROVE PathWeight(b, 0, p) \in Nat
      OBVIOUS
    <2> DEFINE f == [t \in 1..0 |-> Pace(b, p, t)]
    <2>1. DOMAIN f = {}
      OBVIOUS
    <2>2. PathWeight(b, 0, p) = ProductOf(f)
      BY PathWeightIs
    <2> HIDE DEF f
    <2> QED
      BY <2>1, <2>2, ProductEmpty
  <1>2. ASSUME NEW n \in Nat, n \in X PROVE n + 1 \in X
    <2> SUFFICES ASSUME n + 1 <= b.horizon, NEW q \in Walks(b, n + 1)
                 PROVE  PathWeight(b, n + 1, q) \in Nat
      OBVIOUS
    <2>1. PICK p \in Walks(b, n), x \in Bit, y \in Bit : q = Grow(p, x, y)
      BY LastStep
    <2>2. n <= b.horizon /\ n + 1 \in Times(b)
      BY BucketIs
    <2>3. PathWeight(b, n, p) \in Nat
      BY <1>2, <2>2
    <2>4. Kernel(b, n + 1, p.s[n + 1], x, y) \in Nat
      BY <2>2, WalkFacts, KernelType
    <2>5. PathWeight(b, n + 1, q) = PathWeight(b, n, p) * Kernel(b, n + 1, p.s[n + 1], x, y)
      BY <2>1, WeightGrow
    <2>6. \A u, v \in Nat : u * v \in Nat
      OBVIOUS
    <2> QED
      BY <2>3, <2>4, <2>5, <2>6
  <1> HIDE DEF X
  <1>3. Nat \subseteq X
    BY <1>1, <1>2, NatSetInduction
  <1> QED
    BY <1>3 DEF X

\* What the decision at step t in state s adds to the score of logit j.
Tally(b, t, s, x, j) == IF b.map[t][s] = j THEN x * Unit - b.logit[j] ELSE 0

LEMMA TallyType ==
  ASSUME NEW b, IsBucket(b), NEW j \in Logit, NEW t, NEW s, NEW x \in Bit
  PROVE  Tally(b, t, s, x, j) \in Int /\ x * Unit - b.logit[j] \in Int
  <1>1. b.logit[j] \in Int /\ Unit \in Int
    BY BucketIs
  <1>2. x * Unit - b.logit[j] \in Int
    BY <1>1 DEF Bit
  <1> QED
    BY <1>2 DEF Tally

LEMMA ScoreGrow ==
  ASSUME NEW b, IsBucket(b), NEW n \in Nat, NEW p \in Walks(b, n), NEW j \in Logit,
         NEW x \in Bit, NEW y \in Bit
  PROVE  /\ PathScore(b, n, p, j) \in Int
         /\ PathScore(b, n + 1, Grow(p, x, y), j)
              = PathScore(b, n, p, j) + Tally(b, n + 1, p.s[n + 1], x, j)
  <1> DEFINE q == Grow(p, x, y)
             S == {t \in 1..n : b.map[t][q.s[t]] = j}
             T == {t \in 1..(n + 1) : b.map[t][q.s[t]] = j}
             f == [t \in T |-> q.a[t] * Unit - b.logit[j]]
             g == [t \in S |-> q.a[t] * Unit - b.logit[j]]
  <1>1. /\ q \in Walks(b, n + 1) /\ q.a[n + 1] = x /\ q.s[n + 2] = y
        /\ (\A t \in 1..n : q.a[t] = p.a[t]) /\ \A t \in 1..(n + 1) : q.s[t] = p.s[t]
    <2> HIDE DEF S, T, f, g
    <2> QED
      BY ONLY n \in Nat, p \in Walks(b, n), x \in Bit, y \in Bit, GrowFacts
  <1> HIDE DEF q
  <1>2. IsFiniteSet(S) /\ IsFiniteSet(T)
    <2>1. IsFiniteSet(1..n) /\ IsFiniteSet(1..(n + 1))
      BY FS_Interval
    <2> QED
      BY <2>1, FS_Subset
  <1>3. \A t \in T : q.a[t] * Unit - b.logit[j] \in Int
    <2>1. \A t \in 1..(n + 1) : q.a[t] \in Bit
      BY <1>1, WalkFacts
    <2> QED
      BY <2>1, TallyType
  <1>4. f \in [T -> Int]
    BY <1>3
  <1>5. \A t \in S : t \in T
    OBVIOUS
  <1>6. g \in [S -> Int] /\ \A t \in S : g[t] = f[t]
    BY <1>3, <1>5
  <1>7. PathScore(b, n + 1, q, j) = SumFunction(f) /\ PathScore(b, n, q, j) = SumFunction(g)
    BY DEF PathScore
  <1>8. PathScore(b, n, q, j) = PathScore(b, n, p, j)
    BY <1>1, SameScore
  <1>9. n + 1 \in 1..(n + 1) /\ q.s[n + 1] = p.s[n + 1]
    BY <1>1
  <1> DEFINE Conclusion == PathScore(b, n, p, j) \in Int
               /\ PathScore(b, n + 1, q, j) = PathScore(b, n, p, j) + Tally(b, n + 1, p.s[n + 1], x, j)
  <1> SUFFICES Conclusion
    BY DEF q
  <1>10. CASE b.map[n + 1][q.s[n + 1]] = j
    <2>1. n + 1 \in T /\ S = T \ {n + 1}
      BY <1>9, <1>10
    <2>2. f[n + 1] = x * Unit - b.logit[j]
      BY <1>1, <2>1
    <2>3. Tally(b, n + 1, p.s[n + 1], x, j) = x * Unit - b.logit[j]
      BY <1>9, <1>10 DEF Tally
    <2> HIDE DEF S, T, f, g
    <2>4. g \in [T \ {n + 1} -> Int] /\ \A t \in T \ {n + 1} : g[t] = f[t]
      BY <1>6, <2>1
    <2>5. SumFunction(f) = f[n + 1] + SumFunction(g)
      BY <1>2, <1>4, <2>1, <2>4, SumTake
    <2>6. SumFunction(g) \in Int /\ f[n + 1] \in Int
      BY <1>2, <1>4, <1>6, <2>1, SumType
    <2>7. PathScore(b, n, p, j) = SumFunction(g) /\ PathScore(b, n + 1, q, j) = SumFunction(f)
      BY <1>7, <1>8
    <2>8. \A u, v \in Int : u + v = v + u
      OBVIOUS
    <2>9. f[n + 1] = Tally(b, n + 1, p.s[n + 1], x, j)
      BY <2>2, <2>3
    <2> QED
      BY ONLY <2>5, <2>6, <2>7, <2>8, <2>9
  <1>11. CASE b.map[n + 1][q.s[n + 1]] # j
    <2>1. \A t \in T : t # n + 1
      BY <1>11
    <2>2. S = T
      BY <2>1
    <2>3. Tally(b, n + 1, p.s[n + 1], x, j) = 0
      BY <1>9, <1>11 DEF Tally
    <2> HIDE DEF S, T, f, g
    <2>4. SumFunction(g) = SumFunction(f)
      BY <1>2, <1>4, <1>6, <2>2, SumSame
    <2>5. SumFunction(g) \in Int
      BY <1>2, <1>6, SumType
    <2>6. PathScore(b, n, p, j) = SumFunction(g) /\ PathScore(b, n + 1, q, j) = SumFunction(f)
      BY <1>7, <1>8
    <2>7. \A u \in Int : u + 0 = u
      OBVIOUS
    <2> QED
      BY ONLY <2>3, <2>4, <2>5, <2>6, <2>7
  <1> QED
    BY <1>10, <1>11

LEMMA NoScore == ASSUME NEW b, NEW p, NEW j PROVE PathScore(b, 0, p, j) = 0
  <1> DEFINE f == [t \in {t \in 1..0 : b.map[t][p.s[t]] = j} |-> p.a[t] * Unit - b.logit[j]]
  <1>1. DOMAIN f = {}
    OBVIOUS
  <1>2. PathScore(b, 0, p, j) = SumFunction(f)
    BY DEF PathScore
  <1> HIDE DEF f
  <1> QED
    BY <1>1, <1>2, SumEmpty

LEMMA NoWeight == ASSUME NEW b, NEW p PROVE PathWeight(b, 0, p) = 1
  <1> DEFINE f == [t \in 1..0 |-> Pace(b, p, t)]
  <1>1. DOMAIN f = {}
    OBVIOUS
  <1>2. PathWeight(b, 0, p) = ProductOf(f)
    BY PathWeightIs
  <1> HIDE DEF f
  <1> QED
    BY <1>1, <1>2, ProductEmpty

LEMMA KernelSums ==
  ASSUME NEW b, IsBucket(b), NEW t \in Times(b), NEW s \in Bit, NEW j \in Logit
  PROVE  /\ Kernel(b, t, s, 0, 0) + Kernel(b, t, s, 0, 1) + Kernel(b, t, s, 1, 0)
              + Kernel(b, t, s, 1, 1) = Unit * MoveUnit(b)
         /\ Kernel(b, t, s, 0, 0) * Tally(b, t, s, 0, j) + Kernel(b, t, s, 0, 1) * Tally(b, t, s, 0, j)
              + Kernel(b, t, s, 1, 0) * Tally(b, t, s, 1, j) + Kernel(b, t, s, 1, 1) * Tally(b, t, s, 1, j)
              = 0
  <1> DEFINE M == MoveUnit(b)
             l == ActionProb(b, t, s)
             m00 == Moves(b, t, s, 0, 0)
             m01 == Moves(b, t, s, 0, 1)
             m10 == Moves(b, t, s, 1, 0)
             m11 == Moves(b, t, s, 1, 1)
  <1>1. /\ M \in Int /\ m00 \in Int /\ m01 \in Int /\ m10 \in Int /\ m11 \in Int
        /\ m01 + m00 = M /\ m11 + m10 = M
    BY MovesFacts, BitIs
  <1>2. /\ Takes(b, t, s, 1) = l /\ Takes(b, t, s, 0) = Unit - l /\ l \in Int /\ Unit \in Int
        /\ l = b.logit[b.map[t][s]]
    BY TakesFacts, BucketIs
  <1>3. /\ Kernel(b, t, s, 0, 0) = (Unit - l) * m00 /\ Kernel(b, t, s, 0, 1) = (Unit - l) * m01
        /\ Kernel(b, t, s, 1, 0) = l * m10 /\ Kernel(b, t, s, 1, 1) = l * m11
    BY <1>2 DEF Kernel
  <1> DEFINE u == Tally(b, t, s, 0, j)
             v == Tally(b, t, s, 1, j)
  <1>4. (u = 0 /\ v = 0) \/ (u = 0 - l /\ v = Unit - l)
    BY <1>2 DEF Tally
  <1> HIDE DEF M, l, m00, m01, m10, m11, u, v
  <1>5. (Unit - l) * m00 + (Unit - l) * m01 + l * m10 + l * m11 = Unit * M
    <2>1. m00 = M - m01 /\ m10 = M - m11
      BY <1>1
    <2>2. \A U, N, m, k, c \in Int : (U - c) * (N - m) + (U - c) * m + c * (N - k) + c * k = U * N
      OBVIOUS
    <2> QED
      BY <1>1, <1>2, <2>1, <2>2
  <1>6. ((Unit - l) * m00) * u + ((Unit - l) * m01) * u + (l * m10) * v + (l * m11) * v = 0
    <2>1. CASE u = 0 /\ v = 0
      BY <1>1, <1>2, <2>1
    <2>2. CASE u = 0 - l /\ v = Unit - l
      <3>1. m00 = M - m01 /\ m10 = M - m11
        BY <1>1
      <3>2. M \in Int /\ m01 \in Int /\ m11 \in Int /\ l \in Int /\ Unit \in Int
        BY <1>1, <1>2
      <3>3. ((Unit - l) * (M - m01)) * (0 - l) + ((Unit - l) * m01) * (0 - l)
              + (l * (M - m11)) * (Unit - l) + (l * m11) * (Unit - l) = 0
        BY ONLY <3>2
      <3> QED
        BY ONLY <2>2, <3>1, <3>3
    <2> QED
      BY <1>4, <2>1, <2>2
  <1> QED
    BY <1>3, <1>5, <1>6 DEF M, u, v

-----------------------------------------------------------------------------
(* Weighted sums over walks *)

WalkSum(b, n, F) == SumFunction([p \in Walks(b, n) |-> PathWeight(b, n, p) * F[p]])
Known(b, n) == IsBucket(b) /\ n \in Nat /\ n <= b.horizon

LEMMA KnownIs ==
  ASSUME NEW b, NEW n, Known(b, n)
  PROVE  /\ IsBucket(b) /\ n \in Nat /\ n <= b.horizon /\ b.initial \in Bit
         /\ IsFiniteSet(Walks(b, n))
         /\ \A p \in Walks(b, n) : PathWeight(b, n, p) \in Nat /\ PathWeight(b, n, p) \in Int
  <1>1. IsBucket(b) /\ n \in Nat /\ n <= b.horizon
    BY DEF Known
  <1>2. b.initial \in Bit
    BY <1>1, BucketIs
  <1>3. IsFiniteSet(Walks(b, n))
    BY <1>1, <1>2, WalksFinite
  <1>4. \A p \in Walks(b, n) : PathWeight(b, n, p) \in Nat
    BY <1>1, WeightType2
  <1> QED
    BY <1>1, <1>2, <1>3, <1>4

LEMMA WalkSumIs ==
  ASSUME NEW b, NEW n, Known(b, n), NEW D, D = Walks(b, n), NEW F, F \in [D -> Int],
         NEW f, f = [p \in D |-> PathWeight(b, n, p) * F[p]]
  PROVE  /\ IsFiniteSet(D) /\ f \in [D -> Int] /\ WalkSum(b, n, F) = SumFunction(f)
         /\ \A p \in D : f[p] = PathWeight(b, n, p) * F[p] /\ PathWeight(b, n, p) \in Int
  <1>1. IsFiniteSet(D) /\ \A p \in D : PathWeight(b, n, p) \in Int
    BY KnownIs
  <1>2. \A p \in D : PathWeight(b, n, p) * F[p] \in Int
    <2> TAKE p \in D
    <2>1. PathWeight(b, n, p) \in Int /\ F[p] \in Int
      BY <1>1
    <2> QED
      BY <2>1
  <1>3. f \in [D -> Int]
    BY <1>2
  <1>4. WalkSum(b, n, F) = SumFunction(f)
    BY DEF WalkSum
  <1> QED
    BY <1>1, <1>3, <1>4

LEMMA WalkSumType ==
  ASSUME NEW b, NEW n, Known(b, n), NEW F, F \in [Walks(b, n) -> Int]
  PROVE  WalkSum(b, n, F) \in Int
  <1> DEFINE D == Walks(b, n)
             f == [p \in D |-> PathWeight(b, n, p) * F[p]]
  <1>1. D = Walks(b, n) /\ F \in [D -> Int] /\ f = [p \in D |-> PathWeight(b, n, p) * F[p]]
    OBVIOUS
  <1> HIDE DEF D, f
  <1>2. IsFiniteSet(D) /\ f \in [D -> Int] /\ WalkSum(b, n, F) = SumFunction(f)
    BY <1>1, WalkSumIs
  <1> QED
    BY <1>2, SumType

LEMMA WalkLinear ==
  ASSUME NEW b, NEW n, Known(b, n), NEW F, NEW G, NEW c, NEW d, NEW K,
         Combines(Walks(b, n), F, G, c, d, K)
  PROVE  /\ WalkSum(b, n, K) = c * WalkSum(b, n, F) + d * WalkSum(b, n, G)
         /\ WalkSum(b, n, F) \in Int /\ WalkSum(b, n, G) \in Int
  <1> DEFINE D == Walks(b, n)
             w(p) == PathWeight(b, n, p)
             f == [p \in D |-> w(p) * F[p]]
             g == [p \in D |-> w(p) * G[p]]
             k == [p \in D |-> w(p) * K[p]]
  <1>1. /\ F \in [D -> Int] /\ G \in [D -> Int] /\ K \in [D -> Int] /\ c \in Int /\ d \in Int
        /\ \A p \in D : K[p] = c * F[p] + d * G[p]
    BY DEF Combines
  <1>2. /\ D = Walks(b, n) /\ f = [p \in D |-> PathWeight(b, n, p) * F[p]]
        /\ g = [p \in D |-> PathWeight(b, n, p) * G[p]] /\ k = [p \in D |-> PathWeight(b, n, p) * K[p]]
    OBVIOUS
  <1> HIDE DEF D, f, g, k
  <1>3. /\ IsFiniteSet(D) /\ f \in [D -> Int] /\ WalkSum(b, n, F) = SumFunction(f)
        /\ \A p \in D : f[p] = w(p) * F[p] /\ w(p) \in Int
    BY <1>1, <1>2, WalkSumIs
  <1>4. /\ g \in [D -> Int] /\ WalkSum(b, n, G) = SumFunction(g)
        /\ \A p \in D : g[p] = w(p) * G[p]
    BY <1>1, <1>2, WalkSumIs
  <1>5. /\ k \in [D -> Int] /\ WalkSum(b, n, K) = SumFunction(k)
        /\ \A p \in D : k[p] = w(p) * K[p]
    BY <1>1, <1>2, WalkSumIs
  <1>6. ASSUME NEW p \in D PROVE k[p] = c * f[p] + d * g[p]
    <2> DEFINE x == w(p)
    <2>1. x \in Int /\ F[p] \in Int /\ G[p] \in Int /\ c \in Int /\ d \in Int
      BY <1>1, <1>3
    <2>2. k[p] = x * (c * F[p] + d * G[p]) /\ f[p] = x * F[p] /\ g[p] = x * G[p]
      BY <1>1, <1>3, <1>4, <1>5
    <2> HIDE DEF x
    <2>3. x * (c * F[p] + d * G[p]) = c * (x * F[p]) + d * (x * G[p])
      BY ONLY <2>1
    <2> QED
      BY ONLY <2>2, <2>3
  <1>7. SumFunction(k) = c * SumFunction(f) + d * SumFunction(g)
    BY <1>1, <1>3, <1>4, <1>5, <1>6, SumLinear
  <1>8. SumFunction(f) \in Int /\ SumFunction(g) \in Int
    BY <1>3, <1>4, SumType
  <1> QED
    BY <1>3, <1>4, <1>5, <1>7, <1>8

LEMMA WalkSame ==
  ASSUME NEW b, NEW n, NEW F, NEW G, \A p \in Walks(b, n) : F[p] = G[p]
  PROVE  WalkSum(b, n, F) = WalkSum(b, n, G)
  <1> DEFINE f == [p \in Walks(b, n) |-> PathWeight(b, n, p) * F[p]]
             g == [p \in Walks(b, n) |-> PathWeight(b, n, p) * G[p]]
  <1>1. f = g
    OBVIOUS
  <1>2. WalkSum(b, n, F) = SumFunction(f) /\ WalkSum(b, n, G) = SumFunction(g)
    BY DEF WalkSum
  <1> HIDE DEF f, g
  <1> QED
    BY <1>1, <1>2

LEMMA WalkScaled ==
  ASSUME NEW b, NEW n, Known(b, n), NEW F, F \in [Walks(b, n) -> Int], NEW c \in Int,
         NEW K, K \in [Walks(b, n) -> Int], \A p \in Walks(b, n) : K[p] = c * F[p]
  PROVE  WalkSum(b, n, K) = c * WalkSum(b, n, F)
  <1>1. ASSUME NEW p \in Walks(b, n) PROVE K[p] = c * F[p] + 0 * F[p]
    <2>1. F[p] \in Int /\ K[p] = c * F[p]
      OBVIOUS
    <2>2. \A u, v \in Int : u * v = u * v + 0 * v
      OBVIOUS
    <2> QED
      BY <2>1, <2>2
  <1>2. Combines(Walks(b, n), F, F, c, 0, K)
    BY <1>1 DEF Combines
  <1>3. /\ WalkSum(b, n, K) = c * WalkSum(b, n, F) + 0 * WalkSum(b, n, F)
        /\ WalkSum(b, n, F) \in Int
    BY <1>2, WalkLinear
  <1>4. \A u, v \in Int : u * v + 0 * v = u * v
    OBVIOUS
  <1> QED
    BY <1>3, <1>4

LEMMA WalkZero ==
  ASSUME NEW b, NEW n, Known(b, n), NEW F, F \in [Walks(b, n) -> Int],
         \A p \in Walks(b, n) : F[p] = 0 \/ PathWeight(b, n, p) = 0
  PROVE  WalkSum(b, n, F) = 0
  <1> DEFINE D == Walks(b, n)
             f == [p \in D |-> PathWeight(b, n, p) * F[p]]
  <1>1. D = Walks(b, n) /\ F \in [D -> Int] /\ f = [p \in D |-> PathWeight(b, n, p) * F[p]]
    OBVIOUS
  <1>2. \A p \in D : F[p] = 0 \/ PathWeight(b, n, p) = 0
    OBVIOUS
  <1> HIDE DEF D, f
  <1>3. /\ IsFiniteSet(D) /\ f \in [D -> Int] /\ WalkSum(b, n, F) = SumFunction(f)
        /\ \A p \in D : f[p] = PathWeight(b, n, p) * F[p] /\ PathWeight(b, n, p) \in Int
    BY <1>1, WalkSumIs
  <1>4. \A p \in D : f[p] = 0
    <2> TAKE p \in D
    <2>1. F[p] \in Int /\ PathWeight(b, n, p) \in Int
      BY <1>1, <1>3
    <2>2. \A u \in Int : u * 0 = 0 /\ 0 * u = 0
      OBVIOUS
    <2> QED
      BY <1>2, <1>3, <2>1, <2>2
  <1> QED
    BY <1>3, <1>4, SumZero

\* The mean of F over the next step of a walk of n.
Ahead(b, n, F, p, x, y) == Kernel(b, n + 1, p.s[n + 1], x, y) * F[Grow(p, x, y)]
Spread(b, n, F, p) ==
  Ahead(b, n, F, p, 0, 0) + Ahead(b, n, F, p, 0, 1) + Ahead(b, n, F, p, 1, 0) + Ahead(b, n, F, p, 1, 1)

LEMMA AheadType ==
  ASSUME NEW b, NEW n \in Nat, Known(b, n + 1), NEW F, F \in [Walks(b, n + 1) -> Int],
         NEW p \in Walks(b, n), NEW x \in Bit, NEW y \in Bit
  PROVE  /\ Ahead(b, n, F, p, x, y) \in Int /\ F[Grow(p, x, y)] \in Int
         /\ Kernel(b, n + 1, p.s[n + 1], x, y) \in Int
         /\ PathWeight(b, n + 1, Grow(p, x, y)) * F[Grow(p, x, y)]
              = PathWeight(b, n, p) * Ahead(b, n, F, p, x, y)
  <1> DEFINE k == Kernel(b, n + 1, p.s[n + 1], x, y)
             v == F[Grow(p, x, y)]
             w == PathWeight(b, n, p)
  <1>1. IsBucket(b) /\ n + 1 <= b.horizon
    BY DEF Known
  <1>2. n + 1 \in Times(b)
    BY <1>1, BucketIs
  <1>3. p.s[n + 1] \in Bit
    BY WalkFacts
  <1>4. k \in Int
    BY <1>1, <1>2, <1>3, KernelType
  <1>5. v \in Int
    <2>1. Grow(p, x, y) \in Walks(b, n + 1)
      BY GrowFacts
    <2> QED
      BY <2>1
  <1>6. w \in Int /\ PathWeight(b, n + 1, Grow(p, x, y)) = w * k
    BY <1>1, WeightGrow
  <1>7. Ahead(b, n, F, p, x, y) = k * v
    BY DEF Ahead
  <1> HIDE DEF k, v, w
  <1>8. (w * k) * v = w * (k * v) /\ k * v \in Int
    BY ONLY <1>4, <1>5, <1>6
  <1>9. /\ Ahead(b, n, F, p, x, y) \in Int /\ v \in Int /\ k \in Int
        /\ PathWeight(b, n + 1, Grow(p, x, y)) * v = w * Ahead(b, n, F, p, x, y)
    BY <1>4, <1>5, <1>6, <1>7, <1>8
  <1> QED
    BY <1>9 DEF k, v, w

LEMMA WalkStep ==
  ASSUME NEW b, NEW n \in Nat, Known(b, n + 1), NEW F, F \in [Walks(b, n + 1) -> Int],
         NEW G, G \in [Walks(b, n) -> Int], \A p \in Walks(b, n) : G[p] = Spread(b, n, F, p)
  PROVE  WalkSum(b, n + 1, F) = WalkSum(b, n, G)
  <1> DEFINE D == Walks(b, n)
             E == Walks(b, n + 1)
             f == [p \in E |-> PathWeight(b, n + 1, p) * F[p]]
             g == [p \in D |-> PathWeight(b, n, p) * G[p]]
  <1>1. Known(b, n) /\ b.initial \in Bit
    <2>1. IsBucket(b) /\ n + 1 <= b.horizon
      BY DEF Known
    <2> QED
      BY <2>1, BucketIs DEF Known
  <1>2. E = Walks(b, n + 1) /\ F \in [E -> Int] /\ f = [p \in E |-> PathWeight(b, n + 1, p) * F[p]]
    OBVIOUS
  <1>3. D = Walks(b, n) /\ G \in [D -> Int] /\ g = [p \in D |-> PathWeight(b, n, p) * G[p]]
    OBVIOUS
  <1>4. ASSUME NEW p \in D, NEW x \in Bit, NEW y \in Bit
        PROVE  f[Grow(p, x, y)] = PathWeight(b, n, p) * Ahead(b, n, F, p, x, y)
    <2>1. Grow(p, x, y) \in E
      BY GrowFacts
    <2>2. f[Grow(p, x, y)] = PathWeight(b, n + 1, Grow(p, x, y)) * F[Grow(p, x, y)]
      BY <2>1
    <2> HIDE DEF f
    <2> QED
      BY <2>2, AheadType
  <1> HIDE DEF D, E, f, g
  <1>5. /\ IsFiniteSet(E) /\ f \in [E -> Int] /\ WalkSum(b, n + 1, F) = SumFunction(f)
    BY <1>2, WalkSumIs
  <1>6. /\ IsFiniteSet(D) /\ g \in [D -> Int] /\ WalkSum(b, n, G) = SumFunction(g)
        /\ \A p \in D : g[p] = PathWeight(b, n, p) * G[p] /\ PathWeight(b, n, p) \in Int
    BY <1>1, <1>3, WalkSumIs
  <1>7. ASSUME NEW p \in D PROVE g[p] = Grown(f, p)
    <2> DEFINE w == PathWeight(b, n, p)
               a00 == Ahead(b, n, F, p, 0, 0)
               a01 == Ahead(b, n, F, p, 0, 1)
               a10 == Ahead(b, n, F, p, 1, 0)
               a11 == Ahead(b, n, F, p, 1, 1)
    <2>1. p \in Walks(b, n) /\ 0 \in Bit /\ 1 \in Bit
      BY <1>3, BitIs
    <2>2. a00 \in Int /\ a01 \in Int /\ a10 \in Int /\ a11 \in Int
      BY <2>1, AheadType
    <2>3. w \in Int /\ g[p] = w * (a00 + a01 + a10 + a11)
      BY <1>6, <2>1 DEF Spread
    <2>4. Grown(f, p) = w * a00 + w * a01 + w * a10 + w * a11
      BY <1>4, <2>1 DEF Grown
    <2> HIDE DEF w, a00, a01, a10, a11
    <2>5. w * (a00 + a01 + a10 + a11) = w * a00 + w * a01 + w * a10 + w * a11
      BY ONLY <2>2, <2>3
    <2> QED
      BY ONLY <2>3, <2>4, <2>5
  <1>8. SumFunction(f) = SumFunction(g)
    BY <1>1, <1>2, <1>3, <1>5, <1>6, <1>7, SumByGrowth
  <1> QED
    BY <1>5, <1>6, <1>8

\* A value of every walk from length d on, each the mean of the next ones.
Levels2(b, d, q) ==
  /\ \A k \in d..b.horizon : q[k] \in [Walks(b, k) -> Int]
  /\ \A k \in d..b.horizon : k + 1 <= b.horizon =>
       \A p \in Walks(b, k) : q[k][p] = Spread(b, k, q[k + 1], p)

Carried(b, d, q, G, k) == [p \in Walks(b, k) |-> q[k][p] * G[Stem(p, d)]]

LEMMA CarriedStep ==
  ASSUME NEW b, IsBucket(b), NEW d \in Nat, NEW q, Levels2(b, d, q),
         NEW G, G \in [Walks(b, d) -> Int], NEW k \in Nat, d <= k, k + 1 <= b.horizon
  PROVE  /\ Carried(b, d, q, G, k) \in [Walks(b, k) -> Int]
         /\ WalkSum(b, k + 1, Carried(b, d, q, G, k + 1)) = WalkSum(b, k, Carried(b, d, q, G, k))
  <1> DEFINE F == Carried(b, d, q, G, k + 1)
             H == Carried(b, d, q, G, k)
  <1>1. /\ k \in d..b.horizon /\ k + 1 \in d..b.horizon /\ d \in 0..k /\ d \in 0..(k + 1)
        /\ k + 1 \in Nat /\ Known(b, k + 1)
    BY BucketIs DEF Known
  <1>2. /\ q[k] \in [Walks(b, k) -> Int] /\ q[k + 1] \in [Walks(b, k + 1) -> Int]
        /\ \A p \in Walks(b, k) : q[k][p] = Spread(b, k, q[k + 1], p)
    BY <1>1 DEF Levels2
  <1>3. \A p \in Walks(b, k) : Stem(p, d) \in Walks(b, d) /\ G[Stem(p, d)] \in Int
    BY <1>1, StemFacts
  <1>4. \A p \in Walks(b, k + 1) : Stem(p, d) \in Walks(b, d) /\ G[Stem(p, d)] \in Int
    BY <1>1, StemFacts
  <1>5. H \in [Walks(b, k) -> Int] /\ \A p \in Walks(b, k) : H[p] = q[k][p] * G[Stem(p, d)]
    <2>1. ASSUME NEW p \in Walks(b, k) PROVE q[k][p] * G[Stem(p, d)] \in Int
      <3>1. q[k][p] \in Int /\ G[Stem(p, d)] \in Int
        BY <1>2, <1>3
      <3> QED
        BY <3>1
    <2> QED
      BY <2>1 DEF Carried
  <1>6. /\ F \in [Walks(b, k + 1) -> Int]
        /\ \A p \in Walks(b, k + 1) : F[p] = q[k + 1][p] * G[Stem(p, d)]
    <2>1. ASSUME NEW p \in Walks(b, k + 1) PROVE q[k + 1][p] * G[Stem(p, d)] \in Int
      <3>1. q[k + 1][p] \in Int /\ G[Stem(p, d)] \in Int
        BY <1>2, <1>4
      <3> QED
        BY <3>1
    <2> QED
      BY <2>1 DEF Carried
  <1> HIDE DEF F, H
  <1>7. ASSUME NEW p \in Walks(b, k) PROVE H[p] = Spread(b, k, F, p)
    <2> DEFINE g == G[Stem(p, d)]
               a(x, y) == Ahead(b, k, q[k + 1], p, x, y)
    <2>1. \A x, y \in Bit : a(x, y) \in Int
      BY <1>1, <1>2, AheadType
    <2>2. ASSUME NEW x \in Bit, NEW y \in Bit PROVE Ahead(b, k, F, p, x, y) = a(x, y) * g
      <3> DEFINE v == q[k + 1][Grow(p, x, y)]
                 e == Kernel(b, k + 1, p.s[k + 1], x, y)
      <3>1. Grow(p, x, y) \in Walks(b, k + 1) /\ Stem(Grow(p, x, y), d) = Stem(p, d)
        <4>1. Grow(p, x, y) \in Walks(b, k + 1)
          BY ONLY k \in Nat, p \in Walks(b, k), x \in Bit, y \in Bit, GrowFacts
        <4>2. \A z, v2 \in Bit : Stem(Grow(p, z, v2), d) = Stem(p, d)
          BY <1>1, StemFacts
        <4> QED
          BY <4>1, <4>2
      <3>2. F[Grow(p, x, y)] = v * g
        BY <1>6, <3>1
      <3>3. v \in Int /\ e \in Int
        BY <1>1, <1>2, AheadType
      <3>4. g \in Int
        BY <1>3
      <3>5. Ahead(b, k, F, p, x, y) = e * (v * g) /\ a(x, y) = e * v
        BY <3>2 DEF Ahead
      <3> HIDE DEF v, e, g, a
      <3>6. e * (v * g) = (e * v) * g
        BY ONLY <3>3, <3>4
      <3> QED
        BY ONLY <3>5, <3>6
    <2>3. g \in Int
      BY <1>3
    <2>4. 0 \in Bit /\ 1 \in Bit
      BY BitIs
    <2>5. H[p] = (a(0, 0) + a(0, 1) + a(1, 0) + a(1, 1)) * g
      BY <1>2, <1>5 DEF Spread
    <2>6. Spread(b, k, F, p) = a(0, 0) * g + a(0, 1) * g + a(1, 0) * g + a(1, 1) * g
      BY <2>2, <2>4 DEF Spread
    <2>7. a(0, 0) \in Int /\ a(0, 1) \in Int /\ a(1, 0) \in Int /\ a(1, 1) \in Int
      BY <2>1, <2>4
    <2> HIDE DEF a, g
    <2>8. (a(0, 0) + a(0, 1) + a(1, 0) + a(1, 1)) * g = a(0, 0) * g + a(0, 1) * g + a(1, 0) * g + a(1, 1) * g
      BY ONLY <2>3, <2>7
    <2> QED
      BY ONLY <2>5, <2>6, <2>8
  <1>8. WalkSum(b, k + 1, F) = WalkSum(b, k, H)
    BY <1>1, <1>5, <1>6, <1>7, WalkStep
  <1> QED
    BY <1>5, <1>8 DEF F, H

LEMMA Tower ==
  ASSUME NEW b, IsBucket(b), NEW d \in Nat, d <= b.horizon, NEW q, Levels2(b, d, q),
         NEW G, G \in [Walks(b, d) -> Int]
  PROVE  WalkSum(b, b.horizon, Carried(b, d, q, G, b.horizon)) = WalkSum(b, d, Carried(b, d, q, G, d))
  <1> DEFINE m(k) == WalkSum(b, k, Carried(b, d, q, G, k))
             X == {i \in Nat : d + i <= b.horizon => m(d + i) = m(d)}
  <1>1. 0 \in X
    BY BucketIs
  <1>2. ASSUME NEW i \in Nat, i \in X PROVE i + 1 \in X
    <2> SUFFICES ASSUME d + (i + 1) <= b.horizon PROVE m(d + (i + 1)) = m(d)
      OBVIOUS
    <2>1. d + i \in Nat /\ d <= d + i /\ (d + i) + 1 <= b.horizon /\ d + (i + 1) = (d + i) + 1
          /\ d + i <= b.horizon
      BY BucketIs
    <2>2. m(d + i) = m(d)
      BY <1>2, <2>1
    <2>3. m((d + i) + 1) = m(d + i)
      BY <2>1, CarriedStep
    <2> HIDE DEF m
    <2> QED
      BY <2>1, <2>2, <2>3
  <1> HIDE DEF X, m
  <1>3. Nat \subseteq X
    BY <1>1, <1>2, NatSetInduction
  <1>4. b.horizon - d \in Nat /\ d + (b.horizon - d) = b.horizon /\ b.horizon <= b.horizon
    BY BucketIs
  <1>5. m(b.horizon) = m(d)
    BY <1>3, <1>4 DEF X
  <1> QED
    BY <1>5 DEF m

LEMMA LevelsFrom ==
  ASSUME NEW b, NEW d \in Nat, NEW q, Levels2(b, 0, q) PROVE Levels2(b, d, q)
  <1>1. \A k \in d..b.horizon : k \in 0..b.horizon
    OBVIOUS
  <1> QED
    BY <1>1 DEF Levels2

LEMMA ScaleFacts ==
  ASSUME NEW b, IsBucket(b)
  PROVE  /\ PathScale(b, 0) = 1 /\ \A n \in Nat : PathScale(b, n) \in Nat \ {0}
         /\ \A n \in Nat : PathScale(b, n + 1) = (Unit * MoveUnit(b)) * PathScale(b, n)
         /\ Unit * MoveUnit(b) \in Nat \ {0}
  <1>1. Unit \in Nat \ {0} /\ MoveUnit(b) \in Nat \ {0}
    BY UnitAssumption DEF MoveUnit
  <1> DEFINE u == Unit * MoveUnit(b)
  <1>2. u \in Nat \ {0} /\ u \in Int
    BY <1>1
  <1> HIDE DEF u
  <1>3. Power(u, 0) = 1 /\ \A n \in Nat : Power(u, n) \in Nat \ {0} /\ Power(u, n + 1) = u * Power(u, n)
    BY <1>2, PowerZero, PowerPositive, PowerNext
  <1> QED
    BY <1>2, <1>3 DEF u, PathScale

\* The mass of what can follow a walk.
UnitLevels(b) == [k \in 0..b.horizon |-> [p \in Walks(b, k) |-> PathScale(b, b.horizon - k)]]

LEMMA UnitLevelsAre ==
  ASSUME NEW b, IsBucket(b) PROVE Levels2(b, 0, UnitLevels(b))
  <1> DEFINE q == UnitLevels(b)
  <1>1. \A k \in 0..b.horizon : q[k] = [p \in Walks(b, k) |-> PathScale(b, b.horizon - k)]
    BY DEF UnitLevels
  <1>2. \A k \in 0..b.horizon : PathScale(b, b.horizon - k) \in Int
    <2>1. \A k \in 0..b.horizon : b.horizon - k \in Nat
      BY BucketIs
    <2>2. \A n \in Nat : PathScale(b, n) \in Int
      BY ScaleFacts
    <2> QED
      BY <2>1, <2>2
  <1> HIDE DEF q
  <1>3. ASSUME NEW k \in 0..b.horizon, k + 1 <= b.horizon, NEW p \in Walks(b, k)
        PROVE  q[k][p] = Spread(b, k, q[k + 1], p)
    <2> DEFINE u == PathScale(b, b.horizon - (k + 1))
               e(x, y) == Kernel(b, k + 1, p.s[k + 1], x, y)
    <2>1. k \in Nat /\ k + 1 \in 0..b.horizon /\ k + 1 \in Times(b)
      BY <1>3, BucketIs
    <2>2. \A x, y \in Bit : q[k + 1][Grow(p, x, y)] = u
      <3>1. \A x, y \in Bit : Grow(p, x, y) \in Walks(b, k + 1)
        BY <2>1, GrowFacts
      <3>2. \A r \in Walks(b, k + 1) : q[k + 1][r] = u
        BY <1>1, <2>1
      <3> QED
        BY <3>1, <3>2
    <2>3. p.s[k + 1] \in Bit
      BY <2>1, WalkFacts
    <2>4. \A x, y \in Bit : e(x, y) \in Int
      BY <2>1, <2>3, KernelType
    <2>5. 1 \in Logit /\ 0 \in Bit /\ 1 \in Bit
      BY BitIs DEF Logit
    <2>6. e(0, 0) + e(0, 1) + e(1, 0) + e(1, 1) = Unit * MoveUnit(b)
      BY <2>1, <2>3, <2>5, KernelSums
    <2>7. Spread(b, k, q[k + 1], p) = e(0, 0) * u + e(0, 1) * u + e(1, 0) * u + e(1, 1) * u
      BY <2>2, <2>5 DEF Spread, Ahead
    <2>8. e(0, 0) \in Int /\ e(0, 1) \in Int /\ e(1, 0) \in Int /\ e(1, 1) \in Int /\ u \in Int
      BY <1>2, <2>1, <2>4, <2>5
    <2>9. q[k][p] = (Unit * MoveUnit(b)) * u
      <3>1. b.horizon - (k + 1) \in Nat /\ (b.horizon - (k + 1)) + 1 = b.horizon - k
        BY <1>3, <2>1, BucketIs
      <3>2. PathScale(b, b.horizon - k) = (Unit * MoveUnit(b)) * u
        BY <3>1, ScaleFacts
      <3> QED
        BY <1>1, <3>2
    <2> HIDE DEF e, u
    <2>10. (e(0, 0) + e(0, 1) + e(1, 0) + e(1, 1)) * u = e(0, 0) * u + e(0, 1) * u + e(1, 0) * u + e(1, 1) * u
      BY ONLY <2>8
    <2> QED
      BY <2>6, <2>7, <2>9, <2>10
  <1>4. \A k \in 0..b.horizon : q[k] \in [Walks(b, k) -> Int]
    BY <1>1, <1>2
  <1> QED
    BY <1>3, <1>4 DEF Levels2, q

LEMMA MassAhead ==
  ASSUME NEW b, IsBucket(b), NEW d \in Nat, d <= b.horizon, NEW G, G \in [Walks(b, d) -> Int],
         NEW F, F \in [Walks(b, b.horizon) -> Int], \A p \in Walks(b, b.horizon) : F[p] = G[Stem(p, d)]
  PROVE  WalkSum(b, b.horizon, F) = PathScale(b, b.horizon - d) * WalkSum(b, d, G)
  <1> DEFINE h == b.horizon
             q == UnitLevels(b)
             H == Carried(b, d, q, G, h)
             E == Carried(b, d, q, G, d)
             u == PathScale(b, h - d)
  <1>1. Levels2(b, d, q)
    BY UnitLevelsAre, LevelsFrom
  <1>2. h \in Nat /\ h \in 0..h /\ d \in 0..h /\ d \in 0..d /\ h - h = 0 /\ h - d \in Nat
    BY BucketIs
  <1>3. \A k \in 0..h : \A p \in Walks(b, k) : q[k][p] = PathScale(b, h - k)
    BY DEF UnitLevels
  <1>4. u \in Int /\ PathScale(b, 0) = 1
    BY <1>2, ScaleFacts
  <1> HIDE DEF q
  <1>5. ASSUME NEW p \in Walks(b, h) PROVE H[p] = F[p]
    <2>1. H[p] = q[h][p] * G[Stem(p, d)]
      BY DEF Carried
    <2>2. q[h][p] = 1
      BY <1>2, <1>3, <1>4
    <2>3. F[p] = G[Stem(p, d)] /\ F[p] \in Int
      OBVIOUS
    <2>4. \A v \in Int : 1 * v = v
      OBVIOUS
    <2> QED
      BY <2>1, <2>2, <2>3, <2>4
  <1>6. ASSUME NEW c \in Walks(b, d) PROVE E[c] = u * G[c] /\ u * G[c] \in Int
    <2>1. E[c] = q[d][c] * G[Stem(c, d)]
      BY DEF Carried
    <2>2. q[d][c] = u
      BY <1>2, <1>3
    <2>3. Stem(c, d) = c
      BY <1>2, StemFacts
    <2>4. G[c] \in Int
      OBVIOUS
    <2> QED
      BY <1>4, <2>1, <2>2, <2>3, <2>4
  <1>7. E \in [Walks(b, d) -> Int]
    BY <1>6 DEF Carried
  <1>8. WalkSum(b, h, H) = WalkSum(b, d, E)
    BY <1>1, Tower
  <1> HIDE DEF H, E, u
  <1>9. WalkSum(b, h, H) = WalkSum(b, h, F)
    BY <1>5, WalkSame
  <1>10. Known(b, d)
    BY DEF Known
  <1>11. WalkSum(b, d, E) = u * WalkSum(b, d, G)
    BY <1>4, <1>6, <1>7, <1>10, WalkScaled
  <1> QED
    BY <1>8, <1>9, <1>11 DEF u

LEMMA AtRoot ==
  ASSUME NEW b, b.initial \in Bit, NEW G, G \in [Walks(b, 0) -> Int]
  PROVE  \E r : Walks(b, 0) = {r} /\ r.s[1] = b.initial /\ WalkSum(b, 0, G) = G[r]
  <1> DEFINE g == [r \in Walks(b, 0) |-> PathWeight(b, 0, r) * G[r]]
  <1>1. PICK r : Walks(b, 0) = {r} /\ r.s[1] = b.initial
    BY OneWalk
  <1>2. WalkSum(b, 0, G) = SumFunction(g)
    BY DEF WalkSum
  <1>3. g[r] = G[r] /\ g \in [{r} -> Int]
    <2>1. \A s \in {r} : g[s] = 1 * G[s] /\ G[s] \in Int
      BY <1>1, NoWeight
    <2>2. \A c \in Int : 1 * c = c
      OBVIOUS
    <2>3. g = [s \in {r} |-> g[s]]
      BY <1>1
    <2> HIDE DEF g
    <2> QED
      BY <2>1, <2>2, <2>3
  <1> HIDE DEF g
  <1>4. SumFunction(g) = g[r]
    <2>1. IsFiniteSet({r}) /\ r \in {r} /\ \A x \in {r} \ {r} : g[x] = 0
      BY FS_Singleton
    <2> QED
      BY <1>3, <2>1, SumSingle
  <1> QED
    BY <1>1, <1>2, <1>3, <1>4

LEMMA MassOfWalks ==
  ASSUME NEW b, IsBucket(b), NEW c \in Int,
         NEW F, F \in [Walks(b, b.horizon) -> Int], \A p \in Walks(b, b.horizon) : F[p] = c
  PROVE  WalkSum(b, b.horizon, F) = PathScale(b, b.horizon) * c
  <1> DEFINE G == [r \in Walks(b, 0) |-> c]
  <1>1. b.horizon \in Nat /\ 0 \in 0..b.horizon /\ b.horizon - 0 = b.horizon /\ 0 <= b.horizon
        /\ b.initial \in Bit
    BY BucketIs
  <1>2. G \in [Walks(b, 0) -> Int]
    OBVIOUS
  <1>3. \A p \in Walks(b, b.horizon) : F[p] = G[Stem(p, 0)]
    <2>1. \A p \in Walks(b, b.horizon) : Stem(p, 0) \in Walks(b, 0)
      BY <1>1, StemFacts
    <2> QED
      BY <2>1
  <1>4. \A r : Walks(b, 0) = {r} => G[r] = c
    OBVIOUS
  <1> HIDE DEF G
  <1>5. WalkSum(b, 0, G) = c
    BY <1>1, <1>2, <1>4, AtRoot
  <1>6. WalkSum(b, b.horizon, F) = PathScale(b, b.horizon - 0) * WalkSum(b, 0, G)
    BY <1>1, <1>2, <1>3, MassAhead
  <1> QED
    BY <1>1, <1>5, <1>6

\* The score of a walk, with what can follow: no decision has a mean of its own.
ScoreLevels(b, j) ==
  [k \in 0..b.horizon |->
     [p \in Walks(b, k) |-> PathScale(b, b.horizon - k) * PathScore(b, k, p, j)]]

LEMMA ScoreType ==
  ASSUME NEW b, IsBucket(b), NEW n \in Nat, NEW p \in Walks(b, n), NEW j \in Logit
  PROVE  PathScore(b, n, p, j) \in Int
  BY ScoreGrow, BitIs

LEMMA ScoreLevelsAre ==
  ASSUME NEW b, IsBucket(b), NEW j \in Logit PROVE Levels2(b, 0, ScoreLevels(b, j))
  <1> DEFINE q == ScoreLevels(b, j)
  <1>1. \A k \in 0..b.horizon :
          q[k] = [p \in Walks(b, k) |-> PathScale(b, b.horizon - k) * PathScore(b, k, p, j)]
    BY DEF ScoreLevels
  <1>2. \A k \in 0..b.horizon : PathScale(b, b.horizon - k) \in Int
    <2>1. \A k \in 0..b.horizon : b.horizon - k \in Nat
      BY BucketIs
    <2>2. \A n \in Nat : PathScale(b, n) \in Int
      BY ScaleFacts
    <2> QED
      BY <2>1, <2>2
  <1> HIDE DEF q
  <1>3. ASSUME NEW k \in 0..b.horizon, k + 1 <= b.horizon, NEW p \in Walks(b, k)
        PROVE  q[k][p] = Spread(b, k, q[k + 1], p)
    <2> DEFINE u == PathScale(b, b.horizon - (k + 1))
               e(x, y) == Kernel(b, k + 1, p.s[k + 1], x, y)
               S == PathScore(b, k, p, j)
               T(x) == Tally(b, k + 1, p.s[k + 1], x, j)
    <2>1. k \in Nat /\ k + 1 \in 0..b.horizon /\ k + 1 \in Times(b)
      BY <1>3, BucketIs
    <2>2. \A x, y \in Bit : q[k + 1][Grow(p, x, y)] = u * (S + T(x))
      <3>1. \A x, y \in Bit : Grow(p, x, y) \in Walks(b, k + 1)
        BY <2>1, GrowFacts
      <3>2. \A r \in Walks(b, k + 1) : q[k + 1][r] = u * PathScore(b, k + 1, r, j)
        BY <1>1, <2>1
      <3>3. \A x, y \in Bit : PathScore(b, k + 1, Grow(p, x, y), j) = S + T(x)
        BY <2>1, ScoreGrow
      <3> QED
        BY <3>1, <3>2, <3>3
    <2>3. p.s[k + 1] \in Bit
      BY <2>1, WalkFacts
    <2>4. \A x, y \in Bit : e(x, y) \in Int
      BY <2>1, <2>3, KernelType
    <2>5. 0 \in Bit /\ 1 \in Bit
      BY BitIs
    <2>6. /\ e(0, 0) + e(0, 1) + e(1, 0) + e(1, 1) = Unit * MoveUnit(b)
          /\ e(0, 0) * T(0) + e(0, 1) * T(0) + e(1, 0) * T(1) + e(1, 1) * T(1) = 0
      BY <2>1, <2>3, KernelSums
    <2>7. Spread(b, k, q[k + 1], p) = e(0, 0) * (u * (S + T(0))) + e(0, 1) * (u * (S + T(0)))
                                      + e(1, 0) * (u * (S + T(1))) + e(1, 1) * (u * (S + T(1)))
      BY <2>2, <2>5 DEF Spread, Ahead
    <2>8. /\ e(0, 0) \in Int /\ e(0, 1) \in Int /\ e(1, 0) \in Int /\ e(1, 1) \in Int /\ u \in Int
          /\ S \in Int /\ T(0) \in Int /\ T(1) \in Int
      BY <1>2, <2>1, <2>4, <2>5, ScoreType, TallyType
    <2>9. q[k][p] = ((Unit * MoveUnit(b)) * u) * S
      <3>1. b.horizon - (k + 1) \in Nat /\ (b.horizon - (k + 1)) + 1 = b.horizon - k
        BY <1>3, <2>1, BucketIs
      <3>2. PathScale(b, b.horizon - k) = (Unit * MoveUnit(b)) * u
        BY <3>1, ScaleFacts
      <3>3. q[k][p] = PathScale(b, b.horizon - k) * S
        BY <1>1
      <3> QED
        BY <3>2, <3>3
    <2> HIDE DEF e, u, S, T
    <2>10. e(0, 0) * (u * (S + T(0))) + e(0, 1) * (u * (S + T(0)))
             + e(1, 0) * (u * (S + T(1))) + e(1, 1) * (u * (S + T(1)))
             = ((e(0, 0) + e(0, 1) + e(1, 0) + e(1, 1)) * u) * S
               + u * (e(0, 0) * T(0) + e(0, 1) * T(0) + e(1, 0) * T(1) + e(1, 1) * T(1))
      BY ONLY <2>8
    <2>11. \A v \in Int : v + u * 0 = v
      BY <2>8
    <2>12. ((e(0, 0) + e(0, 1) + e(1, 0) + e(1, 1)) * u) * S \in Int
      BY <2>8
    <2> QED
      BY <2>6, <2>7, <2>9, <2>10, <2>11, <2>12
  <1>4. \A k \in 0..b.horizon : q[k] \in [Walks(b, k) -> Int]
    <2> SUFFICES ASSUME NEW k \in 0..b.horizon, NEW p \in Walks(b, k)
                 PROVE  PathScale(b, b.horizon - k) * PathScore(b, k, p, j) \in Int
      BY <1>1
    <2>1. PathScale(b, b.horizon - k) \in Int /\ PathScore(b, k, p, j) \in Int
      BY <1>2, ScoreType, BucketIs
    <2> QED
      BY <2>1
  <1> QED
    BY <1>3, <1>4 DEF Levels2, q

LEMMA MeanScore ==
  ASSUME NEW b, IsBucket(b), NEW j \in Logit,
         NEW F, F = [p \in Walks(b, b.horizon) |-> PathScore(b, b.horizon, p, j)]
  PROVE  F \in [Walks(b, b.horizon) -> Int] /\ WalkSum(b, b.horizon, F) = 0
  <1> DEFINE h == b.horizon
             q == ScoreLevels(b, j)
             G == [r \in Walks(b, 0) |-> 1]
             H == Carried(b, 0, q, G, h)
             E == Carried(b, 0, q, G, 0)
  <1>1. Levels2(b, 0, q)
    BY ScoreLevelsAre
  <1>2. h \in Nat /\ h \in 0..h /\ 0 \in 0..h /\ 0 \in 0..0 /\ h - h = 0 /\ 0 <= h
    BY BucketIs
  <1>3. \A k \in 0..h : \A p \in Walks(b, k) : q[k][p] = PathScale(b, h - k) * PathScore(b, k, p, j)
    BY DEF ScoreLevels
  <1>4. \A p \in Walks(b, h) : F[p] = PathScore(b, h, p, j) /\ PathScore(b, h, p, j) \in Int
    BY <1>2, ScoreType
  <1>5. F \in [Walks(b, h) -> Int]
    BY <1>4
  <1>6. PathScale(b, 0) = 1 /\ PathScale(b, h - 0) \in Int
    BY <1>2, ScaleFacts
  <1> HIDE DEF q, h
  <1>7. ASSUME NEW p \in Walks(b, h) PROVE H[p] = F[p]
    <2>1. H[p] = q[h][p] * G[Stem(p, 0)]
      BY DEF Carried
    <2>2. q[h][p] = 1 * PathScore(b, h, p, j)
      BY <1>2, <1>3, <1>6
    <2>3. G[Stem(p, 0)] = 1
      BY <1>2, StemFacts
    <2>4. \A v \in Int : (1 * v) * 1 = v
      OBVIOUS
    <2> HIDE DEF G, H
    <2> QED
      BY <1>4, <2>1, <2>2, <2>3, <2>4
  <1>8. ASSUME NEW c \in Walks(b, 0) PROVE E[c] = 0
    <2>1. E[c] = q[0][c] * G[Stem(c, 0)]
      BY DEF Carried
    <2>2. q[0][c] = PathScale(b, h - 0) * 0
      BY <1>2, <1>3, NoScore
    <2>3. G[Stem(c, 0)] = 1
      BY <1>2, StemFacts
    <2>4. \A v \in Int : (v * 0) * 1 = 0
      OBVIOUS
    <2> HIDE DEF G, E
    <2> QED
      BY <1>6, <2>1, <2>2, <2>3, <2>4
  <1>9. E \in [Walks(b, 0) -> Int]
    BY <1>8 DEF Carried
  <1>10. WalkSum(b, h, H) = WalkSum(b, 0, E)
    <2>1. G \in [Walks(b, 0) -> Int]
      OBVIOUS
    <2> HIDE DEF G
    <2> QED
      BY <1>1, <1>2, <2>1, Tower DEF h
  <1> HIDE DEF H, E, G
  <1>11. WalkSum(b, h, H) = WalkSum(b, h, F)
    BY <1>7, WalkSame
  <1>12. Known(b, 0)
    BY <1>2 DEF Known, h
  <1>13. WalkSum(b, 0, E) = 0
    BY <1>8, <1>9, <1>12, WalkZero
  <1> QED
    BY <1>5, <1>10, <1>11, <1>13 DEF h

-----------------------------------------------------------------------------
(* The values of a general bucket *)

\* What an action leads to, by the state after it.
After(b, next, t, s, a, n) == IF t = b.horizon THEN b.terminal[<<s, a, n>>] ELSE next[n]

LEMMA ActionValueIs ==
  ASSUME NEW b, IsBucket(b), NEW next, next \in [Bit -> Int], NEW t \in Times(b),
         NEW s \in Bit, NEW a \in Bit
  PROVE  /\ \A n \in Bit : After(b, next, t, s, a, n) \in Int
         /\ ActionValue(b, next, t, s, a)
              = Moves(b, t, s, a, 0) * After(b, next, t, s, a, 0)
                + Moves(b, t, s, a, 1) * After(b, next, t, s, a, 1)
         /\ ActionValue(b, next, t, s, a) \in Int
  <1> DEFINE f == [n \in Bit |-> Moves(b, t, s, a, n) * After(b, next, t, s, a, n)]
  <1>1. \A n \in Bit : After(b, next, t, s, a, n) \in Int
    <2>1. \A n \in Bit : next[n] \in Int /\ b.terminal[<<s, a, n>>] \in Int
      BY BucketIs
    <2> QED
      BY <2>1 DEF After
  <1>2. \A n \in Bit : Moves(b, t, s, a, n) \in Int
    BY MovesFacts
  <1>3. \A n \in Bit : Moves(b, t, s, a, n) * After(b, next, t, s, a, n) \in Int
    <2> TAKE n \in Bit
    <2>1. Moves(b, t, s, a, n) \in Int /\ After(b, next, t, s, a, n) \in Int
      BY <1>1, <1>2
    <2> QED
      BY <2>1
  <1>4. /\ f \in [Bit -> Int] /\ f[0] = Moves(b, t, s, a, 0) * After(b, next, t, s, a, 0)
        /\ f[1] = Moves(b, t, s, a, 1) * After(b, next, t, s, a, 1) /\ f[0] \in Int /\ f[1] \in Int
    BY <1>3, BitIs
  <1>5. ActionValue(b, next, t, s, a) = SumFunction(f)
    BY DEF ActionValue, After
  <1> HIDE DEF f
  <1>6. SumFunction(f) = f[0] + f[1]
    BY <1>4, SumBits
  <1>7. ActionValue(b, next, t, s, a) \in Int
    BY <1>4, <1>5, <1>6
  <1> QED
    BY <1>1, <1>4, <1>5, <1>6, <1>7

ValueAt(b, next, t) ==
  IF t > b.horizon THEN [s \in Bit |-> 0]
  ELSE [s \in Bit |-> SumFunction([a \in Bit |-> Takes(b, t, s, a) * ActionValue(b, next, t, s, a)])]
ValueStep(b, v) == [t \in 1..(b.horizon + 1) |-> ValueAt(b, v[t + 1], t)]

LEMMA ValueAtIs ==
  ASSUME NEW b, IsBucket(b), NEW next, next \in [Bit -> Int], NEW t \in Times(b)
  PROVE  /\ ValueAt(b, next, t) \in [Bit -> Int]
         /\ \A s \in Bit : ValueAt(b, next, t)[s]
              = Takes(b, t, s, 0) * ActionValue(b, next, t, s, 0)
                + Takes(b, t, s, 1) * ActionValue(b, next, t, s, 1)
  <1> DEFINE f(s) == [a \in Bit |-> Takes(b, t, s, a) * ActionValue(b, next, t, s, a)]
  <1>1. ~(t > b.horizon)
    BY BucketIs
  <1>2. ValueAt(b, next, t) = [s \in Bit |-> SumFunction(f(s))]
    BY <1>1 DEF ValueAt
  <1>3. ASSUME NEW s \in Bit
        PROVE  /\ SumFunction(f(s)) = Takes(b, t, s, 0) * ActionValue(b, next, t, s, 0)
                                      + Takes(b, t, s, 1) * ActionValue(b, next, t, s, 1)
               /\ SumFunction(f(s)) \in Int
    <2> DEFINE g == f(s)
    <2>1. \A a \in Bit : Takes(b, t, s, a) * ActionValue(b, next, t, s, a) \in Int
      <3> TAKE a \in Bit
      <3>1. Takes(b, t, s, a) \in Int /\ ActionValue(b, next, t, s, a) \in Int
        BY TakesFacts, ActionValueIs
      <3> QED
        BY <3>1
    <2>2. /\ g \in [Bit -> Int] /\ g[0] = Takes(b, t, s, 0) * ActionValue(b, next, t, s, 0)
          /\ g[1] = Takes(b, t, s, 1) * ActionValue(b, next, t, s, 1) /\ g[0] \in Int /\ g[1] \in Int
      BY <2>1, BitIs
    <2>3. g = f(s)
      OBVIOUS
    <2> HIDE DEF g, f
    <2>4. SumFunction(g) = g[0] + g[1]
      BY <2>2, SumBits
    <2> QED
      BY <2>2, <2>3, <2>4
  <1> HIDE DEF f
  <1> QED
    BY <1>2, <1>3

IsPolicy(b, m, v) ==
  /\ v \in [m..(b.horizon + 1) -> [Bit -> Int]]
  /\ \A t \in m..(b.horizon + 1) : v[t] = ValueAt(b, v[t + 1], t)

LEMMA PolicyExists ==
  ASSUME NEW b, IsBucket(b)
  PROVE  \A i \in Nat : i <= b.horizon => \E v : IsPolicy(b, (b.horizon + 1) - i, v)
  <1> DEFINE h == b.horizon
             X == {i \in Nat : i <= h => \E v : IsPolicy(b, (h + 1) - i, v)}
  <1>0. h \in Nat /\ Times(b) = 1..h
    BY BucketIs
  <1>1. 0 \in X
    <2> DEFINE zero == [s \in Bit |-> 0]
               v == [t \in (h + 1)..(h + 1) |-> zero]
    <2>1. (h + 1) - 0 = h + 1 /\ (h + 1)..(h + 1) = {h + 1} /\ h + 1 > h
      BY <1>0
    <2>2. zero \in [Bit -> Int]
      OBVIOUS
    <2>3. ValueAt(b, v[(h + 1) + 1], h + 1) = zero
      BY <2>1 DEF ValueAt
    <2> HIDE DEF zero
    <2>4. v \in [(h + 1)..(h + 1) -> [Bit -> Int]] /\ v[h + 1] = zero
      BY <2>1, <2>2
    <2> HIDE DEF v
    <2>5. IsPolicy(b, h + 1, v)
      BY <2>1, <2>3, <2>4 DEF IsPolicy
    <2> QED
      BY <2>1, <2>5
  <1>2. ASSUME NEW i \in Nat, i \in X PROVE i + 1 \in X
    <2> SUFFICES ASSUME i + 1 <= h PROVE \E v : IsPolicy(b, (h + 1) - (i + 1), v)
      OBVIOUS
    <2> DEFINE m == h - i
    <2>1. m \in 1..h /\ (h + 1) - i = m + 1 /\ (h + 1) - (i + 1) = m /\ i <= h
      BY <1>0
    <2>2. PICK v : IsPolicy(b, m + 1, v)
      BY <1>2, <2>1
    <2> HIDE DEF m
    <2> DEFINE low == ValueAt(b, v[m + 1], m)
               u == [t \in m..(h + 1) |-> IF t = m THEN low ELSE v[t]]
    <2>3. /\ v \in [(m + 1)..(h + 1) -> [Bit -> Int]]
          /\ \A t \in (m + 1)..(h + 1) : v[t] = ValueAt(b, v[t + 1], t)
      BY <2>2 DEF IsPolicy
    <2>4. m + 1 \in (m + 1)..(h + 1) /\ m \in Times(b)
      BY <1>0, <2>1
    <2>5. low \in [Bit -> Int]
      BY <2>3, <2>4, ValueAtIs
    <2> HIDE DEF low
    <2>6. \A t \in m..(h + 1) : t = m \/ t \in (m + 1)..(h + 1)
      BY <1>0, <2>1
    <2>7. u \in [m..(h + 1) -> [Bit -> Int]]
      BY <2>3, <2>5, <2>6
    <2>8. u[m] = low /\ u[m + 1] = v[m + 1]
      BY <1>0, <2>1
    <2>9. \A t \in (m + 1)..(h + 1) : u[t] = v[t]
      BY <1>0, <2>1
    <2> HIDE DEF u
    <2>10. ASSUME NEW t \in (m + 1)..(h + 1) PROVE u[t] = ValueAt(b, u[t + 1], t)
      <3>1. CASE t = h + 1
        <4>1. t > h
          BY <1>0, <3>1
        <4>2. \A x, y : ValueAt(b, x, t) = ValueAt(b, y, t)
          BY <4>1 DEF ValueAt
        <4> QED
          BY <2>3, <2>9, <4>2
      <3>2. CASE t # h + 1
        <4>1. t + 1 \in (m + 1)..(h + 1)
          BY <1>0, <2>1, <3>2
        <4> QED
          BY <2>3, <2>9, <4>1
      <3> QED
        BY <3>1, <3>2
    <2>11. IsPolicy(b, m, u)
      BY <2>6, <2>7, <2>8, <2>10 DEF IsPolicy, low
    <2> QED
      BY <2>1, <2>11
  <1> HIDE DEF X
  <1>3. Nat \subseteq X
    BY <1>1, <1>2, NatSetInduction
  <1> QED
    BY <1>3 DEF X

LEMMA PolicyValueIs == ASSUME NEW b, IsBucket(b) PROVE IsPolicy(b, 1, PolicyValue(b))
  <1> DEFINE h == b.horizon
             D == 1..(h + 1)
             V == PolicyValue(b)
  <1>0. h \in Nat \ {0} /\ Times(b) = 1..h /\ (h + 1) - h = 1 /\ h <= h
    BY BucketIs
  <1>1. PICK v : IsPolicy(b, 1, v)
    BY <1>0, PolicyExists
  <1>2. v = ValueStep(b, v)
    BY <1>1 DEF IsPolicy, ValueStep
  <1>3. V = CHOOSE u : u = ValueStep(b, u)
    BY DEF PolicyValue, ValueStep, ValueAt
  <1> HIDE DEF V
  <1>4. V = ValueStep(b, V)
    BY <1>2, <1>3
  <1>5. DOMAIN V = D /\ V = [t \in D |-> V[t]] /\ \A t \in D : V[t] = ValueAt(b, V[t + 1], t)
    BY <1>4 DEF ValueStep
  <1> DEFINE X == {i \in Nat : i <= h => V[(h + 1) - i] \in [Bit -> Int]}
  <1>6. 0 \in X
    <2>1. (h + 1) - 0 = h + 1 /\ h + 1 > h /\ h + 1 \in D
      BY <1>0
    <2>2. V[h + 1] = [s \in Bit |-> 0]
      BY <1>5, <2>1 DEF ValueAt
    <2>3. V[h + 1] \in [Bit -> Int]
      BY <2>2
    <2> QED
      BY <2>1, <2>3
  <1>7. ASSUME NEW i \in Nat, i \in X PROVE i + 1 \in X
    <2> SUFFICES ASSUME i + 1 <= h PROVE V[(h + 1) - (i + 1)] \in [Bit -> Int]
      OBVIOUS
    <2> DEFINE t == (h + 1) - (i + 1)
    <2>1. t \in Times(b) /\ t \in D /\ t + 1 = (h + 1) - i /\ i <= h
      BY <1>0
    <2>2. V[t + 1] \in [Bit -> Int]
      BY <1>7, <2>1
    <2> HIDE DEF t
    <2>3. V[t] \in [Bit -> Int]
      <3>1. V[t] = ValueAt(b, V[t + 1], t)
        BY <1>5, <2>1
      <3>2. ValueAt(b, V[t + 1], t) \in [Bit -> Int]
        BY <2>1, <2>2, ValueAtIs
      <3> QED
        BY <3>1, <3>2
    <2> QED
      BY <2>3 DEF t
  <1> HIDE DEF X
  <1>8. Nat \subseteq X
    BY <1>6, <1>7, NatSetInduction
  <1>9. ASSUME NEW t \in D PROVE V[t] \in [Bit -> Int]
    <2>1. (h + 1) - t \in Nat /\ (h + 1) - t <= h /\ (h + 1) - ((h + 1) - t) = t
      BY <1>0
    <2> QED
      BY <1>8, <2>1 DEF X
  <1>10. V \in [D -> [Bit -> Int]]
    BY <1>5, <1>9
  <1> QED
    BY <1>5, <1>10 DEF IsPolicy, V

\* The probability of the next state.
Into(b, t, s, n) == Kernel(b, t, s, 0, n) + Kernel(b, t, s, 1, n)
Start(start) == [s \in Bit |-> IF s = start THEN 1 ELSE 0]
Onward(b, prev, t) ==
  [n \in Bit |-> SumFunction([sa \in Bit \X Bit |-> prev[sa[1]] * Takes(b, t - 1, sa[1], sa[2])
                                                      * Moves(b, t - 1, sa[1], sa[2], n)])]
ReachStep(b, d, start, r) ==
  [t \in d..b.horizon |-> IF t = d THEN Start(start) ELSE Onward(b, r[t - 1], t)]

LEMMA OnwardIs ==
  ASSUME NEW b, IsBucket(b), NEW t \in Int, t - 1 \in Times(b), NEW prev, prev \in [Bit -> Int]
  PROVE  /\ Onward(b, prev, t) \in [Bit -> Int]
         /\ \A n \in Bit : /\ Into(b, t - 1, 0, n) \in Int /\ Into(b, t - 1, 1, n) \in Int
                           /\ Onward(b, prev, t)[n]
                                = prev[0] * Into(b, t - 1, 0, n) + prev[1] * Into(b, t - 1, 1, n)
  <1> DEFINE f(n) == [sa \in Bit \X Bit |-> prev[sa[1]] * Takes(b, t - 1, sa[1], sa[2])
                                              * Moves(b, t - 1, sa[1], sa[2], n)]
             k(s, a, n) == Kernel(b, t - 1, s, a, n)
  <1>1. Onward(b, prev, t) = [n \in Bit |-> SumFunction(f(n))]
    BY DEF Onward
  <1>2. ASSUME NEW n \in Bit
        PROVE  /\ SumFunction(f(n)) \in Int
               /\ Into(b, t - 1, 0, n) \in Int /\ Into(b, t - 1, 1, n) \in Int
               /\ SumFunction(f(n)) = prev[0] * Into(b, t - 1, 0, n) + prev[1] * Into(b, t - 1, 1, n)
    <2> DEFINE g == f(n)
    <2>1. \A s, a \in Bit : k(s, a, n) \in Int
      BY KernelType
    <2>2. ASSUME NEW s \in Bit, NEW a \in Bit
          PROVE  g[<<s, a>>] = prev[s] * k(s, a, n) /\ g[<<s, a>>] \in Int
      <3> DEFINE x == prev[s]
                 y == Takes(b, t - 1, s, a)
                 z == Moves(b, t - 1, s, a, n)
      <3>1. x \in Int /\ y \in Int /\ z \in Int
        BY TakesFacts, MovesFacts
      <3>2. g[<<s, a>>] = x * y * z /\ k(s, a, n) = y * z
        BY DEF Kernel
      <3> HIDE DEF x, y, z, g, k
      <3>3. x * y * z = x * (y * z) /\ x * (y * z) \in Int
        BY ONLY <3>1
      <3>4. g[<<s, a>>] = x * k(s, a, n) /\ g[<<s, a>>] \in Int
        BY <3>2, <3>3
      <3> QED
        BY <3>4 DEF x
    <2>3. g \in [Bit \X Bit -> Int]
      <3>1. g = [sa \in Bit \X Bit |-> g[sa]]
        OBVIOUS
      <3> HIDE DEF g, k
      <3>2. \A s, a \in Bit : g[<<s, a>>] \in Int
        BY <2>2
      <3>3. \A sa \in Bit \X Bit : sa[1] \in Bit /\ sa[2] \in Bit /\ sa = <<sa[1], sa[2]>>
        OBVIOUS
      <3>4. \A sa \in Bit \X Bit : g[sa] \in Int
        BY <3>2, <3>3
      <3> QED
        BY <3>1, <3>4
    <2>4. g = f(n)
      OBVIOUS
    <2> HIDE DEF g, f
    <2>5. SumFunction(g) = g[<<0, 0>>] + g[<<0, 1>>] + g[<<1, 0>>] + g[<<1, 1>>]
      BY <2>3, SumFour DEF FourBits
    <2>6. /\ g[<<0, 0>>] = prev[0] * k(0, 0, n) /\ g[<<0, 1>>] = prev[0] * k(0, 1, n)
          /\ g[<<1, 0>>] = prev[1] * k(1, 0, n) /\ g[<<1, 1>>] = prev[1] * k(1, 1, n)
          /\ k(0, 0, n) \in Int /\ k(0, 1, n) \in Int /\ k(1, 0, n) \in Int /\ k(1, 1, n) \in Int
          /\ prev[0] \in Int /\ prev[1] \in Int
      <3> HIDE DEF k
      <3> QED
        BY <2>1, <2>2, BitIs
    <2>7. Into(b, t - 1, 0, n) = k(0, 0, n) + k(0, 1, n) /\ Into(b, t - 1, 1, n) = k(1, 0, n) + k(1, 1, n)
      BY DEF Into
    <2> HIDE DEF k
    <2>8. /\ k(0, 0, n) + k(0, 1, n) \in Int /\ k(1, 0, n) + k(1, 1, n) \in Int
          /\ prev[0] * k(0, 0, n) + prev[0] * k(0, 1, n) + prev[1] * k(1, 0, n) + prev[1] * k(1, 1, n)
               = prev[0] * (k(0, 0, n) + k(0, 1, n)) + prev[1] * (k(1, 0, n) + k(1, 1, n))
          /\ prev[0] * (k(0, 0, n) + k(0, 1, n)) + prev[1] * (k(1, 0, n) + k(1, 1, n)) \in Int
      BY <2>6
    <2> QED
      BY <2>4, <2>5, <2>6, <2>7, <2>8
  <1> HIDE DEF f
  <1> QED
    BY <1>1, <1>2

IsReach(b, d, start, m, r) ==
  /\ r \in [d..m -> [Bit -> Int]]
  /\ r[d] = Start(start) /\ \A t \in d..m : t # d => r[t] = Onward(b, r[t - 1], t)

LEMMA StartIs ==
  ASSUME NEW start
  PROVE  Start(start) \in [Bit -> Int] /\ \A s \in Bit : Start(start)[s] = IF s = start THEN 1 ELSE 0
  <1>1. \A s \in Bit : (IF s = start THEN 1 ELSE 0) \in Int
    OBVIOUS
  <1> QED
    BY <1>1 DEF Start

LEMMA ReachExists ==
  ASSUME NEW b, IsBucket(b), NEW d \in Times(b), NEW start
  PROVE  \A i \in Nat : d + i <= b.horizon => \E r : IsReach(b, d, start, d + i, r)
  <1> DEFINE h == b.horizon
             X == {i \in Nat : d + i <= h => \E r : IsReach(b, d, start, d + i, r)}
  <1>0. h \in Nat /\ Times(b) = 1..h /\ d \in 1..h
    BY BucketIs
  <1>1. 0 \in X
    <2> DEFINE r == [t \in d..d |-> Start(start)]
    <2>1. d + 0 = d /\ d..d = {d}
      BY <1>0
    <2>2. r \in [d..d -> [Bit -> Int]] /\ r[d] = Start(start)
      BY <2>1, StartIs
    <2> HIDE DEF r
    <2>3. IsReach(b, d, start, d, r)
      BY <2>1, <2>2 DEF IsReach
    <2> QED
      BY <2>1, <2>3
  <1>2. ASSUME NEW i \in Nat, i \in X PROVE i + 1 \in X
    <2> SUFFICES ASSUME d + (i + 1) <= h PROVE \E r : IsReach(b, d, start, d + (i + 1), r)
      OBVIOUS
    <2> DEFINE m == d + i
    <2>1. m \in d..h /\ m \in Times(b) /\ d + (i + 1) = m + 1 /\ m <= h /\ (m + 1) - 1 = m /\ m + 1 # d
          /\ m + 1 \in Int
      BY <1>0
    <2>2. PICK r : IsReach(b, d, start, m, r)
      BY <1>2, <2>1
    <2> HIDE DEF m
    <2> DEFINE top == Onward(b, r[m], m + 1)
               u == [t \in d..(m + 1) |-> IF t = m + 1 THEN top ELSE r[t]]
    <2>3. /\ r \in [d..m -> [Bit -> Int]] /\ r[d] = Start(start)
          /\ \A t \in d..m : t # d => r[t] = Onward(b, r[t - 1], t)
      BY <2>2 DEF IsReach
    <2>4. m \in d..m /\ d \in d..m
      BY <1>0, <2>1
    <2>5. top \in [Bit -> Int]
      BY <2>1, <2>3, <2>4, OnwardIs
    <2> HIDE DEF top
    <2>6. \A t \in d..(m + 1) : t = m + 1 \/ t \in d..m
      BY <1>0, <2>1
    <2>7. u \in [d..(m + 1) -> [Bit -> Int]]
      BY <2>3, <2>5, <2>6
    <2>8. u[m + 1] = top
      BY <1>0, <2>1
    <2>9. \A t \in d..m : u[t] = r[t]
      BY <1>0, <2>1
    <2> HIDE DEF u
    <2>10. ASSUME NEW t \in d..(m + 1), t # d PROVE u[t] = Onward(b, u[t - 1], t)
      <3>1. CASE t = m + 1
        BY <2>1, <2>4, <2>8, <2>9, <3>1 DEF top
      <3>2. CASE t # m + 1
        <4>1. t \in d..m /\ t - 1 \in d..m
          BY <1>0, <2>1, <2>10, <3>2
        <4> QED
          BY <2>3, <2>9, <2>10, <4>1
      <3> QED
        BY <3>1, <3>2
    <2>11. u[d] = Start(start)
      BY <2>3, <2>4, <2>9
    <2>12. IsReach(b, d, start, m + 1, u)
      BY <2>7, <2>10, <2>11 DEF IsReach
    <2> QED
      BY <2>1, <2>12
  <1> HIDE DEF X
  <1>3. Nat \subseteq X
    BY <1>1, <1>2, NatSetInduction
  <1> QED
    BY <1>3 DEF X

LEMMA ReachIs ==
  ASSUME NEW b, IsBucket(b), NEW d \in Times(b), NEW start
  PROVE  IsReach(b, d, start, b.horizon, Reach(b, d, start))
  <1> DEFINE h == b.horizon
             D == d..h
             V == Reach(b, d, start)
  <1>0. h \in Nat \ {0} /\ Times(b) = 1..h /\ d \in 1..h /\ h - d \in Nat /\ d + (h - d) = h /\ d \in D
    BY BucketIs
  <1>1. PICK v : IsReach(b, d, start, h, v)
    <2>1. h <= h /\ h - d \in Nat /\ d + (h - d) = h
      BY <1>0
    <2>2. \A i \in Nat : d + i <= h => \E r : IsReach(b, d, start, d + i, r)
      BY ReachExists
    <2>3. \E r : IsReach(b, d, start, d + (h - d), r)
      BY <2>1, <2>2
    <2> QED
      BY <2>1, <2>3
  <1>2. v = ReachStep(b, d, start, v)
    BY <1>1 DEF IsReach, ReachStep
  <1>3. V = CHOOSE u : u = ReachStep(b, d, start, u)
    BY DEF Reach, ReachStep, Start, Onward
  <1> HIDE DEF V
  <1>4. V = ReachStep(b, d, start, V)
    BY <1>2, <1>3
  <1>5. /\ DOMAIN V = D /\ V = [t \in D |-> V[t]] /\ V[d] = Start(start)
        /\ \A t \in D : t # d => V[t] = Onward(b, V[t - 1], t)
    BY <1>0, <1>4 DEF ReachStep
  <1> DEFINE X == {i \in Nat : d + i <= h => V[d + i] \in [Bit -> Int]}
  <1>6. 0 \in X
    <2>1. d + 0 = d
      BY <1>0
    <2>2. V[d] = Start(start) /\ Start(start) \in [Bit -> Int]
      BY ONLY <1>5, StartIs
    <2>3. V[d + 0] \in [Bit -> Int]
      BY ONLY <2>1, <2>2
    <2> QED
      BY ONLY <2>3
  <1>7. ASSUME NEW i \in Nat, i \in X PROVE i + 1 \in X
    <2> SUFFICES ASSUME d + (i + 1) <= h PROVE V[d + (i + 1)] \in [Bit -> Int]
      OBVIOUS
    <2> DEFINE t == d + (i + 1)
    <2>1. t - 1 \in Times(b) /\ t \in D /\ t - 1 = d + i /\ d + i <= h /\ t # d /\ t \in Int
      BY <1>0
    <2>2. V[t - 1] \in [Bit -> Int]
      BY <1>7, <2>1
    <2> HIDE DEF t
    <2>3. V[t] \in [Bit -> Int]
      <3>1. V[t] = Onward(b, V[t - 1], t)
        BY <1>5, <2>1
      <3>2. Onward(b, V[t - 1], t) \in [Bit -> Int]
        BY <2>1, <2>2, OnwardIs
      <3> QED
        BY <3>1, <3>2
    <2> QED
      BY <2>3 DEF t
  <1> HIDE DEF X
  <1>8. Nat \subseteq X
    BY <1>6, <1>7, NatSetInduction
  <1>9. ASSUME NEW t \in D PROVE V[t] \in [Bit -> Int]
    <2>1. t - d \in Nat /\ d + (t - d) <= h /\ d + (t - d) = t
      BY <1>0
    <2> QED
      BY <1>8, <2>1 DEF X
  <1>10. V \in [D -> [Bit -> Int]]
    BY <1>5, <1>9
  <1> QED
    BY <1>5, <1>10 DEF IsReach, V

LEMMA ReachFacts ==
  ASSUME NEW b, IsBucket(b), NEW d \in Times(b), NEW start \in Bit
  PROVE  LET r == Reach(b, d, start)
         IN /\ \A t \in d..b.horizon, n \in Bit : r[t][n] \in Int
            /\ \A n \in Bit : r[d][n] = IF n = start THEN 1 ELSE 0
            /\ \A t \in d..b.horizon, n \in Bit : t # d =>
                 r[t][n] = r[t - 1][0] * Into(b, t - 1, 0, n) + r[t - 1][1] * Into(b, t - 1, 1, n)
  <1> DEFINE r == Reach(b, d, start)
  <1>0. b.horizon \in Nat /\ Times(b) = 1..b.horizon /\ d \in 1..b.horizon
    BY BucketIs
  <1>1. IsReach(b, d, start, b.horizon, r)
    BY ReachIs
  <1> HIDE DEF r
  <1>2. /\ r \in [d..b.horizon -> [Bit -> Int]] /\ r[d] = Start(start)
        /\ \A t \in d..b.horizon : t # d => r[t] = Onward(b, r[t - 1], t)
    BY <1>1 DEF IsReach
  <1>3. ASSUME NEW t \in d..b.horizon, NEW n \in Bit, t # d
        PROVE  r[t][n] = r[t - 1][0] * Into(b, t - 1, 0, n) + r[t - 1][1] * Into(b, t - 1, 1, n)
    <2>1. t - 1 \in d..b.horizon /\ t - 1 \in Times(b) /\ t \in Int
      BY <1>0, <1>3
    <2>2. r[t - 1] \in [Bit -> Int] /\ r[t] = Onward(b, r[t - 1], t)
      BY <1>2, <1>3, <2>1
    <2>3. Onward(b, r[t - 1], t)[n] = r[t - 1][0] * Into(b, t - 1, 0, n) + r[t - 1][1] * Into(b, t - 1, 1, n)
      BY <2>1, <2>2, OnwardIs
    <2> QED
      BY <2>2, <2>3
  <1>4. \A t \in d..b.horizon, n \in Bit : r[t][n] \in Int
    BY <1>2
  <1>5. \A n \in Bit : r[d][n] = IF n = start THEN 1 ELSE 0
    BY <1>2, StartIs
  <1> QED
    BY <1>3, <1>4, <1>5 DEF r

LEMMA IntoType ==
  ASSUME NEW b, IsBucket(b), NEW t \in Times(b), NEW s \in Bit, NEW n \in Bit
  PROVE  Into(b, t, s, n) \in Int
  <1>1. Kernel(b, t, s, 0, n) \in Nat /\ Kernel(b, t, s, 1, n) \in Nat
    BY KernelType, BitIs
  <1> QED
    BY <1>1 DEF Into

LEMMA ReachBack ==
  ASSUME NEW b, IsBucket(b), NEW d \in Times(b), d + 1 \in Times(b), NEW s \in Bit
  PROVE  \A t \in (d + 1)..b.horizon, n \in Bit :
           Reach(b, d, s)[t][n] = Into(b, d, s, 0) * Reach(b, d + 1, 0)[t][n]
                                  + Into(b, d, s, 1) * Reach(b, d + 1, 1)[t][n]
  <1> DEFINE h == b.horizon
             r == Reach(b, d, s)
             u == Reach(b, d + 1, 0)
             v == Reach(b, d + 1, 1)
             i0 == Into(b, d, s, 0)
             i1 == Into(b, d, s, 1)
             X == {i \in Nat : (d + 1) + i <= h =>
                     \A n \in Bit : r[(d + 1) + i][n] = i0 * u[(d + 1) + i][n] + i1 * v[(d + 1) + i][n]}
  <1>0. h \in Nat /\ Times(b) = 1..h /\ d \in 1..h /\ d + 1 \in 1..h /\ 0 \in Bit /\ 1 \in Bit
        /\ Bit = {0, 1}
    BY BucketIs, BitIs
  <1>1. /\ \A t \in d..h, n \in Bit : r[t][n] \in Int
        /\ \A n \in Bit : r[d][n] = IF n = s THEN 1 ELSE 0
        /\ \A t \in d..h, n \in Bit : t # d =>
             r[t][n] = r[t - 1][0] * Into(b, t - 1, 0, n) + r[t - 1][1] * Into(b, t - 1, 1, n)
    BY ReachFacts
  <1>2. /\ \A t \in (d + 1)..h, n \in Bit : u[t][n] \in Int
        /\ \A n \in Bit : u[d + 1][n] = IF n = 0 THEN 1 ELSE 0
        /\ \A t \in (d + 1)..h, n \in Bit : t # d + 1 =>
             u[t][n] = u[t - 1][0] * Into(b, t - 1, 0, n) + u[t - 1][1] * Into(b, t - 1, 1, n)
    BY <1>0, ReachFacts
  <1>3. /\ \A t \in (d + 1)..h, n \in Bit : v[t][n] \in Int
        /\ \A n \in Bit : v[d + 1][n] = IF n = 1 THEN 1 ELSE 0
        /\ \A t \in (d + 1)..h, n \in Bit : t # d + 1 =>
             v[t][n] = v[t - 1][0] * Into(b, t - 1, 0, n) + v[t - 1][1] * Into(b, t - 1, 1, n)
    BY <1>0, ReachFacts
  <1>4. i0 \in Int /\ i1 \in Int
    BY <1>0, IntoType
  <1> HIDE DEF r, u, v, h
  <1>5. 0 \in X
    <2> SUFFICES ASSUME NEW n \in Bit PROVE r[d + 1][n] = i0 * u[d + 1][n] + i1 * v[d + 1][n]
      BY <1>0
    <2>1. d + 1 \in d..h /\ (d + 1) - 1 = d /\ d + 1 # d
      BY <1>0
    <2>2. r[d + 1][n] = r[d][0] * Into(b, d, 0, n) + r[d][1] * Into(b, d, 1, n)
      BY <1>1, <2>1
    <2>3. Into(b, d, 0, n) \in Int /\ Into(b, d, 1, n) \in Int
      BY <1>0, IntoType
    <2>4. r[d + 1][n] = Into(b, d, s, n)
      <3>1. CASE s = 0
        <4>1. r[d][0] = 1 /\ r[d][1] = 0
          BY <1>0, <1>1, <3>1
        <4> QED
          BY <2>2, <2>3, <3>1, <4>1
      <3>2. CASE s = 1
        <4>1. r[d][0] = 0 /\ r[d][1] = 1
          BY <1>0, <1>1, <3>2
        <4> QED
          BY <2>2, <2>3, <3>2, <4>1
      <3> QED
        BY <1>0, <3>1, <3>2
    <2>5. i0 * u[d + 1][n] + i1 * v[d + 1][n] = Into(b, d, s, n)
      <3>1. CASE n = 0
        <4>1. u[d + 1][n] = 1 /\ v[d + 1][n] = 0
          BY <1>0, <1>2, <1>3, <3>1
        <4>2. i0 * 1 + i1 * 0 = i0
          BY <1>4
        <4> QED
          BY <3>1, <4>1, <4>2
      <3>2. CASE n = 1
        <4>1. u[d + 1][n] = 0 /\ v[d + 1][n] = 1
          BY <1>0, <1>2, <1>3, <3>2
        <4>2. i0 * 0 + i1 * 1 = i1
          BY <1>4
        <4> QED
          BY <3>2, <4>1, <4>2
      <3> QED
        BY <1>0, <3>1, <3>2
    <2> QED
      BY <2>4, <2>5
  <1>6. ASSUME NEW i \in Nat, i \in X PROVE i + 1 \in X
    <2> DEFINE t == (d + 1) + i
    <2> SUFFICES ASSUME t + 1 <= h, NEW n \in Bit
                 PROVE  r[t + 1][n] = i0 * u[t + 1][n] + i1 * v[t + 1][n]
      <3>1. (d + 1) + (i + 1) = t + 1
        BY <1>0
      <3> QED
        BY <3>1
    <2>1. t \in (d + 1)..h /\ t + 1 \in (d + 1)..h /\ t \in d..h /\ t + 1 \in d..h /\ t \in Times(b)
          /\ (t + 1) - 1 = t /\ t + 1 # d /\ t + 1 # d + 1 /\ t <= h
      BY <1>0
    <2>2. \A m \in Bit : r[t][m] = i0 * u[t][m] + i1 * v[t][m]
      BY <1>6, <2>1
    <2> HIDE DEF t
    <2> DEFINE a == Into(b, t, 0, n)
               c == Into(b, t, 1, n)
    <2>3. /\ r[t + 1][n] = r[t][0] * a + r[t][1] * c
          /\ u[t + 1][n] = u[t][0] * a + u[t][1] * c
          /\ v[t + 1][n] = v[t][0] * a + v[t][1] * c
      BY <1>1, <1>2, <1>3, <2>1
    <2>4. a \in Int /\ c \in Int
      BY <1>0, <2>1, IntoType
    <2>5. /\ r[t][0] = i0 * u[t][0] + i1 * v[t][0] /\ r[t][1] = i0 * u[t][1] + i1 * v[t][1]
          /\ u[t][0] \in Int /\ u[t][1] \in Int /\ v[t][0] \in Int /\ v[t][1] \in Int
      BY <1>0, <1>2, <1>3, <2>1, <2>2
    <2> DEFINE x == u[t][0]
               y == u[t][1]
               z == v[t][0]
               w == v[t][1]
    <2>6. x \in Int /\ y \in Int /\ z \in Int /\ w \in Int
      BY <2>5
    <2>7. /\ r[t + 1][n] = (i0 * x + i1 * z) * a + (i0 * y + i1 * w) * c
          /\ u[t + 1][n] = x * a + y * c /\ v[t + 1][n] = z * a + w * c
      BY <2>3, <2>5
    <2> HIDE DEF x, y, z, w, a, c, i0, i1
    <2>8. (i0 * x + i1 * z) * a + (i0 * y + i1 * w) * c = i0 * (x * a + y * c) + i1 * (z * a + w * c)
      BY ONLY <1>4, <2>4, <2>6
    <2> QED
      BY <2>7, <2>8
  <1> HIDE DEF X
  <1>7. Nat \subseteq X
    BY <1>5, <1>6, NatSetInduction
  <1>8. ASSUME NEW t \in (d + 1)..h, NEW n \in Bit PROVE r[t][n] = i0 * u[t][n] + i1 * v[t][n]
    <2>1. t - (d + 1) \in Nat /\ (d + 1) + (t - (d + 1)) = t /\ t <= h
      BY <1>0
    <2>2. t - (d + 1) \in X
      BY <1>7, <2>1
    <2> QED
      BY <2>1, <2>2 DEF X
  <1> QED
    BY <1>8 DEF r, u, v, h

LEMMA SumPadded ==
  ASSUME NEW D, IsFiniteSet(D), NEW f, f \in [D -> Int], NEW S, S \subseteq D,
         NEW g, g \in [S -> Int], \A x \in S : g[x] = f[x], \A x \in D : x \notin S => f[x] = 0
  PROVE  IsFiniteSet(S) /\ SumFunction(f) = SumFunction(g) /\ SumFunction(g) \in Int
  <1> DEFINE T == D \ S
             o == [x \in T |-> 0]
  <1>1. IsFiniteSet(S) /\ IsFiniteSet(T) /\ S \cap T = {} /\ D = S \cup T
    BY FS_Subset, FS_Difference
  <1>2. o \in [T -> Int] /\ \A x \in T : o[x] = f[x] /\ o[x] = 0
    OBVIOUS
  <1> HIDE DEF T, o
  <1>3. SumFunction(o) = 0
    BY <1>1, <1>2, SumZero
  <1>4. f \in [S \cup T -> Int]
    BY <1>1
  <1>5. SumFunction(f) = SumFunction(g) + SumFunction(o)
    <2>1. o \in [T -> Int] /\ \A x \in T : o[x] = f[x]
      BY <1>2
    <2>2. g \in [S -> Int] /\ \A x \in S : g[x] = f[x]
      OBVIOUS
    <2>3. IsFiniteSet(S) /\ IsFiniteSet(T) /\ S \cap T = {}
      BY <1>1
    <2> QED
      BY ONLY <1>4, <2>1, <2>2, <2>3, SumUnion
  <1>6. SumFunction(g) \in Int
    BY <1>1, SumType
  <1> QED
    BY <1>1, <1>3, <1>5, <1>6

\* What the decision at step t in state s gives logit j.
Cell(b, r, j, t, s) ==
  IF b.map[t][s] = j THEN r[t][s] * Contribution(b, PolicyValue(b), t, s) ELSE 0
Cells(b, d, start, j) ==
  [t \in d..b.horizon |-> Cell(b, Reach(b, d, start), j, t, 0) + Cell(b, Reach(b, d, start), j, t, 1)]

LEMMA ContributionType ==
  ASSUME NEW b, IsBucket(b), NEW t \in Times(b), NEW s \in Bit
  PROVE  /\ PolicyValue(b)[t + 1] \in [Bit -> Int]
         /\ Contribution(b, PolicyValue(b), t, s) \in Int
  <1> DEFINE next == PolicyValue(b)[t + 1]
  <1>1. t + 1 \in 1..(b.horizon + 1)
    BY BucketIs
  <1>2. next \in [Bit -> Int]
    BY <1>1, PolicyValueIs DEF IsPolicy
  <1> HIDE DEF next
  <1>3. ActionValue(b, next, t, s, 1) \in Int /\ ActionValue(b, next, t, s, 0) \in Int
    BY <1>2, ActionValueIs, BitIs
  <1>4. Takes(b, t, s, 1) \in Int /\ Takes(b, t, s, 0) \in Int
    BY TakesFacts, BitIs
  <1> DEFINE A == ActionValue(b, next, t, s, 1)
             C == ActionValue(b, next, t, s, 0)
             P == Takes(b, t, s, 1)
             Q == Takes(b, t, s, 0)
  <1>5. A \in Int /\ C \in Int /\ P \in Int /\ Q \in Int
    BY <1>3, <1>4
  <1>6. Contribution(b, PolicyValue(b), t, s) = P * Q * (A - C)
    BY DEF Contribution, next
  <1> HIDE DEF A, C, P, Q
  <1>7. P * Q * (A - C) \in Int
    BY ONLY <1>5
  <1> QED
    BY <1>2, <1>6, <1>7 DEF next

LEMMA CellType ==
  ASSUME NEW b, IsBucket(b), NEW d \in Times(b), NEW start \in Bit, NEW j,
         NEW t \in d..b.horizon, NEW s \in Bit
  PROVE  Cell(b, Reach(b, d, start), j, t, s) \in Int /\ t \in Times(b)
  <1>1. t \in Times(b)
    BY BucketIs
  <1>2. Reach(b, d, start)[t][s] \in Int
    BY ReachFacts
  <1>3. Contribution(b, PolicyValue(b), t, s) \in Int
    BY <1>1, ContributionType
  <1>4. \A u, v \in Int : u * v \in Int
    OBVIOUS
  <1>5. Reach(b, d, start)[t][s] * Contribution(b, PolicyValue(b), t, s) \in Int
    BY <1>2, <1>3, <1>4
  <1> QED
    BY <1>1, <1>5 DEF Cell

LEMMA GradientByCells ==
  ASSUME NEW b, IsBucket(b), NEW d \in Times(b), NEW start \in Bit, NEW j \in Logit
  PROVE  /\ Cells(b, d, start, j) \in [d..b.horizon -> Int]
         /\ GradientFrom(b, d, start)[j] = SumFunction(Cells(b, d, start, j))
         /\ GradientFrom(b, d, start)[j] \in Int /\ IsFiniteSet(d..b.horizon)
  <1> DEFINE A == d..b.horizon
             D == A \X Bit
             r == Reach(b, d, start)
             S == Sharing(b, d, j)
             c(t, s) == Cell(b, r, j, t, s)
             f == [ts \in D |-> c(ts[1], ts[2])]
             g == [ts \in S |-> r[ts[1]][ts[2]] * Contribution(b, PolicyValue(b), ts[1], ts[2])]
             row == [t \in A |-> [s \in Bit |-> c(t, s)]]
             h == Cells(b, d, start, j)
  <1>1. \A t \in A, s \in Bit : c(t, s) \in Int
    BY CellType
  <1>2. IsFiniteSet(A) /\ IsFiniteSet(Bit) /\ IsFiniteSet(D)
    <2>1. IsFiniteSet(A)
      BY FS_Interval, BucketIs
    <2> QED
      BY <2>1, BitIs, CrossFinite
  <1>3. GradientFrom(b, d, start)[j] = SumFunction(g)
    BY DEF GradientFrom
  <1>4. S \subseteq D /\ \A ts \in D : ts \in S <=> b.map[ts[1]][ts[2]] = j
    BY DEF Sharing
  <1>5. \A ts \in S : g[ts] = f[ts]
    BY <1>4 DEF Cell
  <1>6. \A ts \in D : ts \notin S => f[ts] = 0
    BY <1>4 DEF Cell
  <1> HIDE DEF c
  <1>7. f \in [D -> Int]
    BY <1>1
  <1>8. row \in [A -> [Bit -> Int]] /\ \A t \in A, s \in Bit : row[t][s] = f[<<t, s>>]
    BY <1>1
  <1>9. h \in [A -> Int] /\ \A t \in A : h[t] = SumFunction(row[t])
    <2>1. \A t \in A : h[t] = c(t, 0) + c(t, 1)
      BY DEF Cells, c
    <2>2. h = [t \in A |-> h[t]]
      BY DEF Cells
    <2>3. \A t \in A : c(t, 0) \in Int /\ c(t, 1) \in Int
      BY <1>1, BitIs
    <2>4. \A t \in A : row[t][0] = c(t, 0) /\ row[t][1] = c(t, 1)
      BY BitIs
    <2> HIDE DEF h, row
    <2>5. \A t \in A : SumFunction(row[t]) = row[t][0] + row[t][1]
      BY <1>8, SumBits
    <2>6. \A t \in A : h[t] \in Int
      BY <2>1, <2>3
    <2> QED
      BY <2>1, <2>2, <2>4, <2>5, <2>6
  <1>10. g \in [S -> Int]
    <2>1. \A ts \in S : g[ts] \in Int
      BY <1>4, <1>5, <1>7
    <2>2. g = [ts \in S |-> g[ts]]
      OBVIOUS
    <2> HIDE DEF g
    <2> QED
      BY <2>1, <2>2
  <1> HIDE DEF f, g, row, h, S, r
  <1>11. SumFunction(f) = SumFunction(g) /\ SumFunction(g) \in Int
    <2>1. S \subseteq D /\ IsFiniteSet(D)
      BY <1>2, <1>4
    <2> HIDE DEF D
    <2> QED
      BY ONLY <2>1, <1>5, <1>6, <1>7, <1>10, SumPadded
  <1>12. Crossed(A, Bit, f, row, h)
    BY <1>7, <1>8, <1>9 DEF Crossed
  <1>13. SumFunction(f) = SumFunction(h)
    BY <1>2, <1>12, SumCross
  <1> QED
    BY <1>2, <1>3, <1>9, <1>11, <1>13 DEF h

LEMMA NoGradient ==
  ASSUME NEW b, IsBucket(b), NEW start \in Bit, NEW j \in Logit
  PROVE  GradientFrom(b, b.horizon + 1, start)[j] = 0
  <1> DEFINE d == b.horizon + 1
             g == [ts \in Sharing(b, d, j) |->
                     Reach(b, d, start)[ts[1]][ts[2]] * Contribution(b, PolicyValue(b), ts[1], ts[2])]
  <1>1. GradientFrom(b, d, start)[j] = SumFunction(g)
    BY DEF GradientFrom
  <1>2. d..b.horizon = {}
    BY BucketIs
  <1>3. Sharing(b, d, j) = {}
    BY <1>2 DEF Sharing
  <1>4. DOMAIN g = {}
    BY <1>3
  <1> HIDE DEF g
  <1> QED
    BY <1>1, <1>4, SumEmpty

\* The gradient of the decisions from d on: that of d, and that of what follows.
Own(b, d, s, j) == IF b.map[d][s] = j THEN Contribution(b, PolicyValue(b), d, s) ELSE 0

LEMMA GradientBack ==
  ASSUME NEW b, IsBucket(b), NEW d \in Times(b), NEW s \in Bit, NEW j \in Logit
  PROVE  /\ GradientFrom(b, d, s)[j] = Own(b, d, s, j)
              + (Into(b, d, s, 0) * GradientFrom(b, d + 1, 0)[j]
                 + Into(b, d, s, 1) * GradientFrom(b, d + 1, 1)[j])
         /\ \A y \in Bit : GradientFrom(b, d + 1, y)[j] \in Int
         /\ Own(b, d, s, j) \in Int /\ GradientFrom(b, d, s)[j] \in Int
  <1> DEFINE h == b.horizon
             f == Cells(b, d, s, j)
             E == (d + 1)..h
             g == [t \in E |-> f[t]]
             i0 == Into(b, d, s, 0)
             i1 == Into(b, d, s, 1)
             rest == i0 * GradientFrom(b, d + 1, 0)[j] + i1 * GradientFrom(b, d + 1, 1)[j]
  <1>0. h \in Nat /\ Times(b) = 1..h /\ d \in 1..h /\ d \in d..h /\ E = (d..h) \ {d} /\ E \subseteq d..h
        /\ 0 \in Bit /\ 1 \in Bit /\ Bit = {0, 1}
    BY BucketIs, BitIs
  <1>1. /\ f \in [d..h -> Int] /\ GradientFrom(b, d, s)[j] = SumFunction(f) /\ IsFiniteSet(d..h)
        /\ GradientFrom(b, d, s)[j] \in Int
    BY GradientByCells
  <1>2. f[d] = Own(b, d, s, j)
    <2> DEFINE r == Reach(b, d, s)
    <2>1. f[d] = Cell(b, r, j, d, 0) + Cell(b, r, j, d, 1)
      BY <1>0 DEF Cells
    <2>2. \A n \in Bit : r[d][n] = IF n = s THEN 1 ELSE 0
      BY ReachFacts
    <2>3. \A n \in Bit : Contribution(b, PolicyValue(b), d, n) \in Int
      BY ContributionType
    <2>4. \A u \in Int : 1 * u = u /\ 0 * u = 0
      OBVIOUS
    <2> HIDE DEF r
    <2>5. \A n \in Bit : n # s => Cell(b, r, j, d, n) = 0
      BY <2>2, <2>3, <2>4 DEF Cell
    <2>6. Cell(b, r, j, d, s) = Own(b, d, s, j)
      BY <2>2, <2>3, <2>4 DEF Cell, Own
    <2>7. Own(b, d, s, j) \in Int
      BY <2>3 DEF Own
    <2> QED
      BY <1>0, <2>1, <2>5, <2>6, <2>7
  <1>3. f[d] \in Int /\ i0 \in Int /\ i1 \in Int
    BY <1>0, <1>1, IntoType
  <1> HIDE DEF f
  <1>4. g \in [E -> Int] /\ \A t \in E : g[t] = f[t]
    BY <1>0, <1>1
  <1>5. IsFiniteSet(E)
    BY <1>0, <1>1, FS_Subset
  <1> HIDE DEF g
  <1>6. SumFunction(f) = f[d] + SumFunction(g)
    <2> DEFINE D == d..h
    <2>1. g \in [D \ {d} -> Int] /\ \A t \in D \ {d} : g[t] = f[t]
      BY <1>0, <1>4
    <2>2. d \in D /\ IsFiniteSet(D) /\ f \in [D -> Int]
      BY <1>0, <1>1
    <2> HIDE DEF D
    <2> QED
      BY ONLY <2>1, <2>2, SumTake
  <1>7. SumFunction(g) = rest /\ \A y \in Bit : GradientFrom(b, d + 1, y)[j] \in Int
    <2>1. CASE d = h
      <3>1. E = {} /\ d + 1 = h + 1
        BY <1>0, <2>1
      <3>2. SumFunction(g) = 0
        <4>1. DOMAIN g = {}
          BY <1>4, <3>1
        <4> QED
          BY <4>1, SumEmpty
      <3>3. \A y \in Bit : GradientFrom(b, d + 1, y)[j] = 0
        BY <3>1, NoGradient
      <3>4. i0 * 0 + i1 * 0 = 0
        BY <1>3
      <3> QED
        BY <1>0, <3>2, <3>3, <3>4
    <2>2. CASE d # h
      <3>1. d + 1 \in Times(b)
        BY <1>0, <2>2
      <3> DEFINE u == Cells(b, d + 1, 0, j)
                 v == Cells(b, d + 1, 1, j)
      <3>2. /\ u \in [E -> Int] /\ GradientFrom(b, d + 1, 0)[j] = SumFunction(u)
            /\ v \in [E -> Int] /\ GradientFrom(b, d + 1, 1)[j] = SumFunction(v)
            /\ \A y \in Bit : GradientFrom(b, d + 1, y)[j] \in Int
        BY <1>0, <3>1, GradientByCells
      <3>3. ASSUME NEW t \in E PROVE g[t] = i0 * u[t] + i1 * v[t]
        <4> DEFINE r == Reach(b, d, s)
                   p == Reach(b, d + 1, 0)
                   q == Reach(b, d + 1, 1)
        <4>1. ASSUME NEW n \in Bit
              PROVE  /\ Cell(b, r, j, t, n) = i0 * Cell(b, p, j, t, n) + i1 * Cell(b, q, j, t, n)
                     /\ Cell(b, p, j, t, n) \in Int /\ Cell(b, q, j, t, n) \in Int
          <5> DEFINE x == p[t][n]
                     y == q[t][n]
                     z == Contribution(b, PolicyValue(b), t, n)
          <5>1. r[t][n] = i0 * x + i1 * y
            BY <3>1, ReachBack
          <5>2. x \in Int /\ y \in Int
            BY <1>0, <3>1, ReachFacts
          <5>3. z \in Int
            BY <1>0, ContributionType
          <5>4. /\ Cell(b, p, j, t, n) = IF b.map[t][n] = j THEN x * z ELSE 0
                /\ Cell(b, q, j, t, n) = IF b.map[t][n] = j THEN y * z ELSE 0
                /\ Cell(b, r, j, t, n) = IF b.map[t][n] = j THEN r[t][n] * z ELSE 0
            BY DEF Cell
          <5> HIDE DEF x, y, z, p, q, r, i0, i1
          <5>5. (i0 * x + i1 * y) * z = i0 * (x * z) + i1 * (y * z) /\ 0 = i0 * 0 + i1 * 0
                /\ x * z \in Int /\ y * z \in Int
            BY ONLY <1>3, <5>2, <5>3
          <5> QED
            BY <5>1, <5>4, <5>5
        <4>2. /\ f[t] = Cell(b, r, j, t, 0) + Cell(b, r, j, t, 1)
              /\ u[t] = Cell(b, p, j, t, 0) + Cell(b, p, j, t, 1)
              /\ v[t] = Cell(b, q, j, t, 0) + Cell(b, q, j, t, 1)
          BY <1>0 DEF Cells, f
        <4> DEFINE x == Cell(b, p, j, t, 0)
                   y == Cell(b, p, j, t, 1)
                   z == Cell(b, q, j, t, 0)
                   w == Cell(b, q, j, t, 1)
        <4> HIDE DEF p, q, r, u, v, i0, i1
        <4>3. x \in Int /\ y \in Int /\ z \in Int /\ w \in Int
          BY <1>0, <4>1
        <4>4. f[t] = (i0 * x + i1 * z) + (i0 * y + i1 * w)
          BY <1>0, <4>1, <4>2
        <4>5. u[t] = x + y /\ v[t] = z + w
          BY <4>2
        <4> HIDE DEF x, y, z, w
        <4>6. (i0 * x + i1 * z) + (i0 * y + i1 * w) = i0 * (x + y) + i1 * (z + w)
          BY ONLY <1>3, <4>3
        <4> QED
          BY <1>4, <4>4, <4>5, <4>6
      <3> HIDE DEF u, v
      <3>4. SumFunction(g) = i0 * SumFunction(u) + i1 * SumFunction(v)
        <4> HIDE DEF E, i0, i1
        <4> QED
          BY <1>3, <1>4, <1>5, <3>2, <3>3, SumLinear
      <3> QED
        BY <3>2, <3>4
    <2> QED
      BY <2>1, <2>2
  <1>8. GradientFrom(b, d, s)[j] = Own(b, d, s, j) + rest
    BY <1>1, <1>2, <1>6, <1>7
  <1> QED
    BY <1>1, <1>2, <1>3, <1>7, <1>8

\* What a walk is worth, and the reward times the score it can still expect.
Worth(b, k, p) == IF k = b.horizon THEN Terminal(b, p) ELSE PolicyValue(b)[k + 1][p.s[k + 1]]
Expected(b, k, p, j) ==
  Worth(b, k, p) * PathScore(b, k, p, j) + GradientFrom(b, k + 1, p.s[k + 1])[j]
GradientLevels(b, j) == [k \in 0..b.horizon |-> [p \in Walks(b, k) |-> Expected(b, k, p, j)]]

LEMMA WorthType ==
  ASSUME NEW b, IsBucket(b), NEW k \in 0..b.horizon, NEW p \in Walks(b, k), NEW j \in Logit
  PROVE  Worth(b, k, p) \in Int /\ Expected(b, k, p, j) \in Int /\ p.s[k + 1] \in Bit /\ k \in Nat
  <1>0. b.horizon \in Nat \ {0} /\ k \in Nat /\ Times(b) = 1..b.horizon
    BY BucketIs
  <1>1. p.s[k + 1] \in Bit /\ \A t \in 1..k : p.a[t] \in Bit /\ p.s[t] \in Bit
    BY <1>0, WalkFacts
  <1>2. Worth(b, k, p) \in Int
    <2>1. CASE k = b.horizon
      <3>1. b.horizon \in 1..k
        BY <1>0, <2>1
      <3>2. p.s[b.horizon] \in Bit /\ p.a[b.horizon] \in Bit /\ p.s[b.horizon + 1] \in Bit
        BY <1>1, <2>1, <3>1
      <3>3. Terminal(b, p) \in Int
        BY <3>2, BucketIs DEF Terminal
      <3> QED
        BY <2>1, <3>3 DEF Worth
    <2>2. CASE k # b.horizon
      <3>1. k + 1 \in 1..(b.horizon + 1)
        BY <1>0
      <3>2. PolicyValue(b)[k + 1] \in [Bit -> Int]
        BY <3>1, PolicyValueIs DEF IsPolicy
      <3> QED
        BY <1>1, <2>2, <3>2 DEF Worth
    <2> QED
      BY <2>1, <2>2
  <1>3. GradientFrom(b, k + 1, p.s[k + 1])[j] \in Int
    <2>1. CASE k = b.horizon
      BY <1>1, <2>1, NoGradient
    <2>2. CASE k # b.horizon
      <3>1. k + 1 \in Times(b)
        BY <1>0, <2>2
      <3> QED
        BY <1>1, <3>1, GradientByCells
    <2> QED
      BY <2>1, <2>2
  <1>4. PathScore(b, k, p, j) \in Int
    BY <1>0, ScoreType
  <1> DEFINE x == Worth(b, k, p)
             y == PathScore(b, k, p, j)
             z == GradientFrom(b, k + 1, p.s[k + 1])[j]
  <1>5. x \in Int /\ y \in Int /\ z \in Int
    BY <1>2, <1>3, <1>4
  <1>6. Expected(b, k, p, j) = x * y + z
    BY DEF Expected
  <1> HIDE DEF x, y, z
  <1>7. x * y + z \in Int
    BY ONLY <1>5
  <1> QED
    BY <1>0, <1>1, <1>2, <1>6, <1>7

LEMMA WorthGrow ==
  ASSUME NEW b, IsBucket(b), NEW k \in Nat, k + 1 <= b.horizon, NEW p \in Walks(b, k),
         NEW x \in Bit, NEW y \in Bit
  PROVE  Worth(b, k + 1, Grow(p, x, y))
           = After(b, PolicyValue(b)[k + 2], k + 1, p.s[k + 1], x, y)
  <1> DEFINE q == Grow(p, x, y)
  <1>1. /\ q \in Walks(b, k + 1) /\ q.a[k + 1] = x /\ q.s[k + 2] = y
        /\ (\A t \in 1..k : q.a[t] = p.a[t]) /\ \A t \in 1..(k + 1) : q.s[t] = p.s[t]
        /\ q.a = Append(p.a, x) /\ q.s = Append(p.s, y)
    BY ONLY k \in Nat, p \in Walks(b, k), x \in Bit, y \in Bit, GrowFacts
  <1> HIDE DEF q
  <1>2. k + 1 \in 1..(k + 1) /\ (k + 1) + 1 = k + 2
    OBVIOUS
  <1>3. q.s[k + 1] = p.s[k + 1]
    BY <1>1, <1>2
  <1>4. CASE k + 1 = b.horizon
    <2>1. Worth(b, k + 1, q) = Terminal(b, q)
      BY <1>4 DEF Worth
    <2>2. Terminal(b, q) = b.terminal[<<p.s[k + 1], x, y>>]
      BY <1>1, <1>2, <1>3, <1>4 DEF Terminal
    <2>3. After(b, PolicyValue(b)[k + 2], k + 1, p.s[k + 1], x, y) = b.terminal[<<p.s[k + 1], x, y>>]
      BY <1>4 DEF After
    <2> QED
      BY <2>1, <2>2, <2>3 DEF q
  <1>5. CASE k + 1 # b.horizon
    <2>1. Worth(b, k + 1, q) = PolicyValue(b)[k + 2][y]
      BY <1>1, <1>2, <1>5 DEF Worth
    <2>2. After(b, PolicyValue(b)[k + 2], k + 1, p.s[k + 1], x, y) = PolicyValue(b)[k + 2][y]
      BY <1>5 DEF After
    <2> QED
      BY <2>1, <2>2 DEF q
  <1> QED
    BY <1>4, <1>5

\* One step of the expected reward times the score, without the names of the model.
LEMMA OneDecision ==
  ASSUME NEW P0 \in Int, NEW P1 \in Int, NEW m00 \in Int, NEW m01 \in Int, NEW m10 \in Int,
         NEW m11 \in Int, NEW a00 \in Int, NEW a01 \in Int, NEW a10 \in Int, NEW a11 \in Int,
         NEW S \in Int, NEW t0 \in Int, NEW t1 \in Int, NEW g0 \in Int, NEW g1 \in Int
  PROVE  (P0 * m00) * (a00 * (S + t0) + g0) + (P0 * m01) * (a01 * (S + t0) + g1)
           + (P1 * m10) * (a10 * (S + t1) + g0) + (P1 * m11) * (a11 * (S + t1) + g1)
         = (P0 * (m00 * a00 + m01 * a01) + P1 * (m10 * a10 + m11 * a11)) * S
           + ((P0 * t0 * (m00 * a00 + m01 * a01) + P1 * t1 * (m10 * a10 + m11 * a11))
              + ((P0 * m00 + P1 * m10) * g0 + (P0 * m01 + P1 * m11) * g1))
  <1>1. (P0 * m00) * (a00 * (S + t0) + g0)
          = (P0 * (m00 * a00)) * S + (P0 * t0 * (m00 * a00) + (P0 * m00) * g0)
    OBVIOUS
  <1>2. (P0 * m01) * (a01 * (S + t0) + g1)
          = (P0 * (m01 * a01)) * S + (P0 * t0 * (m01 * a01) + (P0 * m01) * g1)
    OBVIOUS
  <1>3. (P1 * m10) * (a10 * (S + t1) + g0)
          = (P1 * (m10 * a10)) * S + (P1 * t1 * (m10 * a10) + (P1 * m10) * g0)
    OBVIOUS
  <1>4. (P1 * m11) * (a11 * (S + t1) + g1)
          = (P1 * (m11 * a11)) * S + (P1 * t1 * (m11 * a11) + (P1 * m11) * g1)
    OBVIOUS
  <1> DEFINE b0 == m00 * a00
             b1 == m01 * a01
             b2 == m10 * a10
             b3 == m11 * a11
  <1>5. b0 \in Int /\ b1 \in Int /\ b2 \in Int /\ b3 \in Int
    OBVIOUS
  <1> HIDE DEF b0, b1, b2, b3
  <1>6. ((P0 * b0) * S + (P0 * t0 * b0 + (P0 * m00) * g0)) + ((P0 * b1) * S + (P0 * t0 * b1 + (P0 * m01) * g1))
          + ((P1 * b2) * S + (P1 * t1 * b2 + (P1 * m10) * g0)) + ((P1 * b3) * S + (P1 * t1 * b3 + (P1 * m11) * g1))
        = (P0 * (b0 + b1) + P1 * (b2 + b3)) * S
           + ((P0 * t0 * (b0 + b1) + P1 * t1 * (b2 + b3))
              + ((P0 * m00 + P1 * m10) * g0 + (P0 * m01 + P1 * m11) * g1))
    BY <1>5
  <1> QED
    BY <1>1, <1>2, <1>3, <1>4, <1>6 DEF b0, b1, b2, b3

LEMMA ExpectedStep ==
  ASSUME NEW b, IsBucket(b), NEW k \in Nat, k + 1 <= b.horizon, NEW p \in Walks(b, k), NEW j \in Logit
  PROVE  Expected(b, k, p, j)
           = Spread(b, k, [q \in Walks(b, k + 1) |-> Expected(b, k + 1, q, j)], p)
  <1> DEFINE t == k + 1
             s == p.s[k + 1]
             v == PolicyValue(b)
             F == [q \in Walks(b, k + 1) |-> Expected(b, k + 1, q, j)]
             P0 == Takes(b, t, s, 0)
             P1 == Takes(b, t, s, 1)
             m(x, y) == Moves(b, t, s, x, y)
             a(x, y) == After(b, v[t + 1], t, s, x, y)
             S == PathScore(b, k, p, j)
             T(x) == Tally(b, t, s, x, j)
             g(y) == GradientFrom(b, t + 1, y)[j]
  <1>0. /\ t \in Times(b) /\ t \in 1..(b.horizon + 1) /\ t + 1 = k + 2 /\ k # b.horizon /\ k \in 0..b.horizon
        /\ 0 \in Bit /\ 1 \in Bit /\ Bit = {0, 1} /\ s \in Bit
    BY BucketIs, BitIs, WalkFacts
  <1>1. v[t + 1] \in [Bit -> Int] /\ v[t] = ValueAt(b, v[t + 1], t)
    BY <1>0, ContributionType, PolicyValueIs DEF IsPolicy
  <1>2. P0 \in Int /\ P1 \in Int /\ \A x, y \in Bit : m(x, y) \in Int
    BY <1>0, TakesFacts, MovesFacts
  <1>3. \A x \in Bit : /\ ActionValue(b, v[t + 1], t, s, x) = m(x, 0) * a(x, 0) + m(x, 1) * a(x, 1)
                       /\ \A y \in Bit : a(x, y) \in Int
    BY <1>0, <1>1, ActionValueIs
  <1>4. S \in Int /\ \A x \in Bit : T(x) \in Int
    BY <1>0, ScoreType, TallyType
  <1>5. \A y \in Bit : g(y) \in Int
    BY <1>0, GradientBack
  <1>6. ASSUME NEW x \in Bit, NEW y \in Bit
        PROVE  F[Grow(p, x, y)] = a(x, y) * (S + T(x)) + g(y)
    <2>1. Grow(p, x, y) \in Walks(b, k + 1) /\ Grow(p, x, y).s[k + 2] = y
      <3>1. /\ Grow(p, x, y) \in Walks(b, k + 1)
            /\ Grow(p, x, y).a[k + 1] = x /\ Grow(p, x, y).s[k + 2] = y
            /\ \A i \in 1..k : Grow(p, x, y).a[i] = p.a[i]
            /\ \A i \in 1..(k + 1) : Grow(p, x, y).s[i] = p.s[i]
            /\ Grow(p, x, y).a = Append(p.a, x) /\ Grow(p, x, y).s = Append(p.s, y)
        BY ONLY k \in Nat, p \in Walks(b, k), x \in Bit, y \in Bit, GrowFacts
      <3> QED
        BY <3>1
    <2>2. F[Grow(p, x, y)] = Expected(b, k + 1, Grow(p, x, y), j)
      BY <2>1
    <2>3. Worth(b, k + 1, Grow(p, x, y)) = a(x, y)
      BY <1>0, WorthGrow
    <2>4. PathScore(b, k + 1, Grow(p, x, y), j) = S + T(x)
      BY ScoreGrow
    <2>5. GradientFrom(b, (k + 1) + 1, Grow(p, x, y).s[(k + 1) + 1])[j] = g(y)
      BY <1>0, <2>1
    <2> HIDE DEF F, a, S, T, g
    <2> QED
      BY <2>2, <2>3, <2>4, <2>5 DEF Expected
  <1>7. Spread(b, k, F, p)
          = (P0 * m(0, 0)) * (a(0, 0) * (S + T(0)) + g(0)) + (P0 * m(0, 1)) * (a(0, 1) * (S + T(0)) + g(1))
            + (P1 * m(1, 0)) * (a(1, 0) * (S + T(1)) + g(0)) + (P1 * m(1, 1)) * (a(1, 1) * (S + T(1)) + g(1))
    <2>1. \A x, y \in Bit : Ahead(b, k, F, p, x, y)
            = (Takes(b, t, s, x) * m(x, y)) * (a(x, y) * (S + T(x)) + g(y))
      <3> HIDE DEF F, a, S, T, g
      <3> QED
        BY <1>6 DEF Ahead, Kernel
    <2> HIDE DEF F, m, a, S, T, g
    <2> QED
      BY <1>0, <2>1 DEF Spread
  <1>8. Own(b, t, s, j) = P0 * T(0) * (m(0, 0) * a(0, 0) + m(0, 1) * a(0, 1))
                          + P1 * T(1) * (m(1, 0) * a(1, 0) + m(1, 1) * a(1, 1))
    <2> DEFINE A0 == ActionValue(b, v[t + 1], t, s, 0)
               A1 == ActionValue(b, v[t + 1], t, s, 1)
               l == ActionProb(b, t, s)
    <2>1. /\ A0 = m(0, 0) * a(0, 0) + m(0, 1) * a(0, 1) /\ A1 = m(1, 0) * a(1, 0) + m(1, 1) * a(1, 1)
          /\ A0 \in Int /\ A1 \in Int
      BY <1>0, <1>1, <1>3, ActionValueIs
    <2>2. P1 = l /\ P0 = Unit - l /\ l = b.logit[b.map[t][s]] /\ l \in Int /\ Unit \in Int
      <3>1. Unit \in Int
        BY UnitAssumption
      <3>2. P1 = l /\ P0 = Unit - l
        BY DEF Takes
      <3>3. l = b.logit[b.map[t][s]]
        BY DEF ActionProb
      <3>4. l \in Int
        BY <1>0, TakesFacts
      <3> QED
        BY <3>1, <3>2, <3>3, <3>4
    <2>3. Contribution(b, v, t, s) = P1 * P0 * (A1 - A0)
      BY DEF Contribution
    <2>4. /\ b.map[t][s] = j => T(0) = 0 - l /\ T(1) = Unit - l
          /\ b.map[t][s] # j => T(0) = 0 /\ T(1) = 0
      BY <2>2 DEF Tally
    <2>5. Own(b, t, s, j) = IF b.map[t][s] = j THEN P1 * P0 * (A1 - A0) ELSE 0
      BY <2>3 DEF Own
    <2> HIDE DEF A0, A1, l, P0, P1, m, a, T
    <2>6. l * (Unit - l) * (A1 - A0) = (Unit - l) * (0 - l) * A0 + l * (Unit - l) * A1
      <3> DEFINE u == Unit - l
      <3>1. u \in Int /\ l \in Int /\ A0 \in Int /\ A1 \in Int
        <4>1. Unit \in Int /\ l \in Int
          BY ONLY <2>2
        <4> QED
          BY ONLY <4>1, <2>1
      <3> HIDE DEF u
      <3>2. l * u * (A1 - A0) = u * (0 - l) * A0 + l * u * A1
        BY ONLY <3>1
      <3> QED
        BY ONLY <3>2 DEF u
    <2>7. P0 * 0 * A0 + P1 * 0 * A1 = 0
      BY <1>2, <2>1
    <2> QED
      BY <2>1, <2>2, <2>4, <2>5, <2>6, <2>7
  <1>9. /\ Into(b, t, s, 0) = P0 * m(0, 0) + P1 * m(1, 0) /\ Into(b, t, s, 1) = P0 * m(0, 1) + P1 * m(1, 1)
    BY DEF Into, Kernel
  <1>10. Worth(b, k, p) = P0 * (m(0, 0) * a(0, 0) + m(0, 1) * a(0, 1))
                          + P1 * (m(1, 0) * a(1, 0) + m(1, 1) * a(1, 1))
    <2>1. Worth(b, k, p) = v[t][s]
      BY <1>0 DEF Worth
    <2>2. v[t][s] = P0 * ActionValue(b, v[t + 1], t, s, 0) + P1 * ActionValue(b, v[t + 1], t, s, 1)
      BY <1>0, <1>1, ValueAtIs
    <2> HIDE DEF v, P0, P1, m, a
    <2> QED
      BY <1>0, <1>3, <2>1, <2>2
  <1>11. GradientFrom(b, t, s)[j] = Own(b, t, s, j) + (Into(b, t, s, 0) * g(0) + Into(b, t, s, 1) * g(1))
    BY <1>0, GradientBack
  <1>12. Expected(b, k, p, j) = Worth(b, k, p) * S + GradientFrom(b, t, s)[j]
    BY DEF Expected
  <1>13. /\ P0 \in Int /\ P1 \in Int /\ m(0, 0) \in Int /\ m(0, 1) \in Int /\ m(1, 0) \in Int /\ m(1, 1) \in Int
         /\ a(0, 0) \in Int /\ a(0, 1) \in Int /\ a(1, 0) \in Int /\ a(1, 1) \in Int
         /\ S \in Int /\ T(0) \in Int /\ T(1) \in Int /\ g(0) \in Int /\ g(1) \in Int
    BY <1>0, <1>2, <1>3, <1>4, <1>5
  <1> HIDE DEF P0, P1, m, a, S, T, g, F
  <1>14. (P0 * m(0, 0)) * (a(0, 0) * (S + T(0)) + g(0)) + (P0 * m(0, 1)) * (a(0, 1) * (S + T(0)) + g(1))
            + (P1 * m(1, 0)) * (a(1, 0) * (S + T(1)) + g(0)) + (P1 * m(1, 1)) * (a(1, 1) * (S + T(1)) + g(1))
         = (P0 * (m(0, 0) * a(0, 0) + m(0, 1) * a(0, 1)) + P1 * (m(1, 0) * a(1, 0) + m(1, 1) * a(1, 1))) * S
           + ((P0 * T(0) * (m(0, 0) * a(0, 0) + m(0, 1) * a(0, 1))
               + P1 * T(1) * (m(1, 0) * a(1, 0) + m(1, 1) * a(1, 1)))
              + ((P0 * m(0, 0) + P1 * m(1, 0)) * g(0) + (P0 * m(0, 1) + P1 * m(1, 1)) * g(1)))
    BY ONLY <1>13, OneDecision
  <1> QED
    BY <1>7, <1>8, <1>9, <1>10, <1>11, <1>12, <1>14 DEF F

LEMMA GradientLevelsAre ==
  ASSUME NEW b, IsBucket(b), NEW j \in Logit PROVE Levels2(b, 0, GradientLevels(b, j))
  <1> DEFINE q == GradientLevels(b, j)
             level(k) == [p \in Walks(b, k) |-> Expected(b, k, p, j)]
  <1>1. \A k \in 0..b.horizon : q[k] = level(k)
    BY DEF GradientLevels
  <1>2. \A k \in 0..b.horizon : \A p \in Walks(b, k) : Expected(b, k, p, j) \in Int
    BY WorthType
  <1>3. \A k \in 0..b.horizon : q[k] \in [Walks(b, k) -> Int]
    BY <1>1, <1>2
  <1> HIDE DEF q
  <1>4. ASSUME NEW k \in 0..b.horizon, k + 1 <= b.horizon, NEW p \in Walks(b, k)
        PROVE  q[k][p] = Spread(b, k, q[k + 1], p)
    <2>1. k \in Nat /\ k + 1 \in 0..b.horizon
      BY <1>4, BucketIs
    <2>2. q[k][p] = Expected(b, k, p, j)
      BY <1>1
    <2>3. q[k + 1] = level(k + 1)
      BY <1>1, <2>1
    <2>4. Expected(b, k, p, j) = Spread(b, k, level(k + 1), p)
      BY <1>4, <2>1, ExpectedStep
    <2> HIDE DEF level
    <2> QED
      BY <2>2, <2>3, <2>4
  <1> QED
    BY <1>3, <1>4 DEF Levels2, q

\* The mean of the reward times the score, given the first d decisions.
LEMMA Conditional ==
  ASSUME NEW b, IsBucket(b), NEW d \in Nat, d <= b.horizon, NEW j \in Logit,
         NEW G, G \in [Walks(b, d) -> Int], NEW F, F \in [Walks(b, b.horizon) -> Int],
         \A p \in Walks(b, b.horizon) :
           F[p] = (Terminal(b, p) * PathScore(b, b.horizon, p, j)) * G[Stem(p, d)],
         NEW E, E \in [Walks(b, d) -> Int], \A c \in Walks(b, d) : E[c] = Expected(b, d, c, j) * G[c]
  PROVE  WalkSum(b, b.horizon, F) = WalkSum(b, d, E)
  <1> DEFINE h == b.horizon
             q == GradientLevels(b, j)
             H == Carried(b, d, q, G, h)
             C == Carried(b, d, q, G, d)
  <1>1. Levels2(b, d, q)
    BY GradientLevelsAre, LevelsFrom
  <1>2. h \in Nat /\ h \in 0..h /\ d \in 0..h /\ d \in 0..d
    BY BucketIs
  <1>3. \A k \in 0..h : \A p \in Walks(b, k) : q[k][p] = Expected(b, k, p, j)
    BY DEF GradientLevels
  <1> HIDE DEF q
  <1>4. ASSUME NEW p \in Walks(b, h) PROVE H[p] = F[p]
    <2>1. H[p] = q[h][p] * G[Stem(p, d)]
      BY DEF Carried
    <2>2. q[h][p] = Worth(b, h, p) * PathScore(b, h, p, j) + GradientFrom(b, h + 1, p.s[h + 1])[j]
      BY <1>2, <1>3 DEF Expected
    <2>3. Worth(b, h, p) = Terminal(b, p) /\ Worth(b, h, p) \in Int /\ p.s[h + 1] \in Bit
      BY <1>2, WorthType DEF Worth
    <2>4. GradientFrom(b, h + 1, p.s[h + 1])[j] = 0
      BY <2>3, NoGradient
    <2>5. PathScore(b, h, p, j) \in Int
      BY <1>2, ScoreType
    <2>6. \A u, v \in Int : u * v + 0 = u * v
      OBVIOUS
    <2>7. q[h][p] = Terminal(b, p) * PathScore(b, h, p, j)
      BY <2>2, <2>3, <2>4, <2>5, <2>6
    <2> HIDE DEF H
    <2> QED
      BY <2>1, <2>7
  <1>5. ASSUME NEW c \in Walks(b, d) PROVE C[c] = E[c]
    <2>1. C[c] = q[d][c] * G[Stem(c, d)]
      BY DEF Carried
    <2>2. q[d][c] = Expected(b, d, c, j)
      BY <1>2, <1>3
    <2>3. Stem(c, d) = c
      BY <1>2, StemFacts
    <2> QED
      BY <2>1, <2>2, <2>3
  <1>6. WalkSum(b, h, H) = WalkSum(b, d, C)
    BY <1>1, Tower
  <1> HIDE DEF H, C
  <1>7. WalkSum(b, h, H) = WalkSum(b, h, F) /\ WalkSum(b, d, C) = WalkSum(b, d, E)
    BY <1>4, <1>5, WalkSame
  <1> QED
    BY <1>6, <1>7

LEMMA GeneralGradient ==
  ASSUME NEW b, IsBucket(b), NEW j \in Logit,
         NEW F, F = [p \in Walks(b, b.horizon) |-> Terminal(b, p) * PathScore(b, b.horizon, p, j)]
  PROVE  /\ F \in [Walks(b, b.horizon) -> Int]
         /\ WalkSum(b, b.horizon, F) = GradientFrom(b, 1, b.initial)[j]
  <1> DEFINE h == b.horizon
             G == [r \in Walks(b, 0) |-> 1]
             E == [r \in Walks(b, 0) |-> Expected(b, 0, r, j)]
  <1>1. h \in Nat \ {0} /\ h \in 0..h /\ 0 \in 0..h /\ b.initial \in Bit /\ 0 <= h /\ 0 + 1 = 1
    BY BucketIs
  <1>2. \A p \in Walks(b, h) : Terminal(b, p) * PathScore(b, h, p, j) \in Int
    <2> TAKE p \in Walks(b, h)
    <2>1. Worth(b, h, p) = Terminal(b, p) /\ Worth(b, h, p) \in Int
      BY <1>1, WorthType DEF Worth
    <2>2. PathScore(b, h, p, j) \in Int
      BY <1>1, ScoreType
    <2> QED
      BY <2>1, <2>2
  <1>3. F \in [Walks(b, h) -> Int]
    BY <1>2
  <1>4. \A p \in Walks(b, h) : F[p] = (Terminal(b, p) * PathScore(b, h, p, j)) * G[Stem(p, 0)]
    <2> TAKE p \in Walks(b, h)
    <2>1. Stem(p, 0) \in Walks(b, 0)
      BY <1>1, StemFacts
    <2>2. G[Stem(p, 0)] = 1
      BY <2>1
    <2>3. \A u \in Int : u = u * 1
      OBVIOUS
    <2> HIDE DEF G
    <2> QED
      BY <1>2, <2>2, <2>3
  <1>5. E \in [Walks(b, 0) -> Int]
    BY <1>1, WorthType
  <1>6. \A r \in Walks(b, 0) : E[r] = Expected(b, 0, r, j) * G[r]
    <2>1. \A u \in Int : u = u * 1
      OBVIOUS
    <2> QED
      BY <1>5, <2>1
  <1>7. G \in [Walks(b, 0) -> Int]
    OBVIOUS
  <1>8. \A r \in Walks(b, 0) : r.s[1] = b.initial => E[r] = GradientFrom(b, 1, b.initial)[j]
    <2> SUFFICES ASSUME NEW r \in Walks(b, 0), r.s[1] = b.initial
                 PROVE  E[r] = GradientFrom(b, 1, b.initial)[j]
      OBVIOUS
    <2>1. PathScore(b, 0, r, j) = 0 /\ Worth(b, 0, r) \in Int
      BY <1>1, NoScore, WorthType
    <2>2. E[r] = Worth(b, 0, r) * 0 + GradientFrom(b, 1, b.initial)[j]
      BY <1>1, <2>1 DEF Expected
    <2>3. 1 \in Times(b)
      BY <1>1, BucketIs
    <2>4. GradientFrom(b, 1, b.initial)[j] \in Int
      BY <1>1, <2>3, GradientByCells
    <2>5. \A u, v \in Int : u * 0 + v = v
      OBVIOUS
    <2> QED
      BY <2>1, <2>2, <2>4, <2>5
  <1> HIDE DEF G, E, h
  <1>9. WalkSum(b, 0, E) = GradientFrom(b, 1, b.initial)[j]
    <2>1. \E r : Walks(b, 0) = {r} /\ r.s[1] = b.initial /\ WalkSum(b, 0, E) = E[r]
      BY <1>1, <1>5, AtRoot
    <2> QED
      BY <1>8, <2>1
  <1>10. WalkSum(b, h, F) = WalkSum(b, 0, E)
    BY <1>1, <1>3, <1>4, <1>5, <1>6, <1>7, Conditional DEF h
  <1> QED
    BY <1>3, <1>9, <1>10 DEF h

-----------------------------------------------------------------------------
(* The codes of the walks, and the rows of the enumeration *)

CodeWalk(b, n) == [c \in PathCodes(n) |-> CodedPath(b, n, c)]

LEMMA CodedPathIs ==
  ASSUME NEW b, b.initial \in Bit, NEW n \in Nat, NEW c \in PathCodes(n)
  PROVE  /\ CodedPath(b, n, c) \in Walks(b, n) /\ PathCodes(n) = Patterns(2 * n) /\ 2 * n \in Nat
         /\ PathOf(2 * n, c) \in History(2 * n)
         /\ \A t \in 1..n : CodedPath(b, n, c).a[t] = PathOf(2 * n, c)[t]
         /\ \A t \in 2..(n + 1) : CodedPath(b, n, c).s[t] = PathOf(2 * n, c)[n + t - 1]
  <1> DEFINE bits == PathOf(2 * n, c)
             p == CodedPath(b, n, c)
  <1>1. PathCodes(n) = Patterns(2 * n) /\ 2 * n \in Nat
    BY DEF PathCodes, Patterns
  <1>2. c \in Nat
    BY <1>1, PatternFacts
  <1>3. bits \in History(2 * n)
    BY <1>1, <1>2, NextPath, BitIs
  <1>4. \A i \in 1..(2 * n) : bits[i] \in Bit
    BY <1>3 DEF History
  <1> HIDE DEF bits
  <1>5. /\ p = Walk(p.a, p.s) /\ p.a = [t \in 1..n |-> bits[t]]
        /\ p.s = [t \in 1..(n + 1) |-> IF t = 1 THEN b.initial ELSE bits[n + t - 1]]
    BY DEF CodedPath, Walk, bits
  <1> HIDE DEF p
  <1>6. p.a \in History(n)
    <2>1. \A t \in 1..n : t \in 1..(2 * n)
      OBVIOUS
    <2> QED
      BY <1>4, <1>5, <2>1 DEF History
  <1>7. p.s \in History(n + 1) /\ p.s[1] = b.initial
    <2>1. \A t \in 1..(n + 1) : t # 1 => n + t - 1 \in 1..(2 * n)
      OBVIOUS
    <2>2. 1 \in 1..(n + 1)
      OBVIOUS
    <2> QED
      BY <1>4, <1>5, <2>1, <2>2 DEF History
  <1>8. p \in Walks(b, n)
    BY <1>5, <1>6, <1>7, WalkIs
  <1>9. /\ \A t \in 1..n : p.a[t] = bits[t]
        /\ \A t \in 2..(n + 1) : p.s[t] = bits[n + t - 1]
    BY <1>5
  <1> QED
    BY <1>1, <1>3, <1>8, <1>9 DEF bits, p

LEMMA CodeWalkIsBijection ==
  ASSUME NEW b, b.initial \in Bit, NEW n \in Nat
  PROVE  CodeWalk(b, n) \in Bijection(PathCodes(n), Walks(b, n)) /\ IsFiniteSet(PathCodes(n))
         /\ CodeWalk(b, n) \in [PathCodes(n) -> Walks(b, n)]
  <1> DEFINE C == PathCodes(n)
             W == Walks(b, n)
             f == CodeWalk(b, n)
             m == 2 * n
  <1>1. m \in Nat /\ C = Patterns(m) /\ IsFiniteSet(C)
    BY PatternFacts DEF PathCodes, Patterns
  <1>2. /\ Coding(m) \in [C -> History(m)]
        /\ \A x, y \in C : Coding(m)[x] = Coding(m)[y] => x = y
        /\ \A z \in History(m) : \E x \in C : Coding(m)[x] = z
    BY <1>1, CodingIsBijection, BijectionIs
  <1>3. \A x \in C : Coding(m)[x] = PathOf(m, x)
    BY <1>1 DEF Coding
  <1>4. \A x \in C : f[x] = CodedPath(b, n, x) /\ CodedPath(b, n, x) \in W
    BY CodedPathIs DEF CodeWalk
  <1>5. f \in [C -> W]
    BY <1>4 DEF CodeWalk
  <1>6. ASSUME NEW x \in C, NEW y \in C, f[x] = f[y] PROVE x = y
    <2> DEFINE u == PathOf(m, x)
               v == PathOf(m, y)
               p == CodedPath(b, n, x)
    <2>1. /\ u \in History(m) /\ (\A t \in 1..n : p.a[t] = u[t])
          /\ \A t \in 2..(n + 1) : p.s[t] = u[n + t - 1]
      BY CodedPathIs
    <2>2. p = CodedPath(b, n, y)
      BY <1>4, <1>6
    <2>3. /\ v \in History(m) /\ (\A t \in 1..n : p.a[t] = v[t])
          /\ \A t \in 2..(n + 1) : p.s[t] = v[n + t - 1]
      BY <2>2, CodedPathIs
    <2> HIDE DEF u, v, p
    <2>4. ASSUME NEW i \in 1..m PROVE u[i] = v[i]
      <3>1. CASE i <= n
        <4>1. i \in 1..n
          BY <3>1
        <4> QED
          BY <2>1, <2>3, <4>1
      <3>2. CASE ~(i <= n)
        <4>1. (i - n) + 1 \in 2..(n + 1) /\ n + ((i - n) + 1) - 1 = i
          BY <3>2
        <4> QED
          BY <2>1, <2>3, <4>1
      <3> QED
        BY <3>1, <3>2
    <2>5. u = v
      BY <1>1, <2>1, <2>3, <2>4, SameHistory
    <2> QED
      BY <1>2, <1>3, <2>5 DEF u, v
  <1>7. ASSUME NEW p \in W PROVE \E x \in C : f[x] = p
    <2> DEFINE bits == [i \in 1..m |-> IF i <= n THEN p.a[i] ELSE p.s[(i - n) + 1]]
    <2>1. p.a \in History(n) /\ p.s \in History(n + 1) /\ p.s[1] = b.initial
      BY WalkFacts
    <2>2. ASSUME NEW i \in 1..m PROVE (IF i <= n THEN p.a[i] ELSE p.s[(i - n) + 1]) \in Bit
      <3>1. CASE i <= n
        <4>1. i \in 1..n
          BY <3>1
        <4> QED
          BY <2>1, <3>1, <4>1 DEF History
      <3>2. CASE ~(i <= n)
        <4>1. (i - n) + 1 \in 1..(n + 1)
          BY <3>2
        <4> QED
          BY <2>1, <3>2, <4>1 DEF History
      <3> QED
        BY <3>1, <3>2
    <2>3. bits \in History(m)
      BY <2>2 DEF History
    <2>4. \A i \in 1..m : bits[i] = IF i <= n THEN p.a[i] ELSE p.s[(i - n) + 1]
      OBVIOUS
    <2> HIDE DEF bits
    <2>5. PICK x \in C : PathOf(m, x) = bits
      BY <1>2, <1>3, <2>3
    <2> DEFINE q == CodedPath(b, n, x)
    <2>6. /\ q \in W /\ (\A t \in 1..n : q.a[t] = bits[t])
          /\ \A t \in 2..(n + 1) : q.s[t] = bits[n + t - 1]
      BY <2>5, CodedPathIs
    <2> HIDE DEF q
    <2>7. \A t \in 1..n : q.a[t] = p.a[t]
      <3>1. \A t \in 1..n : t \in 1..m /\ t <= n
        OBVIOUS
      <3> QED
        BY <2>4, <2>6, <3>1
    <2>8. ASSUME NEW t \in 1..(n + 1) PROVE q.s[t] = p.s[t]
      <3>1. CASE t = 1
        BY <2>1, <2>6, <3>1, WalkFacts
      <3>2. CASE t # 1
        <4>1. t \in 2..(n + 1) /\ n + t - 1 \in 1..m /\ ~(n + t - 1 <= n) /\ ((n + t - 1) - n) + 1 = t
          BY <3>2
        <4>2. q.s[t] = bits[n + t - 1]
          BY <2>6, <4>1
        <4> QED
          BY <2>4, <4>1, <4>2
      <3> QED
        BY <3>1, <3>2
    <2>9. q = p
      BY <2>6, <2>7, <2>8, SameWalk
    <2> QED
      BY <1>4, <2>9 DEF q
  <1> HIDE DEF C, W, f
  <1>8. f \in Bijection(C, W)
    BY <1>5, <1>6, <1>7, BijectionIs
  <1> QED
    BY <1>1, <1>5, <1>8 DEF C, W, f

\* A sum over the codes of all walks is one over the walks.
LEMMA CodeSum ==
  ASSUME NEW b, NEW n, Known(b, n), NEW F, F \in [Walks(b, n) -> Int],
         NEW f, f = [c \in PathCodes(n) |-> PathWeight(b, n, CodedPath(b, n, c)) * F[CodedPath(b, n, c)]]
  PROVE  f \in [PathCodes(n) -> Int] /\ SumFunction(f) = WalkSum(b, n, F)
  <1> DEFINE C == PathCodes(n)
             D == Walks(b, n)
             w == CodeWalk(b, n)
             g == [p \in D |-> PathWeight(b, n, p) * F[p]]
  <1>1. b.initial \in Bit /\ n \in Nat
    BY KnownIs
  <1>2. w \in Bijection(C, D) /\ IsFiniteSet(C) /\ w \in [C -> D]
    BY <1>1, CodeWalkIsBijection
  <1>3. \A c \in C : w[c] = CodedPath(b, n, c)
    BY DEF CodeWalk
  <1>4. D = Walks(b, n) /\ F \in [D -> Int] /\ g = [p \in D |-> PathWeight(b, n, p) * F[p]]
    OBVIOUS
  <1> HIDE DEF C, D, g, w
  <1>5. /\ g \in [D -> Int] /\ WalkSum(b, n, F) = SumFunction(g)
        /\ \A p \in D : g[p] = PathWeight(b, n, p) * F[p]
    BY <1>4, WalkSumIs
  <1>6. f = [c \in C |-> g[w[c]]]
    BY <1>2, <1>3, <1>5 DEF C
  <1>7. f \in [C -> Int] /\ \A c \in C : f[c] = g[w[c]]
    BY <1>2, <1>5, <1>6
  <1>8. SumFunction(g) = SumFunction(f)
    BY ONLY <1>2, <1>5, <1>7, SumRename
  <1> QED
    BY <1>5, <1>7, <1>8 DEF C

Row(b, c) ==
  [code |-> c, path |-> CodedPath(b, b.horizon, c),
   weight |-> PathWeight(b, b.horizon, CodedPath(b, b.horizon, c)),
   reward |-> PathReward(b, CodedPath(b, b.horizon, c)),
   scores |-> [j \in Logit |-> PathScore(b, b.horizon, CodedPath(b, b.horizon, c), j)]]

\* The walks that can happen.
Live(b) == {p \in Walks(b, b.horizon) : PathWeight(b, b.horizon, p) > 0}

LEMMA RowsAre ==
  ASSUME NEW b
  PROVE  Enumerated(b) = {r \in {Row(b, c) : c \in PathCodes(b.horizon)} : r.weight > 0}
  BY DEF Enumerated, Row

LEMMA RowFacts ==
  ASSUME NEW b, IsBucket(b), NEW r \in Enumerated(b)
  PROVE  /\ r.code \in PathCodes(b.horizon) /\ r = Row(b, r.code)
         /\ r.path = CodedPath(b, b.horizon, r.code)
         /\ r.path \in Live(b) /\ r.path \in Walks(b, b.horizon)
         /\ r.weight = PathWeight(b, b.horizon, r.path) /\ r.weight \in Nat \ {0}
         /\ r.reward = PathReward(b, r.path)
         /\ r.scores \in [Logit -> Int]
         /\ \A j \in Logit : r.scores[j] = PathScore(b, b.horizon, r.path, j)
  <1> DEFINE h == b.horizon
  <1>1. b.initial \in Bit /\ h \in Nat /\ Known(b, h)
    BY BucketIs DEF Known
  <1>2. PICK c \in PathCodes(h) : r = Row(b, c) /\ r.weight > 0
    BY RowsAre
  <1>3. /\ r.code = c /\ r.path = CodedPath(b, h, c)
        /\ r.weight = PathWeight(b, h, CodedPath(b, h, c))
        /\ r.reward = PathReward(b, CodedPath(b, h, c))
        /\ r.scores = [j \in Logit |-> PathScore(b, h, CodedPath(b, h, c), j)]
    BY <1>2 DEF Row
  <1>4. r.path \in Walks(b, h)
    BY <1>1, <1>3, CodedPathIs
  <1>5. r.weight \in Nat
    BY <1>1, <1>3, <1>4, KnownIs
  <1>6. \A j \in Logit : PathScore(b, h, r.path, j) \in Int
    BY <1>1, <1>4, ScoreType
  <1>7. r.path \in Live(b)
    BY <1>2, <1>3, <1>4 DEF Live
  <1> QED
    BY <1>2, <1>3, <1>4, <1>5, <1>6, <1>7

PathsOf(b) == [r \in Enumerated(b) |-> r.path]

LEMMA RowsByPath ==
  ASSUME NEW b, IsBucket(b)
  PROVE  PathsOf(b) \in Bijection(Enumerated(b), Live(b)) /\ PathsOf(b) \in [Enumerated(b) -> Live(b)]
  <1> DEFINE e == Enumerated(b)
             f == PathsOf(b)
             h == b.horizon
             w == CodeWalk(b, h)
  <1>1. b.initial \in Bit /\ h \in Nat
    BY BucketIs
  <1>2. /\ w \in [PathCodes(h) -> Walks(b, h)]
        /\ \A x, y \in PathCodes(h) : w[x] = w[y] => x = y
        /\ \A z \in Walks(b, h) : \E x \in PathCodes(h) : w[x] = z
    BY <1>1, CodeWalkIsBijection, BijectionIs
  <1>3. \A c \in PathCodes(h) : w[c] = CodedPath(b, h, c)
    BY DEF CodeWalk
  <1> HIDE DEF w
  <1>4. f \in [e -> Live(b)] /\ \A r \in e : f[r] = r.path
    BY RowFacts DEF PathsOf
  <1>5. ASSUME NEW r \in e, NEW s \in e, f[r] = f[s] PROVE r = s
    <2>1. r.code \in PathCodes(h) /\ s.code \in PathCodes(h) /\ w[r.code] = w[s.code]
      BY <1>3, <1>4, <1>5, RowFacts
    <2>2. r.code = s.code
      BY <1>2, <2>1
    <2>3. r = Row(b, r.code) /\ s = Row(b, s.code)
      BY RowFacts
    <2> QED
      BY <2>2, <2>3
  <1>6. ASSUME NEW p \in Live(b) PROVE \E r \in e : f[r] = p
    <2>1. p \in Walks(b, h) /\ PathWeight(b, h, p) > 0
      BY DEF Live
    <2>2. PICK c \in PathCodes(h) : w[c] = p
      BY <1>2, <2>1
    <2> DEFINE r == Row(b, c)
    <2>3. r.path = p /\ r.weight = PathWeight(b, h, p)
      BY <1>3, <2>2 DEF Row
    <2>4. r \in {Row(b, x) : x \in PathCodes(h)}
      BY <2>2
    <2> HIDE DEF r
    <2>5. r \in e
      BY <2>1, <2>3, <2>4, RowsAre
    <2> QED
      BY <1>4, <2>3, <2>5
  <1> HIDE DEF e, f
  <1>7. f \in Bijection(e, Live(b))
    BY <1>4, <1>5, <1>6, BijectionIs
  <1> QED
    BY <1>4, <1>7 DEF e, f

LEMMA EnumeratedFinite == ASSUME NEW b, IsBucket(b) PROVE IsFiniteSet(Enumerated(b))
  <1> DEFINE f == PathsOf(b)
             e == Enumerated(b)
             L == Live(b)
  <1>1. f \in Injection(e, L)
    BY RowsByPath DEF Bijection
  <1>2. IsFiniteSet(L)
    <2>1. b.initial \in Bit /\ b.horizon \in Nat
      BY BucketIs
    <2>2. IsFiniteSet(Walks(b, b.horizon)) /\ L \subseteq Walks(b, b.horizon)
      BY <2>1, WalksFinite DEF Live
    <2> QED
      BY <2>2, FS_Subset
  <1> HIDE DEF f, e, L
  <1>3. IsFiniteSet(e)
    BY <1>1, <1>2, FS_Injection
  <1> QED
    BY <1>3 DEF e

\* A sum over the rows is one over all walks: the rest have no weight.
LEMMA EnumSum ==
  ASSUME NEW b, IsBucket(b), NEW F, F \in [Walks(b, b.horizon) -> Int],
         NEW g, g = [r \in Enumerated(b) |-> g[r]],
         \A r \in Enumerated(b) : g[r] = r.weight * F[r.path]
  PROVE  g \in [Enumerated(b) -> Int] /\ SumFunction(g) = WalkSum(b, b.horizon, F)
  <1> DEFINE h == b.horizon
             D == Walks(b, h)
             e == Enumerated(b)
             L == Live(b)
             w == PathsOf(b)
             f == [p \in D |-> PathWeight(b, h, p) * F[p]]
             k == [p \in L |-> f[p]]
  <1>1. Known(b, h)
    BY BucketIs DEF Known
  <1>2. D = Walks(b, h) /\ F \in [D -> Int] /\ f = [p \in D |-> PathWeight(b, h, p) * F[p]]
    OBVIOUS
  <1> HIDE DEF D, f
  <1>3. /\ IsFiniteSet(D) /\ f \in [D -> Int] /\ WalkSum(b, h, F) = SumFunction(f)
        /\ \A p \in D : f[p] = PathWeight(b, h, p) * F[p]
    BY <1>1, <1>2, WalkSumIs
  <1>4. L \subseteq D /\ \A p \in D : p \notin L => PathWeight(b, h, p) = 0
    <2>1. \A p \in D : PathWeight(b, h, p) \in Nat
      BY <1>1, <1>2, KnownIs
    <2>2. \A p : p \in L <=> p \in D /\ PathWeight(b, h, p) > 0
      BY <1>2 DEF Live
    <2> HIDE DEF L
    <2> QED
      BY <2>1, <2>2
  <1>5. k \in [L -> Int] /\ \A p \in L : k[p] = f[p]
    BY <1>3, <1>4
  <1>6. \A p \in D : p \notin L => f[p] = 0
    <2>1. \A u \in Int : 0 * u = 0
      OBVIOUS
    <2> QED
      BY <1>2, <1>3, <1>4, <2>1
  <1> HIDE DEF L, k
  <1>7. IsFiniteSet(L) /\ SumFunction(f) = SumFunction(k)
    BY ONLY <1>3, <1>4, <1>5, <1>6, SumPadded
  <1>8. w \in Bijection(e, L) /\ w \in [e -> L] /\ IsFiniteSet(e)
    BY RowsByPath, EnumeratedFinite DEF L
  <1>9. \A r \in e : w[r] = r.path
    BY DEF PathsOf
  <1>10. ASSUME NEW r \in e PROVE g[r] = k[w[r]] /\ g[r] \in Int
    <2>1. r.weight = PathWeight(b, h, r.path) /\ w[r] = r.path /\ w[r] \in L /\ w[r] \in D
      BY <1>4, <1>8, <1>9, RowFacts
    <2>2. g[r] = r.weight * F[r.path]
      OBVIOUS
    <2>3. k[w[r]] = PathWeight(b, h, w[r]) * F[w[r]]
      BY <1>3, <1>5, <2>1
    <2>4. k[w[r]] \in Int
      BY <1>5, <2>1
    <2> QED
      BY <2>1, <2>2, <2>3, <2>4
  <1> HIDE DEF e, w
  <1>11. g \in [e -> Int]
    BY <1>10 DEF e
  <1>12. \A r \in e : g[r] = k[w[r]]
    BY <1>10
  <1>13. SumFunction(k) = SumFunction(g)
    BY ONLY <1>5, <1>8, <1>11, <1>12, SumRename
  <1> QED
    BY <1>3, <1>7, <1>11, <1>13 DEF e

-----------------------------------------------------------------------------
(* The gradient of a bucket *)

\* The logit that both states of a focal step share, and the rewards by parts.
Chanced(b, t) == ActionProb(b, t, 0)
Centered(b, a) == [t \in b.noise |-> a[t] * Unit - Chanced(b, t)]
Plain(b, a) == [t \in Times(b) \ b.noise |-> 2 * a[t] - 1]

LEMMA FocalRewardIs ==
  ASSUME NEW b, IsBucket(b), Focal(b), NEW a, a \in History(b.horizon)
  PROVE  /\ Centered(b, a) \in [b.noise -> Int] /\ Plain(b, a) \in [Times(b) \ b.noise -> Int]
         /\ IsFiniteSet(b.noise) /\ IsFiniteSet(Times(b) \ b.noise)
         /\ NoiseWeight \in Int /\ NoiseUnit(b) \in Nat \ {0}
         /\ ProductOf(Centered(b, a)) \in Int /\ SumFunction(Plain(b, a)) \in Int
         /\ FocalReward(b, a) = NoiseWeight * ProductOf(Centered(b, a))
                                  + NoiseUnit(b) * SumFunction(Plain(b, a))
         /\ FocalReward(b, a) \in Int
         /\ \A t \in Times(b), s \in Bit : ActionProb(b, t, s) = Chanced(b, t)
  <1> DEFINE T == Times(b)
  <1>1. /\ T = 1..b.horizon /\ b.horizon \in Nat \ {0} /\ b.noise \subseteq T /\ IsFiniteSet(b.noise)
        /\ b.initial \in Bit /\ Unit \in Nat \ {0, 1} /\ \A t \in T, s \in Bit : b.map[t][s] = b.map[t][0]
    BY BucketIs
  <1>2. IsFiniteSet(T \ b.noise)
    <2>1. IsFiniteSet(1..b.horizon)
      BY <1>1, FS_Interval
    <2> QED
      BY <1>1, <2>1, FS_Subset
  <1>3. \A t \in T, s \in Bit : ActionProb(b, t, s) = Chanced(b, t)
    BY <1>1 DEF Chanced, ActionProb, Bit
  <1>4. \A t \in T : Chanced(b, t) \in Int
    BY TakesFacts DEF Chanced, Bit
  <1>5. \A t \in T : a[t] \in Bit /\ a[t] \in Int
    BY <1>1 DEF History, Bit
  <1>6. Centered(b, a) \in [b.noise -> Int]
    <2>1. \A t \in b.noise : a[t] * Unit - Chanced(b, t) \in Int
      <3> TAKE t \in b.noise
      <3>1. a[t] \in Int /\ Chanced(b, t) \in Int /\ Unit \in Int
        BY <1>1, <1>4, <1>5
      <3> QED
        BY ONLY <3>1
    <2> QED
      BY <2>1 DEF Centered
  <1>7. Plain(b, a) \in [T \ b.noise -> Int]
    BY <1>5 DEF Plain
  <1>8. Cardinality(b.noise) \in Nat
    BY <1>1, FS_CardinalityType
  <1>9. NoiseUnit(b) \in Nat \ {0}
    BY <1>1, <1>8, PowerPositive DEF NoiseUnit
  <1>10. ProductOf(Centered(b, a)) \in Int /\ SumFunction(Plain(b, a)) \in Int
    BY <1>1, <1>2, <1>6, <1>7, ProductType, SumType
  <1> DEFINE state(t) == IF t = 1 THEN b.initial ELSE a[t - 1]
  <1>11. [t \in b.noise |-> a[t] * Unit - ActionProb(b, t, state(t))] = Centered(b, a)
    <2>1. ASSUME NEW t \in b.noise PROVE ActionProb(b, t, state(t)) = Chanced(b, t)
      <3>1. t \in T /\ state(t) \in Bit
        BY <1>1, <1>5
      <3> HIDE DEF state
      <3> QED
        BY <1>3, <3>1
    <2> HIDE DEF state
    <2> QED
      BY <2>1 DEF Centered
  <1>12. FocalReward(b, a) = NoiseWeight * ProductOf(Centered(b, a))
                              + NoiseUnit(b) * SumFunction(Plain(b, a))
    BY <1>11 DEF FocalReward, Plain
  <1>13. NoiseWeight \in Int
    BY NoiseAssumption
  <1>14. FocalReward(b, a) \in Int
    <2>1. \A u, v, w, z \in Int : u * v + w * z \in Int
      OBVIOUS
    <2>2. NoiseUnit(b) \in Int
      BY <1>9
    <2> QED
      BY ONLY <1>10, <1>12, <1>13, <2>1, <2>2
  <1> HIDE DEF T
  <1> QED
    BY <1>1, <1>2, <1>3, <1>6, <1>7, <1>9, <1>10, <1>12, <1>13, <1>14 DEF T

LEMMA RewardType ==
  ASSUME NEW b, IsBucket(b), NEW p \in Walks(b, b.horizon)
  PROVE  PathReward(b, p) \in Int
  <1>1. b.horizon \in Nat \ {0} /\ b.horizon \in 1..b.horizon /\ b.horizon \in Nat
    BY BucketIs
  <1>2. /\ p.a \in History(b.horizon)
        /\ \A t \in 1..b.horizon : p.a[t] \in Bit /\ p.s[t] \in Bit /\ p.s[t + 1] \in Bit
    BY <1>1, WalkFacts
  <1>3. CASE Focal(b)
    BY <1>2, <1>3, FocalRewardIs DEF PathReward
  <1>4. CASE ~Focal(b)
    <2>1. Terminal(b, p) \in Int
      BY <1>1, <1>2, BucketIs DEF Terminal
    <2> QED
      BY <1>4, <2>1 DEF PathReward
  <1> QED
    BY <1>3, <1>4

\* What a walk pays to logit j.
Gain(b, j) == [p \in Walks(b, b.horizon) |-> PathReward(b, p) * PathScore(b, b.horizon, p, j)]

LEMMA GainIs ==
  ASSUME NEW b, IsBucket(b), NEW j \in Logit
  PROVE  /\ Gain(b, j) \in [Walks(b, b.horizon) -> Int]
         /\ \A p \in Walks(b, b.horizon) :
              /\ PathReward(b, p) \in Int /\ PathScore(b, b.horizon, p, j) \in Int
              /\ Gain(b, j)[p] = PathReward(b, p) * PathScore(b, b.horizon, p, j)
  <1>1. b.horizon \in Nat
    BY BucketIs
  <1>2. \A p \in Walks(b, b.horizon) : PathReward(b, p) \in Int /\ PathScore(b, b.horizon, p, j) \in Int
    BY <1>1, RewardType, ScoreType
  <1>3. \A u, v \in Int : u * v \in Int
    OBVIOUS
  <1> QED
    BY <1>2, <1>3 DEF Gain

\* Enumerating the rows gives the gradient of the walks.
LEMMA SharedGradientIs ==
  ASSUME NEW b, IsBucket(b)
  PROVE  /\ SharedGradient(b) \in [Logit -> Int]
         /\ \A j \in Logit : SharedGradient(b)[j] = WalkSum(b, b.horizon, Gain(b, j))
  <1> DEFINE e == Enumerated(b)
             D == Walks(b, b.horizon)
  <1>1. SharedGradient(b) = [j \in Logit |-> SumFunction([r \in e |-> r.weight * r.reward * r.scores[j]])]
    BY DEF SharedGradient
  <1>2. ASSUME NEW j \in Logit
        PROVE  /\ SumFunction([r \in e |-> r.weight * r.reward * r.scores[j]])
                    = WalkSum(b, b.horizon, Gain(b, j))
               /\ SumFunction([r \in e |-> r.weight * r.reward * r.scores[j]]) \in Int
    <2> DEFINE g == [r \in e |-> r.weight * r.reward * r.scores[j]]
               F == Gain(b, j)
    <2>1. F \in [D -> Int]
      BY GainIs
    <2>2. g = [r \in e |-> g[r]]
      OBVIOUS
    <2>3. ASSUME NEW r \in e PROVE g[r] = r.weight * F[r.path]
      <3>1. /\ r.weight \in Nat \ {0} /\ r.path \in D /\ r.reward = PathReward(b, r.path)
            /\ r.scores[j] = PathScore(b, b.horizon, r.path, j)
        BY RowFacts
      <3>2. /\ F[r.path] = r.reward * r.scores[j] /\ r.reward \in Int /\ r.scores[j] \in Int
        BY <3>1, GainIs
      <3>3. g[r] = r.weight * r.reward * r.scores[j]
        OBVIOUS
      <3>4. \A u, v, w \in Int : u * v * w = u * (v * w)
        OBVIOUS
      <3>5. r.weight \in Int
        BY <3>1
      <3> HIDE DEF g, F, e, D
      <3> QED
        BY ONLY <3>2, <3>3, <3>4, <3>5
    <2> HIDE DEF g, F
    <2>4. g \in [e -> Int] /\ SumFunction(g) = WalkSum(b, b.horizon, F)
      BY <2>1, <2>2, <2>3, EnumSum
    <2>5. SumFunction(g) \in Int
      BY <2>4, EnumeratedFinite, SumType
    <2> QED
      BY <2>4, <2>5 DEF g, F
  <1> HIDE DEF e
  <1> QED
    BY <1>1, <1>2

\* So does enumerating the paths, with the reward from their states.
LEMMA SharedEnumerationIs ==
  ASSUME NEW b, IsBucket(b) PROVE SharedEnumeration(b) = SharedGradient(b)
  <1> DEFINE h == b.horizon
             D == Walks(b, h)
             started == {p \in [a : [1..h -> Bit], s : [1..(h + 1) -> Bit]] : p.s[1] = b.initial}
             noise(p) == NoiseWeight
                           * ProductOf([t \in b.noise |-> p.a[t] * Unit - b.logit[b.map[t][p.s[t]]]])
             reward(p) == IF Focal(b)
                            THEN noise(p)
                                   + NoiseUnit(b) * SumFunction([t \in Times(b) \ b.noise |-> 2 * p.a[t] - 1])
                            ELSE Terminal(b, p)
             weighted == [p \in started |-> PathWeight(b, h, p) * reward(p)]
             S == {p \in started : weighted[p] # 0}
             total(j) == SumFunction([p \in S |-> weighted[p] * PathScore(b, h, p, j)])
  <1>1. SharedEnumeration(b) = [j \in Logit |-> total(j)]
    BY DEF SharedEnumeration
  <1>2. h \in Nat \ {0} /\ h \in Nat /\ Times(b) = 1..h /\ Known(b, h) /\ b.noise \subseteq Times(b)
    BY BucketIs DEF Known
  <1>3. started = D
    BY DEF Walks, History
  <1>4. ASSUME NEW p \in D PROVE reward(p) = PathReward(b, p)
    <2>1. CASE ~Focal(b)
      BY <2>1 DEF PathReward
    <2>2. CASE Focal(b)
      <3>1. p.a \in History(h) /\ \A t \in 1..h : p.s[t] \in Bit
        BY <1>2, WalkFacts
      <3>2. /\ FocalReward(b, p.a) = NoiseWeight * ProductOf(Centered(b, p.a))
                                       + NoiseUnit(b) * SumFunction(Plain(b, p.a))
            /\ \A t \in Times(b), s \in Bit : ActionProb(b, t, s) = Chanced(b, t)
        BY <2>2, <3>1, FocalRewardIs
      <3>3. \A t \in b.noise : b.logit[b.map[t][p.s[t]]] = Chanced(b, t)
        <4>1. \A t \in b.noise : ActionProb(b, t, p.s[t]) = Chanced(b, t)
          BY <1>2, <3>1, <3>2
        <4> QED
          BY <4>1 DEF ActionProb
      <3>4. [t \in b.noise |-> p.a[t] * Unit - b.logit[b.map[t][p.s[t]]]] = Centered(b, p.a)
        BY <3>3 DEF Centered
      <3>5. reward(p) = FocalReward(b, p.a)
        BY <2>2, <3>2, <3>4 DEF Plain
      <3> QED
        BY <2>2, <3>5 DEF PathReward
    <2> QED
      BY <2>1, <2>2
  <1> HIDE DEF reward
  <1>5. \A p \in D : weighted[p] = PathWeight(b, h, p) * PathReward(b, p)
    BY <1>3, <1>4
  <1>6. S = {p \in D : weighted[p] # 0}
    BY <1>3
  <1> HIDE DEF weighted, started
  <1>7. ASSUME NEW j \in Logit PROVE total(j) = SharedGradient(b)[j]
    <2> DEFINE F == Gain(b, j)
               f == [p \in D |-> PathWeight(b, h, p) * F[p]]
               g == [p \in S |-> weighted[p] * PathScore(b, h, p, j)]
    <2>1. D = Walks(b, h) /\ F \in [D -> Int] /\ f = [p \in D |-> PathWeight(b, h, p) * F[p]]
      BY GainIs
    <2> HIDE DEF f
    <2>2. /\ IsFiniteSet(D) /\ f \in [D -> Int] /\ WalkSum(b, h, F) = SumFunction(f)
          /\ \A p \in D : f[p] = PathWeight(b, h, p) * F[p] /\ PathWeight(b, h, p) \in Int
      BY <1>2, <2>1, WalkSumIs
    <2>3. ASSUME NEW p \in D
          PROVE  /\ f[p] = weighted[p] * PathScore(b, h, p, j) /\ weighted[p] \in Int
                 /\ PathScore(b, h, p, j) \in Int
      <3>1. /\ PathReward(b, p) \in Int /\ PathScore(b, h, p, j) \in Int
            /\ F[p] = PathReward(b, p) * PathScore(b, h, p, j)
        BY GainIs
      <3>2. f[p] = PathWeight(b, h, p) * F[p] /\ PathWeight(b, h, p) \in Int
        BY <2>2
      <3>3. weighted[p] = PathWeight(b, h, p) * PathReward(b, p)
        BY <1>5
      <3>4. \A u, v, w \in Int : u * (v * w) = (u * v) * w /\ u * v \in Int
        OBVIOUS
      <3> HIDE DEF F, h
      <3> QED
        BY ONLY <3>1, <3>2, <3>3, <3>4
    <2>4. S \subseteq D
      BY <1>6
    <2>5. \A p \in S : g[p] = f[p]
      BY <2>3, <2>4
    <2>6. g \in [S -> Int]
      BY <2>2, <2>4, <2>5
    <2>7. \A p \in D : p \notin S => f[p] = 0
      <3>1. \A p \in D : p \notin S => weighted[p] = 0
        BY <1>6
      <3>2. \A u \in Int : 0 * u = 0
        OBVIOUS
      <3> QED
        BY <2>3, <3>1, <3>2
    <2> HIDE DEF g, F, S, D
    <2>8. SumFunction(f) = SumFunction(g)
      BY ONLY <2>2, <2>4, <2>5, <2>6, <2>7, SumPadded
    <2>9. SharedGradient(b)[j] = WalkSum(b, h, F)
      BY SharedGradientIs DEF F
    <2> QED
      BY <2>2, <2>8, <2>9 DEF g
  <1>8. SharedGradient(b) = [j \in Logit |-> SharedGradient(b)[j]]
    BY SharedGradientIs
  <1> HIDE DEF total
  <1> QED
    BY <1>1, <1>7, <1>8

\* So does dynamic programming, on a general bucket.
LEMMA BellmanGeneral ==
  ASSUME NEW b, IsBucket(b), ~Focal(b) PROVE SharedBellman(b) = SharedGradient(b)
  <1>1. SharedBellman(b) = GradientFrom(b, 1, b.initial)
    BY DEF SharedBellman
  <1>2. ASSUME NEW j \in Logit PROVE SharedGradient(b)[j] = GradientFrom(b, 1, b.initial)[j]
    <2> DEFINE F == [p \in Walks(b, b.horizon) |-> Terminal(b, p) * PathScore(b, b.horizon, p, j)]
    <2>1. Gain(b, j) = F
      BY DEF Gain, PathReward
    <2>2. WalkSum(b, b.horizon, F) = GradientFrom(b, 1, b.initial)[j]
      BY GeneralGradient
    <2> QED
      BY <2>1, <2>2, SharedGradientIs
  <1>3. SharedGradient(b) = [j \in Logit |-> SharedGradient(b)[j]]
    BY SharedGradientIs
  <1>4. GradientFrom(b, 1, b.initial) = [j \in Logit |-> GradientFrom(b, 1, b.initial)[j]]
    BY DEF GradientFrom
  <1> QED
    BY <1>1, <1>2, <1>3, <1>4

-----------------------------------------------------------------------------
(* The optimal constant *)

LEMMA ConstantUnbiased ==
  ASSUME NEW b, IsBucket(b), NEW j \in Logit
  PROVE  OptimalConstantMean(b)[j].mean = SharedGradient(b)[j] * OptimalConstantMean(b)[j].over
  <1> DEFINE e == Enumerated(b)
             D == Walks(b, b.horizon)
             square(r, i) == r.weight * (r.scores[i] * r.scores[i])
             den == [i \in Logit |-> SumFunction([r \in e |-> square(r, i)])]
             num == [i \in Logit |-> SumFunction([r \in e |-> square(r, i) * r.reward])]
             g == [r \in e |-> r.weight * ((r.reward * den[j] - num[j]) * r.scores[j])]
             x == den[j]
             y == num[j]
             F == Gain(b, j)
             S == [p \in D |-> PathScore(b, b.horizon, p, j)]
             K == [p \in D |-> (PathReward(b, p) * x - y) * PathScore(b, b.horizon, p, j)]
  <1>1. OptimalConstantMean(b)[j].mean = SumFunction(g) /\ OptimalConstantMean(b)[j].over = x
    BY DEF OptimalConstantMean
  <1>2. \A r \in e : /\ r.weight \in Int /\ r.path \in D /\ r.reward = PathReward(b, r.path)
                     /\ r.scores[j] = PathScore(b, b.horizon, r.path, j)
                     /\ r.scores[j] \in Int /\ r.reward \in Int
    BY RowFacts, RewardType
  <1>3. \A r \in e : square(r, j) \in Int /\ square(r, j) * r.reward \in Int
    <2>1. \A u, v, w \in Int : u * (v * v) \in Int /\ (u * (v * v)) * w \in Int
      OBVIOUS
    <2> HIDE DEF e
    <2> QED
      BY <1>2, <2>1
  <1>4. IsFiniteSet(e)
    BY EnumeratedFinite
  <1> HIDE DEF square, e, D
  <1>5. x \in Int /\ y \in Int
    <2>1. x = SumFunction([r \in e |-> square(r, j)]) /\ y = SumFunction([r \in e |-> square(r, j) * r.reward])
      OBVIOUS
    <2>2. [r \in e |-> square(r, j)] \in [e -> Int] /\ [r \in e |-> square(r, j) * r.reward] \in [e -> Int]
      BY <1>3
    <2> HIDE DEF x, y
    <2> QED
      BY <1>4, <2>1, <2>2, SumType
  <1>6. \A r \in e : g[r] = r.weight * ((r.reward * x - y) * r.scores[j])
    OBVIOUS
  <1>7. g = [r \in e |-> g[r]]
    OBVIOUS
  <1> HIDE DEF x, y, g
  <1>8. /\ F \in [D -> Int] /\ S \in [D -> Int] /\ WalkSum(b, b.horizon, S) = 0
        /\ \A p \in D : /\ F[p] = PathReward(b, p) * PathScore(b, b.horizon, p, j)
                        /\ PathReward(b, p) \in Int /\ PathScore(b, b.horizon, p, j) \in Int
    BY GainIs, MeanScore DEF D
  <1>9. ASSUME NEW p \in D PROVE K[p] = x * F[p] + (0 - y) * S[p] /\ K[p] \in Int
    <2>1. K[p] = (PathReward(b, p) * x - y) * PathScore(b, b.horizon, p, j)
      OBVIOUS
    <2>2. S[p] = PathScore(b, b.horizon, p, j)
      OBVIOUS
    <2>3. PathReward(b, p) \in Int /\ PathScore(b, b.horizon, p, j) \in Int
          /\ F[p] = PathReward(b, p) * PathScore(b, b.horizon, p, j)
      BY <1>8
    <2> HIDE DEF K, S, F
    <2> DEFINE R == PathReward(b, p)
               s == PathScore(b, b.horizon, p, j)
    <2>4. R \in Int /\ s \in Int /\ K[p] = (R * x - y) * s /\ S[p] = s /\ F[p] = R * s
      BY <2>1, <2>2, <2>3
    <2> HIDE DEF R, s
    <2>5. (R * x - y) * s = x * (R * s) + (0 - y) * s /\ (R * x - y) * s \in Int
      BY ONLY <1>5, <2>4
    <2> QED
      BY ONLY <2>4, <2>5
  <1>10. K \in [D -> Int]
    BY <1>9
  <1> HIDE DEF K, F, S
  <1>11. Combines(D, F, S, x, 0 - y, K)
    BY <1>5, <1>8, <1>9, <1>10 DEF Combines
  <1>12. Known(b, b.horizon)
    BY BucketIs DEF Known
  <1>13. /\ WalkSum(b, b.horizon, K) = x * WalkSum(b, b.horizon, F) + (0 - y) * WalkSum(b, b.horizon, S)
         /\ WalkSum(b, b.horizon, F) \in Int
    BY <1>11, <1>12, WalkLinear DEF D
  <1>14. ASSUME NEW r \in e PROVE g[r] = r.weight * K[r.path]
    <2>1. /\ r.path \in D /\ r.reward = PathReward(b, r.path)
          /\ r.scores[j] = PathScore(b, b.horizon, r.path, j)
      BY <1>2
    <2>2. K[r.path] = (r.reward * x - y) * r.scores[j]
      BY <2>1 DEF K
    <2> QED
      BY <1>6, <2>2
  <1>15. SumFunction(g) = WalkSum(b, b.horizon, K)
    <2>1. g = [r \in Enumerated(b) |-> g[r]] /\ \A r \in Enumerated(b) : g[r] = r.weight * K[r.path]
      BY <1>7, <1>14 DEF e
    <2>2. K \in [Walks(b, b.horizon) -> Int]
      BY <1>10 DEF D
    <2> QED
      BY ONLY IsBucket(b), <2>1, <2>2, EnumSum
  <1>16. SharedGradient(b)[j] = WalkSum(b, b.horizon, F)
    BY SharedGradientIs DEF F
  <1>17. \A u \in Int : x * u + (0 - y) * 0 = u * x
    BY <1>5
  <1> QED
    BY <1>1, <1>8, <1>13, <1>15, <1>16, <1>17

-----------------------------------------------------------------------------
(* The moments of the dense option *)

Square(b, j, k) == [p \in Walks(b, b.horizon) |-> Gain(b, j)[p] * Gain(b, k)[p]]

LEMMA SquareType ==
  ASSUME NEW b, IsBucket(b), NEW j \in Logit, NEW k \in Logit
  PROVE  /\ Square(b, j, k) \in [Walks(b, b.horizon) -> Int]
         /\ \A p \in Walks(b, b.horizon) : /\ Square(b, j, k)[p] = Gain(b, j)[p] * Gain(b, k)[p]
                                           /\ Gain(b, j)[p] \in Int /\ Gain(b, k)[p] \in Int
         /\ WalkSum(b, b.horizon, Square(b, j, k)) \in Int
  <1>1. \A p \in Walks(b, b.horizon) : Gain(b, j)[p] \in Int /\ Gain(b, k)[p] \in Int
    BY GainIs
  <1>2. \A u, v \in Int : u * v \in Int
    OBVIOUS
  <1>3. Square(b, j, k) \in [Walks(b, b.horizon) -> Int]
    BY <1>1, <1>2 DEF Square
  <1>4. Known(b, b.horizon)
    BY BucketIs DEF Known
  <1> QED
    BY <1>1, <1>3, <1>4, WalkSumType DEF Square

\* The outcome of a row is its weight and the gains of its walk.
LEMMA DenseOutcome ==
  ASSUME NEW b, IsBucket(b), NEW r \in Enumerated(b)
  PROVE  /\ DenseCycle(b)[r].weight = r.weight /\ DOMAIN DenseCycle(b)[r].vector = Logit
         /\ \A j \in Logit : /\ DenseCycle(b)[r].vector[j] = Gain(b, j)[r.path]
                             /\ Gain(b, j)[r.path] \in Int
         /\ r.weight \in Nat \ {0} /\ r.weight \in Int
  <1>1. /\ r.path \in Walks(b, b.horizon) /\ r.reward = PathReward(b, r.path)
        /\ r.scores \in [Logit -> Int] /\ r.weight \in Nat \ {0} /\ r.weight \in Int
        /\ \A j \in Logit : r.scores[j] = PathScore(b, b.horizon, r.path, j)
    BY RowFacts
  <1>2. DenseCycle(b)[r] = [weight |-> r.weight, vector |-> [j \in Logit |-> r.reward * r.scores[j]]]
    BY <1>1 DEF DenseCycle, Times3
  <1>3. \A j \in Logit : /\ Gain(b, j)[r.path] = r.reward * r.scores[j]
                         /\ Gain(b, j)[r.path] \in Int
    BY <1>1, GainIs
  <1> QED
    BY <1>1, <1>2, <1>3

LEMMA DenseFirst == ASSUME NEW b, IsBucket(b) PROVE FirstMoment(DenseCycle(b)) = SharedGradient(b)
  <1> DEFINE out == DenseCycle(b)
             e == Enumerated(b)
  <1>1. FirstMoment(out) = [j \in Logit |-> SumFunction([r \in e |-> out[r].weight * out[r].vector[j]])]
    BY DEF FirstMoment, DenseCycle
  <1>2. ASSUME NEW j \in Logit
        PROVE  SumFunction([r \in e |-> out[r].weight * out[r].vector[j]]) = SharedGradient(b)[j]
    <2> DEFINE g == [r \in e |-> out[r].weight * out[r].vector[j]]
               F == Gain(b, j)
    <2>1. g = [r \in e |-> g[r]]
      OBVIOUS
    <2>2. ASSUME NEW r \in e PROVE g[r] = r.weight * F[r.path]
      <3>1. out[r].weight = r.weight /\ out[r].vector[j] = Gain(b, j)[r.path]
        BY DenseOutcome
      <3> HIDE DEF out
      <3> QED
        BY <3>1
    <2>3. F \in [Walks(b, b.horizon) -> Int]
      BY GainIs
    <2> HIDE DEF g, F
    <2>4. SumFunction(g) = WalkSum(b, b.horizon, F)
      BY ONLY IsBucket(b), <2>1, <2>2, <2>3, EnumSum
    <2> QED
      BY <2>4, SharedGradientIs DEF g, F
  <1>3. SharedGradient(b) = [j \in Logit |-> SharedGradient(b)[j]]
    BY SharedGradientIs
  <1> HIDE DEF out, e
  <1> QED
    BY <1>1, <1>2, <1>3 DEF out

LEMMA DenseSecond ==
  ASSUME NEW b, IsBucket(b)
  PROVE  /\ SecondMoment(DenseCycle(b)) \in [Logit \X Logit -> Int]
         /\ \A j, k \in Logit :
              SecondMoment(DenseCycle(b))[<<j, k>>] = WalkSum(b, b.horizon, Square(b, j, k))
  <1> DEFINE out == DenseCycle(b)
             e == Enumerated(b)
             m == SecondMoment(out)
  <1>1. m = [jk \in Logit \X Logit |->
               SumFunction([r \in e |-> out[r].weight * (out[r].vector[jk[1]] * out[r].vector[jk[2]])])]
    BY DEF SecondMoment, DenseCycle
  <1>2. \A j, k \in Logit :
          m[<<j, k>>] = SumFunction([r \in e |-> out[r].weight * (out[r].vector[j] * out[r].vector[k])])
    BY <1>1
  <1>3. ASSUME NEW j \in Logit, NEW k \in Logit
        PROVE  m[<<j, k>>] = WalkSum(b, b.horizon, Square(b, j, k)) /\ m[<<j, k>>] \in Int
    <2> DEFINE g == [r \in e |-> out[r].weight * (out[r].vector[j] * out[r].vector[k])]
               F == Square(b, j, k)
    <2>1. g = [r \in e |-> g[r]]
      OBVIOUS
    <2>2. ASSUME NEW r \in e PROVE g[r] = r.weight * F[r.path]
      <3>1. /\ out[r].weight = r.weight /\ out[r].vector[j] = Gain(b, j)[r.path]
            /\ out[r].vector[k] = Gain(b, k)[r.path]
        BY DenseOutcome
      <3>2. F[r.path] = Gain(b, j)[r.path] * Gain(b, k)[r.path]
        BY RowFacts, SquareType
      <3> HIDE DEF out, F
      <3> QED
        BY <3>1, <3>2
    <2>3. F \in [Walks(b, b.horizon) -> Int] /\ WalkSum(b, b.horizon, F) \in Int
      BY SquareType
    <2>4. m[<<j, k>>] = SumFunction(g)
      BY <1>2
    <2> HIDE DEF g, F
    <2>5. SumFunction(g) = WalkSum(b, b.horizon, F)
      BY ONLY IsBucket(b), <2>1, <2>2, <2>3, EnumSum
    <2> QED
      BY <2>3, <2>4, <2>5 DEF F
  <1>4. DOMAIN m = Logit \X Logit
    BY <1>1
  <1>5. m = [jk \in Logit \X Logit |-> m[jk]]
    BY <1>1
  <1> HIDE DEF m
  <1>6. \A jk \in Logit \X Logit : m[jk] \in Int
    <2> TAKE jk \in Logit \X Logit
    <2>1. jk = <<jk[1], jk[2]>> /\ jk[1] \in Logit /\ jk[2] \in Logit
      OBVIOUS
    <2>2. m[<<jk[1], jk[2]>>] \in Int
      BY <1>3, <2>1
    <2> QED
      BY <2>1, <2>2
  <1> QED
    BY <1>3, <1>5, <1>6 DEF m

Repeated(b, d, j, k) == [c \in Walks(b, d) |-> Expected(b, d, c, j) * Expected(b, d, c, k)]

LEMMA RepeatedType ==
  ASSUME NEW b, IsBucket(b), NEW d \in Nat, d <= b.horizon, NEW j \in Logit, NEW k \in Logit
  PROVE  /\ Repeated(b, d, j, k) \in [Walks(b, d) -> Int]
         /\ \A c \in Walks(b, d) : /\ Repeated(b, d, j, k)[c] = Expected(b, d, c, j) * Expected(b, d, c, k)
                                   /\ Expected(b, d, c, j) \in Int /\ Expected(b, d, c, k) \in Int
         /\ WalkSum(b, d, Repeated(b, d, j, k)) \in Int
  <1>1. d \in 0..b.horizon
    BY BucketIs
  <1>2. \A c \in Walks(b, d) : Expected(b, d, c, j) \in Int /\ Expected(b, d, c, k) \in Int
    BY <1>1, WorthType
  <1>3. \A u, v \in Int : u * v \in Int
    OBVIOUS
  <1>4. Repeated(b, d, j, k) \in [Walks(b, d) -> Int]
    BY <1>2, <1>3 DEF Repeated
  <1>5. Known(b, d)
    BY DEF Known
  <1> QED
    BY <1>2, <1>4, <1>5, WalkSumType DEF Repeated

\* E[mu mu^T] over the coded prefixes is the one over the walks of d decisions.
LEMMA MuMuIs ==
  ASSUME NEW b, IsBucket(b), NEW d \in Nat, d < b.horizon, NEW j \in Logit, NEW k \in Logit
  PROVE  MuMu(b, d)[<<j, k>>] = PathScale(b, d) * WalkSum(b, d, Repeated(b, d, j, k))
  <1> DEFINE v == PolicyValue(b)
             from == [s \in Bit |-> GradientFrom(b, d + 1, s)]
             mu(q) == [i \in Logit |->
                         v[d + 1][q.s[d + 1]] * PathScore(b, d, q, i) + from[q.s[d + 1]][i]]
             out == [c \in PathCodes(d) |->
                       LET q == CodedPath(b, d, c)
                       IN [weight |-> PathWeight(b, d, q), vector |-> mu(q)]]
             F == Repeated(b, d, j, k)
             f == [c \in PathCodes(d) |-> PathWeight(b, d, CodedPath(b, d, c)) * F[CodedPath(b, d, c)]]
             g == [c \in PathCodes(d) |-> out[c].weight * (out[c].vector[j] * out[c].vector[k])]
  <1>1. Known(b, d) /\ F \in [Walks(b, d) -> Int] /\ b.initial \in Bit /\ d # b.horizon
    BY RepeatedType, BucketIs DEF Known
  <1>2. SumFunction(f) = WalkSum(b, d, F)
    <2>1. f = [c \in PathCodes(d) |-> PathWeight(b, d, CodedPath(b, d, c)) * F[CodedPath(b, d, c)]]
      OBVIOUS
    <2> HIDE DEF f, F
    <2> QED
      BY <1>1, <2>1, CodeSum
  <1>3. ASSUME NEW q \in Walks(b, d), NEW i \in Logit PROVE mu(q)[i] = Expected(b, d, q, i)
    <2>1. q.s[d + 1] \in Bit
      BY WalkFacts
    <2>2. mu(q)[i] = PolicyValue(b)[d + 1][q.s[d + 1]] * PathScore(b, d, q, i)
                       + GradientFrom(b, d + 1, q.s[d + 1])[i]
      BY <2>1
    <2> HIDE DEF mu
    <2> QED
      BY <1>1, <2>2 DEF Expected, Worth
  <1>4. \A c \in PathCodes(d) : out[c].weight = PathWeight(b, d, CodedPath(b, d, c))
                            /\ out[c].vector = mu(CodedPath(b, d, c))
    OBVIOUS
  <1>5. MuMu(b, d) = Times3(PathScale(b, d), SecondMoment(out))
    BY DEF MuMu
  <1>6. SecondMoment(out) = [jk \in Logit \X Logit |->
          SumFunction([c \in PathCodes(d) |-> out[c].weight * (out[c].vector[jk[1]] * out[c].vector[jk[2]])])]
    BY DEF SecondMoment
  <1> HIDE DEF out, mu
  <1>7. DOMAIN SecondMoment(out) = Logit \X Logit /\ SecondMoment(out)[<<j, k>>] = SumFunction(g)
    BY ONLY <1>6, j \in Logit, k \in Logit DEF g
  <1>8. \A c \in PathCodes(d) : out[c].weight * (out[c].vector[j] * out[c].vector[k])
                              = PathWeight(b, d, CodedPath(b, d, c)) * F[CodedPath(b, d, c)]
    <2> TAKE c \in PathCodes(d)
    <2>1. CodedPath(b, d, c) \in Walks(b, d)
      BY <1>1, CodedPathIs
    <2> DEFINE q == CodedPath(b, d, c)
    <2>2. F[q] = Expected(b, d, q, j) * Expected(b, d, q, k)
      BY <2>1 DEF Repeated
    <2>3. mu(q)[j] = Expected(b, d, q, j) /\ mu(q)[k] = Expected(b, d, q, k)
      BY <1>3, <2>1
    <2>4. out[c].weight = PathWeight(b, d, q) /\ out[c].vector = mu(q)
      BY <1>4
    <2> HIDE DEF F, q
    <2>5. out[c].weight * (out[c].vector[j] * out[c].vector[k]) = PathWeight(b, d, q) * F[q]
      BY ONLY <2>2, <2>3, <2>4
    <2> QED
      BY <2>5 DEF q
  <1>9. g = f
    BY <1>8
  <1>10. MuMu(b, d)[<<j, k>>] = PathScale(b, d) * SecondMoment(out)[<<j, k>>]
    BY <1>5, <1>7 DEF Times3
  <1> HIDE DEF f, g
  <1> QED
    BY <1>2, <1>7, <1>9, <1>10

-----------------------------------------------------------------------------
(* Two continuations of one prefix *)

LEMMA TailExists ==
  ASSUME NEW b, IsBucket(b), NEW d \in Nat
  PROVE  \A i \in Nat : d + i <= b.horizon =>
           \A p \in Walks(b, d + i) : \E u \in Nat :
             PathWeight(b, d + i, p) = PathWeight(b, d, Stem(p, d)) * u
  <1> DEFINE Splits(n, p) == \E u \in Nat : PathWeight(b, n, p) = PathWeight(b, d, Stem(p, d)) * u
             X == {i \in Nat : d + i <= b.horizon => \A p \in Walks(b, d + i) : Splits(d + i, p)}
  <1>1. 0 \in X
    <2> SUFFICES ASSUME d <= b.horizon, NEW p \in Walks(b, d) PROVE Splits(d, p)
      <3>1. d + 0 = d
        OBVIOUS
      <3> QED
        BY <3>1
    <2>1. Stem(p, d) = p
      BY StemFacts
    <2>2. PathWeight(b, d, p) \in Nat
      BY WeightType2
    <2>3. PathWeight(b, d, p) = PathWeight(b, d, p) * 1
      BY <2>2
    <2> QED
      BY <2>1, <2>3
  <1>2. ASSUME NEW i \in Nat, i \in X PROVE i + 1 \in X
    <2> DEFINE n == d + i
    <2>0. n \in Nat /\ d + (i + 1) = n + 1 /\ d \in 0..n
      OBVIOUS
    <2> SUFFICES ASSUME n + 1 <= b.horizon, NEW q \in Walks(b, n + 1) PROVE Splits(n + 1, q)
      BY <2>0
    <2>1. PICK p \in Walks(b, n), x \in Bit, y \in Bit : q = Grow(p, x, y)
      BY <2>0, LastStep
    <2>2. n <= b.horizon /\ n + 1 \in Times(b)
      BY BucketIs
    <2>3. PICK u \in Nat : PathWeight(b, n, p) = PathWeight(b, d, Stem(p, d)) * u
      BY <1>2, <2>2
    <2> HIDE DEF n
    <2>4. Kernel(b, n + 1, p.s[n + 1], x, y) \in Nat
      BY <2>0, <2>2, WalkFacts, KernelType
    <2>5. PathWeight(b, n + 1, q) = PathWeight(b, n, p) * Kernel(b, n + 1, p.s[n + 1], x, y)
      BY <2>0, <2>1, WeightGrow
    <2>6. Stem(q, d) = Stem(p, d)
      BY <2>0, <2>1, StemFacts
    <2>7. PathWeight(b, d, Stem(p, d)) \in Nat
      <3>1. Stem(p, d) \in Walks(b, d)
        BY <2>0, StemFacts
      <3>2. d <= b.horizon
        BY <2>0, <2>2, BucketIs
      <3> QED
        BY <3>1, <3>2, WeightType2
    <2>8. \A v, w, z \in Nat : (v * w) * z = v * (w * z) /\ w * z \in Nat
      OBVIOUS
    <2>9. /\ u * Kernel(b, n + 1, p.s[n + 1], x, y) \in Nat
          /\ PathWeight(b, n + 1, q)
               = PathWeight(b, d, Stem(q, d)) * (u * Kernel(b, n + 1, p.s[n + 1], x, y))
      BY <2>3, <2>4, <2>5, <2>6, <2>7, <2>8
    <2> QED
      BY <2>9
  <1> HIDE DEF X
  <1>3. Nat \subseteq X
    BY <1>1, <1>2, NatSetInduction
  <1> QED
    BY <1>3 DEF X

\* The share of a row's weight that comes after its first d decisions.
WeightAfter(b, d, r) == r.weight \div PathWeight(b, d, r.path)

LEMMA WeightAfterFacts ==
  ASSUME NEW b, IsBucket(b), NEW d \in Nat, d <= b.horizon, NEW r \in Enumerated(b)
  PROVE  /\ Stem(r.path, d) \in Walks(b, d) /\ r.path \in Walks(b, b.horizon)
         /\ PathWeight(b, d, Stem(r.path, d)) \in Nat \ {0} /\ WeightAfter(b, d, r) \in Nat
         /\ r.weight = PathWeight(b, d, Stem(r.path, d)) * WeightAfter(b, d, r)
         /\ r.weight \in Nat
  <1> DEFINE p == r.path
             c == Stem(p, d)
             W == PathWeight(b, d, c)
             h == b.horizon
  <1>1. h \in Nat /\ d \in 0..h /\ h - d \in Nat /\ d + (h - d) = h
    BY BucketIs
  <1>2. p \in Walks(b, h) /\ r.weight = PathWeight(b, h, p) /\ r.weight \in Nat \ {0}
    BY RowFacts
  <1>3. /\ c \in Walks(b, d) /\ \A t \in 1..d : c.a[t] = p.a[t]
        /\ \A t \in 1..(d + 1) : c.s[t] = p.s[t]
    BY <1>1, <1>2, StemFacts
  <1>4. W = PathWeight(b, d, p)
    BY <1>3, SameWeight
  <1>5. W \in Nat
    BY <1>3, WeightType2
  <1>6. PICK u \in Nat : PathWeight(b, h, p) = W * u
    <2>1. d + (h - d) <= b.horizon /\ p \in Walks(b, d + (h - d))
      BY <1>1, <1>2
    <2>2. \E u \in Nat : PathWeight(b, d + (h - d), p) = PathWeight(b, d, Stem(p, d)) * u
      BY <1>1, <2>1, TailExists
    <2> QED
      BY <1>1, <2>2
  <1> HIDE DEF W, p, h
  <1>7. W # 0
    <2>1. 0 * u = 0
      OBVIOUS
    <2> QED
      BY <1>2, <1>6, <2>1
  <1>8. r.weight = W * u + 0 /\ W \in Nat \ {0} /\ 0 \in 0..(W - 1) /\ r.weight \in Nat
    BY <1>2, <1>5, <1>6, <1>7
  <1>9. r.weight \div W = u
    BY <1>8, DivUnique
  <1>10. WeightAfter(b, d, r) = u
    BY <1>4, <1>9 DEF WeightAfter, p
  <1> QED
    BY <1>2, <1>3, <1>6, <1>8, <1>10 DEF W, p, h

\* Two tails of one prefix may be exchanged.
LEMMA TailsExchange ==
  ASSUME NEW b, IsBucket(b), NEW d \in Nat, d <= b.horizon, NEW x \in Enumerated(b),
         NEW y \in Enumerated(b), Stem(x.path, d) = Stem(y.path, d)
  PROVE  WeightAfter(b, d, x) * y.weight = x.weight * WeightAfter(b, d, y)
  <1> DEFINE W == PathWeight(b, d, Stem(x.path, d))
             u == WeightAfter(b, d, x)
             v == WeightAfter(b, d, y)
  <1>1. W \in Nat \ {0} /\ u \in Nat /\ x.weight = W * u
    BY WeightAfterFacts
  <1>2. v \in Nat /\ y.weight = W * v
    <2>1. v \in Nat /\ y.weight = PathWeight(b, d, Stem(y.path, d)) * v
      BY WeightAfterFacts
    <2> QED
      BY <2>1
  <1> HIDE DEF W, u, v
  <1>3. u * (W * v) = (W * u) * v
    BY <1>1, <1>2
  <1> QED
    BY <1>1, <1>2, <1>3 DEF u, v

LEMMA WalkSingle ==
  ASSUME NEW b, NEW n, Known(b, n), NEW F, F \in [Walks(b, n) -> Int], NEW c \in Walks(b, n),
         \A p \in Walks(b, n) : p # c => F[p] = 0
  PROVE  WalkSum(b, n, F) = PathWeight(b, n, c) * F[c]
  <1> DEFINE D == Walks(b, n)
             f == [p \in D |-> PathWeight(b, n, p) * F[p]]
  <1>1. D = Walks(b, n) /\ F \in [D -> Int] /\ f = [p \in D |-> PathWeight(b, n, p) * F[p]]
    OBVIOUS
  <1>2. c \in D /\ \A p \in D : p # c => F[p] = 0
    OBVIOUS
  <1> HIDE DEF D, f
  <1>3. /\ IsFiniteSet(D) /\ f \in [D -> Int] /\ WalkSum(b, n, F) = SumFunction(f)
        /\ \A p \in D : f[p] = PathWeight(b, n, p) * F[p] /\ PathWeight(b, n, p) \in Int
    BY <1>1, WalkSumIs
  <1>4. \A p \in D \ {c} : f[p] = 0
    <2>1. \A u \in Int : u * 0 = 0
      OBVIOUS
    <2> QED
      BY <1>2, <1>3, <2>1
  <1>5. SumFunction(f) = f[c]
    BY ONLY <1>2, <1>3, <1>4, SumSingle
  <1> QED
    BY <1>2, <1>3, <1>5

\* Of the walks that begin with c: their weight, and what they pay.
LEMMA MassBehind ==
  ASSUME NEW b, IsBucket(b), NEW d \in Nat, d <= b.horizon, NEW c \in Walks(b, d), NEW m \in Int,
         NEW F, F \in [Walks(b, b.horizon) -> Int],
         \A p \in Walks(b, b.horizon) : F[p] = IF Stem(p, d) = c THEN m ELSE 0
  PROVE  /\ WalkSum(b, b.horizon, F) = PathScale(b, b.horizon - d) * (PathWeight(b, d, c) * m)
         /\ PathWeight(b, d, c) \in Nat
  <1> DEFINE D == Walks(b, d)
             G == [q \in D |-> IF q = c THEN m ELSE 0]
  <1>1. Known(b, d)
    BY DEF Known
  <1>2. G \in [Walks(b, d) -> Int] /\ G[c] = m /\ \A p \in D : p # c => G[p] = 0
    OBVIOUS
  <1>3. \A p \in Walks(b, b.horizon) : F[p] = G[Stem(p, d)]
    <2> TAKE p \in Walks(b, b.horizon)
    <2>1. b.horizon \in Nat /\ d \in 0..b.horizon
      BY BucketIs
    <2>2. Stem(p, d) \in D
      BY <2>1, StemFacts
    <2> QED
      BY <2>2
  <1> HIDE DEF G
  <1>4. WalkSum(b, b.horizon, F) = PathScale(b, b.horizon - d) * WalkSum(b, d, G)
    BY <1>2, <1>3, MassAhead
  <1>5. WalkSum(b, d, G) = PathWeight(b, d, c) * G[c]
    BY <1>1, <1>2, WalkSingle
  <1> QED
    BY <1>2, <1>4, <1>5, WeightType2

LEMMA GainBehind ==
  ASSUME NEW b, IsBucket(b), ~Focal(b), NEW d \in Nat, d <= b.horizon, NEW c \in Walks(b, d),
         NEW j \in Logit, NEW m \in Int, NEW F, F \in [Walks(b, b.horizon) -> Int],
         \A p \in Walks(b, b.horizon) : F[p] = IF Stem(p, d) = c THEN m * Gain(b, j)[p] ELSE 0
  PROVE  WalkSum(b, b.horizon, F) = PathWeight(b, d, c) * (m * Expected(b, d, c, j))
  <1> DEFINE D == Walks(b, d)
             G == [q \in D |-> IF q = c THEN m ELSE 0]
             E == [q \in D |-> IF q = c THEN m * Expected(b, d, c, j) ELSE 0]
  <1>1. Known(b, d) /\ b.horizon \in Nat /\ d \in 0..b.horizon
    BY BucketIs DEF Known
  <1>2. \A q \in D : Expected(b, d, q, j) \in Int
    BY <1>1, WorthType
  <1>3. /\ G \in [D -> Int] /\ E \in [D -> Int] /\ E[c] = m * Expected(b, d, c, j)
        /\ \A p \in D : p # c => E[p] = 0
    <2>1. Expected(b, d, c, j) \in Int
      BY <1>2
    <2>2. \A v \in Int : m * v \in Int
      OBVIOUS
    <2>3. m * Expected(b, d, c, j) \in Int
      BY <2>1, <2>2
    <2> QED
      BY <2>3
  <1>4. \A q \in D : E[q] = Expected(b, d, q, j) * G[q]
    <2> TAKE q \in D
    <2>1. CASE q = c
      <3>1. E[q] = m * Expected(b, d, q, j) /\ G[q] = m
        BY <2>1
      <3>2. Expected(b, d, q, j) \in Int
        BY <1>2
      <3>3. \A v \in Int : m * v = v * m
        OBVIOUS
      <3> HIDE DEF E, G
      <3> QED
        BY <3>1, <3>2, <3>3
    <2>2. CASE q # c
      <3>1. E[q] = 0 /\ G[q] = 0
        BY <2>2
      <3>2. Expected(b, d, q, j) \in Int
        BY <1>2
      <3>3. \A v \in Int : v * 0 = 0
        OBVIOUS
      <3> HIDE DEF E, G
      <3> QED
        BY <3>1, <3>2, <3>3
    <2> QED
      BY <2>1, <2>2
  <1>5. \A p \in Walks(b, b.horizon) :
          F[p] = (Terminal(b, p) * PathScore(b, b.horizon, p, j)) * G[Stem(p, d)]
    <2> TAKE p \in Walks(b, b.horizon)
    <2>1. Stem(p, d) \in D
      BY <1>1, StemFacts
    <2>2. /\ Gain(b, j)[p] = Terminal(b, p) * PathScore(b, b.horizon, p, j) /\ Gain(b, j)[p] \in Int
      BY GainIs DEF PathReward
    <2>3. F[p] = IF Stem(p, d) = c THEN m * Gain(b, j)[p] ELSE 0
      OBVIOUS
    <2>4. G[Stem(p, d)] = IF Stem(p, d) = c THEN m ELSE 0
      BY <2>1
    <2>5. \A v \in Int : m * v = v * m /\ v * 0 = 0
      OBVIOUS
    <2> HIDE DEF G
    <2>6. F[p] = Gain(b, j)[p] * G[Stem(p, d)]
      BY <2>2, <2>3, <2>4, <2>5
    <2> QED
      BY <2>2, <2>6
  <1> HIDE DEF E, G
  <1>6. WalkSum(b, b.horizon, F) = WalkSum(b, d, E)
    BY <1>3, <1>4, <1>5, Conditional
  <1>7. WalkSum(b, d, E) = PathWeight(b, d, c) * E[c]
    BY <1>1, <1>3, WalkSingle
  <1> QED
    BY <1>3, <1>6, <1>7

\* What a pair of rows with one prefix adds to the second moment, in two parts:
\* one to be summed over the second row first, and one over the first.
Gained(b, r, j) == Gain(b, j)[r.path]
Meet(d, x, y) == Stem(x.path, d) = Stem(y.path, d)
Mixed(b, j, k, x, y) ==
  Gained(b, x, j) * Gained(b, x, k)
    + (Gained(b, x, j) * Gained(b, y, k) + Gained(b, x, k) * Gained(b, y, j))
OnePart(b, d, j, k, x, y) == IF Meet(d, x, y) THEN y.weight * (WeightAfter(b, d, x) * Mixed(b, j, k, x, y)) ELSE 0
TwoPart(b, d, j, k, x, y) ==
  IF Meet(d, x, y) THEN x.weight * (WeightAfter(b, d, y) * (Gained(b, y, j) * Gained(b, y, k))) ELSE 0

LEMMA GainedType ==
  ASSUME NEW b, IsBucket(b), NEW r \in Enumerated(b), NEW j \in Logit
  PROVE  Gained(b, r, j) \in Int /\ r.path \in Walks(b, b.horizon) /\ r.weight \in Int
  BY RowFacts, DenseOutcome DEF Gained

LEMMA OneRow ==
  ASSUME NEW b, IsBucket(b), ~Focal(b), NEW d \in Nat, d <= b.horizon, NEW j \in Logit,
         NEW k \in Logit, NEW x \in Enumerated(b),
         NEW g, g = [y \in Enumerated(b) |-> OnePart(b, d, j, k, x, y)]
  PROVE  LET c == Stem(x.path, d)
         IN /\ g \in [Enumerated(b) -> Int]
            /\ SumFunction(g)
                 = x.weight * (PathScale(b, b.horizon - d) * (Gained(b, x, j) * Gained(b, x, k))
                               + (Gained(b, x, j) * Expected(b, d, c, k)
                                  + Gained(b, x, k) * Expected(b, d, c, j)))
  <1> DEFINE c == Stem(x.path, d)
             h == b.horizon
             D == Walks(b, h)
             W == PathWeight(b, d, c)
             u == WeightAfter(b, d, x)
             v == Gained(b, x, j)
             w == Gained(b, x, k)
             Gj == Gain(b, j)
             Gk == Gain(b, k)
             A == [p \in D |-> IF Stem(p, d) = c THEN u * (v * w) ELSE 0]
             B == [p \in D |-> IF Stem(p, d) = c THEN (u * v) * Gk[p] ELSE 0]
             C == [p \in D |-> IF Stem(p, d) = c THEN (u * w) * Gj[p] ELSE 0]
             K == [p \in D |-> B[p] + C[p]]
             F == [p \in D |-> A[p] + K[p]]
             P == PathScale(b, h - d)
             Ej == Expected(b, d, c, j)
             Ek == Expected(b, d, c, k)
  <1>1. h \in Nat /\ d \in 0..h /\ Known(b, h) /\ h - d \in Nat
    BY BucketIs DEF Known
  <1>2. c \in Walks(b, d) /\ W \in Nat \ {0} /\ u \in Nat /\ x.weight = W * u
    BY WeightAfterFacts
  <1>3. v \in Int /\ w \in Int
    BY GainedType
  <1>4. Gj \in [D -> Int] /\ Gk \in [D -> Int]
    BY GainIs
  <1>5. u * (v * w) \in Int /\ u * v \in Int /\ u * w \in Int
    <2> HIDE DEF u, v, w
    <2>1. u \in Int
      BY <1>2
    <2> QED
      BY <1>3, <2>1
  <1>6. Ej \in Int /\ Ek \in Int
    BY <1>1, <1>2, WorthType
  <1>7. P \in Int
    BY <1>1, ScaleFacts
  <1> HIDE DEF u, v, w, Gj, Gk, W, D, h, P, Ej, Ek
  <1>8. A \in [D -> Int] /\ B \in [D -> Int] /\ C \in [D -> Int]
    <2>1. \A m \in Int, n \in Int : m * n \in Int
      OBVIOUS
    <2>2. \A p \in D : (u * v) * Gk[p] \in Int /\ (u * w) * Gj[p] \in Int
      BY <1>4, <1>5, <2>1
    <2> HIDE DEF c
    <2> QED
      BY <1>5, <2>2
  <1>9. /\ \A p \in D : A[p] = IF Stem(p, d) = c THEN u * (v * w) ELSE 0
        /\ \A p \in D : B[p] = IF Stem(p, d) = c THEN (u * v) * Gk[p] ELSE 0
        /\ \A p \in D : C[p] = IF Stem(p, d) = c THEN (u * w) * Gj[p] ELSE 0
    OBVIOUS
  <1> HIDE DEF A, B, C, c
  <1>10. K \in [D -> Int] /\ \A p \in D : K[p] = B[p] + C[p]
    BY <1>8
  <1>11. F \in [D -> Int] /\ \A p \in D : F[p] = A[p] + K[p]
    BY <1>8, <1>10
  <1> HIDE DEF K, F
  <1>12. WalkSum(b, h, A) = P * (W * (u * (v * w)))
    <2>1. A \in [Walks(b, b.horizon) -> Int]
      BY <1>8 DEF D, h
    <2>2. \A p \in Walks(b, b.horizon) : A[p] = IF Stem(p, d) = c THEN u * (v * w) ELSE 0
      BY <1>9 DEF D, h
    <2> DEFINE m == u * (v * w)
    <2>3. m \in Int /\ \A p \in Walks(b, b.horizon) : A[p] = IF Stem(p, d) = c THEN m ELSE 0
      BY <1>5, <2>2
    <2> HIDE DEF m
    <2>4. WalkSum(b, b.horizon, A) = PathScale(b, b.horizon - d) * (PathWeight(b, d, c) * m)
      BY <1>2, <2>1, <2>3, MassBehind
    <2> QED
      BY <2>4 DEF m, P, W, h
  <1>13. WalkSum(b, h, B) = W * ((u * v) * Ek)
    <2>1. B \in [Walks(b, b.horizon) -> Int]
      BY <1>8 DEF D, h
    <2> DEFINE m == u * v
    <2>3. m \in Int /\ \A p \in Walks(b, b.horizon) : B[p] = IF Stem(p, d) = c THEN m * Gain(b, k)[p] ELSE 0
      BY <1>5, <1>9 DEF D, h, Gk
    <2> HIDE DEF m
    <2>4. WalkSum(b, b.horizon, B) = PathWeight(b, d, c) * (m * Expected(b, d, c, k))
      BY <1>2, <2>1, <2>3, GainBehind
    <2> QED
      BY <2>4 DEF m, W, h, Ek
  <1>14. WalkSum(b, h, C) = W * ((u * w) * Ej)
    <2>1. C \in [Walks(b, b.horizon) -> Int]
      BY <1>8 DEF D, h
    <2> DEFINE m == u * w
    <2>3. m \in Int /\ \A p \in Walks(b, b.horizon) : C[p] = IF Stem(p, d) = c THEN m * Gain(b, j)[p] ELSE 0
      BY <1>5, <1>9 DEF D, h, Gj
    <2> HIDE DEF m
    <2>4. WalkSum(b, b.horizon, C) = PathWeight(b, d, c) * (m * Expected(b, d, c, j))
      BY <1>2, <2>1, <2>3, GainBehind
    <2> QED
      BY <2>4 DEF m, W, h, Ej
  <1>15. \A y, z \in Int : y + z = 1 * y + 1 * z
    OBVIOUS
  <1>16. WalkSum(b, h, K) = 1 * WalkSum(b, h, B) + 1 * WalkSum(b, h, C)
    <2>1. Combines(Walks(b, h), B, C, 1, 1, K)
      BY <1>8, <1>10, <1>15 DEF Combines, D
    <2> QED
      BY <1>1, <2>1, WalkLinear
  <1>17. WalkSum(b, h, F) = 1 * WalkSum(b, h, A) + 1 * WalkSum(b, h, K)
    <2>1. Combines(Walks(b, h), A, K, 1, 1, F)
      BY <1>8, <1>10, <1>11, <1>15 DEF Combines, D
    <2> QED
      BY <1>1, <2>1, WalkLinear
  <1>18. WalkSum(b, h, F) = x.weight * (P * (v * w) + (v * Ek + w * Ej))
    <2>1. W \in Int /\ u \in Int
      BY <1>2
    <2>2. 1 * (P * (W * (u * (v * w)))) + 1 * (1 * (W * ((u * v) * Ek)) + 1 * (W * ((u * w) * Ej)))
            = (W * u) * (P * (v * w) + (v * Ek + w * Ej))
      BY ONLY <1>3, <1>6, <1>7, <2>1
    <2> QED
      BY ONLY <1>2, <1>12, <1>13, <1>14, <1>16, <1>17, <2>2
  <1>19. ASSUME NEW y \in Enumerated(b) PROVE g[y] = y.weight * F[y.path]
    <2>1. g[y] = OnePart(b, d, j, k, x, y)
      OBVIOUS
    <2>2. y.path \in D /\ y.weight \in Int
      BY GainedType DEF D, h
    <2> DEFINE p == y.path
    <2>3. F[p] = A[p] + (B[p] + C[p])
      BY <1>10, <1>11, <2>2
    <2>4. Meet(d, x, y) <=> Stem(p, d) = c
      BY DEF Meet, c
    <2>5. Gained(b, y, j) = Gj[p] /\ Gained(b, y, k) = Gk[p]
      BY DEF Gained, Gj, Gk
    <2>6. Gj[p] \in Int /\ Gk[p] \in Int /\ p \in D
      BY <1>4, <2>2
    <2> HIDE DEF p
    <2>7. CASE Stem(p, d) = c
      <3>1. A[p] = u * (v * w) /\ B[p] = (u * v) * Gk[p] /\ C[p] = (u * w) * Gj[p]
        BY <1>9, <2>6, <2>7
      <3>2. g[y] = y.weight * (u * (v * w + (v * Gk[p] + w * Gj[p])))
        BY <2>1, <2>4, <2>5, <2>7 DEF OnePart, Mixed, u, v, w
      <3> DEFINE X == Gj[p]
                 Y == Gk[p]
      <3>3. X \in Int /\ Y \in Int /\ u \in Int
        BY <1>2, <2>6
      <3>4. u * (v * w + (v * Y + w * X)) = u * (v * w) + ((u * v) * Y + (u * w) * X)
        <4> HIDE DEF X, Y
        <4> QED
          BY ONLY <1>3, <3>3
      <3>5. F[p] = u * (v * w + (v * Gk[p] + w * Gj[p]))
        BY <2>3, <3>1, <3>4
      <3> QED
        BY <3>2, <3>5 DEF p
    <2>8. CASE Stem(p, d) # c
      <3>1. A[p] = 0 /\ B[p] = 0 /\ C[p] = 0
        BY <1>9, <2>6, <2>8
      <3>2. g[y] = 0
        BY <2>1, <2>4, <2>8 DEF OnePart
      <3>3. F[p] = 0
        BY <2>3, <3>1
      <3>4. \A z \in Int : z * 0 = 0
        OBVIOUS
      <3> QED
        BY <2>2, <3>2, <3>3, <3>4 DEF p
    <2> QED
      BY <2>7, <2>8
  <1>20. g = [r \in Enumerated(b) |-> g[r]]
    OBVIOUS
  <1>21. g \in [Enumerated(b) -> Int] /\ SumFunction(g) = WalkSum(b, b.horizon, F)
    <2>1. F \in [Walks(b, b.horizon) -> Int]
      BY <1>11 DEF D, h
    <2>2. \A y \in Enumerated(b) : g[y] = y.weight * F[y.path]
      BY <1>19
    <2> QED
      BY ONLY IsBucket(b), <1>20, <2>1, <2>2, EnumSum
  <1> QED
    BY <1>18, <1>21 DEF h, P, v, w, Ej, Ek, c

LEMMA TwoColumn ==
  ASSUME NEW b, IsBucket(b), NEW d \in Nat, d <= b.horizon, NEW j \in Logit,
         NEW k \in Logit, NEW y \in Enumerated(b),
         NEW g, g = [x \in Enumerated(b) |-> TwoPart(b, d, j, k, x, y)]
  PROVE  /\ g \in [Enumerated(b) -> Int]
         /\ SumFunction(g)
              = y.weight * (PathScale(b, b.horizon - d) * (Gained(b, y, j) * Gained(b, y, k)))
  <1> DEFINE c == Stem(y.path, d)
             h == b.horizon
             D == Walks(b, h)
             W == PathWeight(b, d, c)
             u == WeightAfter(b, d, y)
             v == Gained(b, y, j)
             w == Gained(b, y, k)
             m == u * (v * w)
             F == [p \in D |-> IF Stem(p, d) = c THEN m ELSE 0]
             P == PathScale(b, h - d)
  <1>1. h \in Nat /\ d \in 0..h /\ h - d \in Nat
    BY BucketIs
  <1>2. c \in Walks(b, d) /\ W \in Nat \ {0} /\ u \in Nat /\ y.weight = W * u
    BY WeightAfterFacts
  <1>3. v \in Int /\ w \in Int
    BY GainedType
  <1>4. m \in Int
    <2> HIDE DEF u, v, w
    <2>1. u \in Int
      BY <1>2
    <2> QED
      BY <1>3, <2>1
  <1>5. P \in Int
    BY <1>1, ScaleFacts
  <1> HIDE DEF m
  <1>6. F \in [D -> Int] /\ \A p \in D : F[p] = IF Stem(p, d) = c THEN m ELSE 0
    BY <1>4
  <1> HIDE DEF F, u, v, w, c, W, P
  <1>7. WalkSum(b, h, F) = P * (W * m)
    BY <1>2, <1>4, <1>6, MassBehind DEF P, W
  <1>8. P * (W * m) = y.weight * (P * (v * w))
    <2>1. W \in Int /\ u \in Int
      BY <1>2
    <2>2. P * (W * (u * (v * w))) = (W * u) * (P * (v * w))
      BY ONLY <1>3, <1>5, <2>1
    <2> QED
      BY <1>2, <2>2 DEF m
  <1>9. ASSUME NEW x \in Enumerated(b) PROVE g[x] = x.weight * F[x.path]
    <2>1. g[x] = TwoPart(b, d, j, k, x, y)
      OBVIOUS
    <2>2. x.path \in D /\ x.weight \in Int
      BY GainedType
    <2>3. Meet(d, x, y) <=> Stem(x.path, d) = c
      BY DEF Meet, c
    <2>4. F[x.path] = IF Stem(x.path, d) = c THEN m ELSE 0
      BY <1>6, <2>2
    <2>5. \A z \in Int : z * 0 = 0
      OBVIOUS
    <2> QED
      BY <2>1, <2>2, <2>3, <2>4, <2>5 DEF TwoPart, m, u, v, w
  <1>10. g = [r \in Enumerated(b) |-> g[r]]
    OBVIOUS
  <1>11. g \in [Enumerated(b) -> Int] /\ SumFunction(g) = WalkSum(b, b.horizon, F)
    <2>1. F \in [Walks(b, b.horizon) -> Int]
      BY <1>6
    <2>2. \A x \in Enumerated(b) : g[x] = x.weight * F[x.path]
      BY <1>9
    <2> QED
      BY ONLY IsBucket(b), <1>10, <2>1, <2>2, EnumSum
  <1> QED
    BY <1>7, <1>8, <1>11 DEF P, v, w

\* The expected square of a pair, from the two parts.
LEMMA PairSplit ==
  ASSUME NEW b, IsBucket(b), NEW d \in Nat, d <= b.horizon, NEW j \in Logit, NEW k \in Logit,
         NEW x \in Enumerated(b), NEW y \in Enumerated(b), Meet(d, x, y)
  PROVE  /\ (WeightAfter(b, d, x) * y.weight)
              * ((Gained(b, x, j) + Gained(b, y, j)) * (Gained(b, x, k) + Gained(b, y, k)))
            = OnePart(b, d, j, k, x, y) + TwoPart(b, d, j, k, x, y)
  <1> DEFINE u == WeightAfter(b, d, x)
             q == WeightAfter(b, d, y)
             v == Gained(b, x, j)
             w == Gained(b, x, k)
             s == Gained(b, y, j)
             r == Gained(b, y, k)
             X == x.weight
             Y == y.weight
  <1>1. v \in Int /\ w \in Int /\ s \in Int /\ r \in Int /\ X \in Int /\ Y \in Int
    BY GainedType
  <1>2. u \in Int /\ q \in Int
    BY WeightAfterFacts
  <1>3. u * Y = X * q
    BY TailsExchange DEF Meet
  <1>4. OnePart(b, d, j, k, x, y) = Y * (u * (v * w + (v * r + w * s)))
    BY DEF OnePart, Mixed
  <1>5. TwoPart(b, d, j, k, x, y) = X * (q * (s * r))
    BY DEF TwoPart
  <1> HIDE DEF u, q, v, w, s, r, X, Y
  <1>6. (u * Y) * ((v + s) * (w + r)) = Y * (u * (v * w + (v * r + w * s))) + (u * Y) * (s * r)
    BY ONLY <1>1, <1>2
  <1>7. (X * q) * (s * r) = X * (q * (s * r))
    BY ONLY <1>1, <1>2
  <1>8. (u * Y) * ((v + s) * (w + r)) = OnePart(b, d, j, k, x, y) + TwoPart(b, d, j, k, x, y)
    BY ONLY <1>3, <1>4, <1>5, <1>6, <1>7
  <1> QED
    BY ONLY <1>8 DEF u, q, v, w, s, r, X, Y

LEMMA GainAhead ==
  ASSUME NEW b, IsBucket(b), ~Focal(b), NEW d \in Nat, d <= b.horizon, NEW j \in Logit,
         NEW k \in Logit, NEW F, F \in [Walks(b, b.horizon) -> Int],
         \A p \in Walks(b, b.horizon) : F[p] = Gain(b, j)[p] * Expected(b, d, Stem(p, d), k)
  PROVE  WalkSum(b, b.horizon, F) = WalkSum(b, d, Repeated(b, d, j, k))
  <1> DEFINE D == Walks(b, d)
             G == [c \in D |-> Expected(b, d, c, k)]
             E == Repeated(b, d, j, k)
  <1>1. b.horizon \in Nat /\ d \in 0..b.horizon
    BY BucketIs
  <1>2. \A c \in D : G[c] = Expected(b, d, c, k) /\ G[c] \in Int
    BY <1>1, WorthType
  <1>3. G \in [D -> Int]
    BY <1>2
  <1> HIDE DEF G
  <1>4. E \in [D -> Int] /\ \A c \in D : E[c] = Expected(b, d, c, j) * G[c]
    BY <1>2, RepeatedType
  <1>5. \A p \in Walks(b, b.horizon) :
          F[p] = (Terminal(b, p) * PathScore(b, b.horizon, p, j)) * G[Stem(p, d)]
    <2> TAKE p \in Walks(b, b.horizon)
    <2>1. Stem(p, d) \in D
      BY <1>1, StemFacts
    <2>2. Gain(b, j)[p] = Terminal(b, p) * PathScore(b, b.horizon, p, j)
      BY GainIs DEF PathReward
    <2> QED
      BY <1>2, <2>1, <2>2
  <1> HIDE DEF E, D
  <1> QED
    BY <1>3, <1>4, <1>5, Conditional DEF D, E

LEMMA OneTotal ==
  ASSUME NEW b, IsBucket(b), ~Focal(b), NEW d \in Nat, d <= b.horizon, NEW j \in Logit,
         NEW k \in Logit, NEW H, H \in [Enumerated(b) -> Int],
         \A x \in Enumerated(b) :
           H[x] = x.weight * (PathScale(b, b.horizon - d) * (Gained(b, x, j) * Gained(b, x, k))
                              + (Gained(b, x, j) * Expected(b, d, Stem(x.path, d), k)
                                 + Gained(b, x, k) * Expected(b, d, Stem(x.path, d), j)))
  PROVE  SumFunction(H)
           = PathScale(b, b.horizon - d) * WalkSum(b, b.horizon, Square(b, j, k))
             + 2 * WalkSum(b, d, Repeated(b, d, j, k))
  <1> DEFINE h == b.horizon
             D == Walks(b, h)
             P == PathScale(b, h - d)
             S == Square(b, j, k)
             B == [p \in D |-> Gain(b, j)[p] * Expected(b, d, Stem(p, d), k)]
             C == [p \in D |-> Gain(b, k)[p] * Expected(b, d, Stem(p, d), j)]
             K == [p \in D |-> 1 * B[p] + 1 * C[p]]
             F == [p \in D |-> P * S[p] + 1 * K[p]]
  <1>1. h \in Nat /\ d \in 0..h /\ h - d \in Nat /\ Known(b, h)
    BY BucketIs DEF Known
  <1>2. P \in Int
    BY <1>1, ScaleFacts
  <1>3. S \in [D -> Int] /\ \A p \in D : /\ S[p] = Gain(b, j)[p] * Gain(b, k)[p]
                                         /\ Gain(b, j)[p] \in Int /\ Gain(b, k)[p] \in Int
    BY SquareType
  <1>4. \A p \in D : Expected(b, d, Stem(p, d), k) \in Int /\ Expected(b, d, Stem(p, d), j) \in Int
    <2> TAKE p \in D
    <2>1. Stem(p, d) \in Walks(b, d)
      BY <1>1, StemFacts
    <2> QED
      BY <1>1, <2>1, WorthType
  <1>5. /\ \A p \in D : B[p] = Gain(b, j)[p] * Expected(b, d, Stem(p, d), k)
        /\ \A p \in D : C[p] = Gain(b, k)[p] * Expected(b, d, Stem(p, d), j)
    OBVIOUS
  <1>6. B \in [D -> Int] /\ C \in [D -> Int]
    <2>1. \A u, v \in Int : u * v \in Int
      OBVIOUS
    <2> QED
      BY <1>3, <1>4, <2>1
  <1> HIDE DEF B, C, D, S, P
  <1>7. K \in [D -> Int] /\ \A p \in D : K[p] = 1 * B[p] + 1 * C[p]
    BY <1>6
  <1> HIDE DEF K
  <1>8. F \in [D -> Int] /\ \A p \in D : F[p] = P * S[p] + 1 * K[p]
    <2>1. \A u, v, w \in Int : u * v + 1 * w \in Int
      OBVIOUS
    <2> QED
      BY <1>2, <1>3, <1>7, <2>1
  <1> HIDE DEF F
  <1>9. WalkSum(b, h, F) = P * WalkSum(b, h, S) + 1 * WalkSum(b, h, K) /\ WalkSum(b, h, S) \in Int
    <2>1. Combines(Walks(b, h), S, K, P, 1, F)
      BY <1>2, <1>3, <1>7, <1>8 DEF Combines, D
    <2> QED
      BY <1>1, <2>1, WalkLinear
  <1>10. WalkSum(b, h, K) = 1 * WalkSum(b, h, B) + 1 * WalkSum(b, h, C)
    <2>1. Combines(Walks(b, h), B, C, 1, 1, K)
      BY <1>6, <1>7 DEF Combines, D
    <2> QED
      BY <1>1, <2>1, WalkLinear
  <1>11. WalkSum(b, h, B) = WalkSum(b, d, Repeated(b, d, j, k))
    <2>1. B \in [Walks(b, b.horizon) -> Int]
          /\ \A p \in Walks(b, b.horizon) : B[p] = Gain(b, j)[p] * Expected(b, d, Stem(p, d), k)
      BY <1>5, <1>6 DEF D
    <2> QED
      BY <2>1, GainAhead
  <1>12. WalkSum(b, h, C) = WalkSum(b, d, Repeated(b, d, k, j))
    <2>1. C \in [Walks(b, b.horizon) -> Int]
          /\ \A p \in Walks(b, b.horizon) : C[p] = Gain(b, k)[p] * Expected(b, d, Stem(p, d), j)
      BY <1>5, <1>6 DEF D
    <2> QED
      BY <2>1, GainAhead
  <1>13. /\ WalkSum(b, d, Repeated(b, d, k, j)) = WalkSum(b, d, Repeated(b, d, j, k))
         /\ WalkSum(b, d, Repeated(b, d, j, k)) \in Int
    <2>1. \A c \in Walks(b, d) : Repeated(b, d, k, j)[c] = Repeated(b, d, j, k)[c]
      <3> TAKE c \in Walks(b, d)
      <3>1. /\ Repeated(b, d, j, k)[c] = Expected(b, d, c, j) * Expected(b, d, c, k)
            /\ Expected(b, d, c, j) \in Int /\ Expected(b, d, c, k) \in Int
        BY RepeatedType
      <3>2. Repeated(b, d, k, j)[c] = Expected(b, d, c, k) * Expected(b, d, c, j)
        BY DEF Repeated
      <3>3. \A u, v \in Int : u * v = v * u
        OBVIOUS
      <3> QED
        BY ONLY <3>1, <3>2, <3>3
    <2> QED
      BY <2>1, RepeatedType, WalkSame
  <1>14. ASSUME NEW x \in Enumerated(b) PROVE H[x] = x.weight * F[x.path]
    <2> DEFINE p == x.path
    <2>1. p \in D
      BY GainedType DEF D
    <2>2. F[p] = P * (Gain(b, j)[p] * Gain(b, k)[p])
                   + (Gain(b, j)[p] * Expected(b, d, Stem(p, d), k)
                      + Gain(b, k)[p] * Expected(b, d, Stem(p, d), j))
      <3>1. F[p] = P * S[p] + 1 * (1 * B[p] + 1 * C[p])
        BY <1>7, <1>8, <2>1
      <3>2. S[p] = Gain(b, j)[p] * Gain(b, k)[p]
        BY <1>3, <2>1
      <3>3. /\ B[p] = Gain(b, j)[p] * Expected(b, d, Stem(p, d), k) /\ B[p] \in Int
            /\ C[p] = Gain(b, k)[p] * Expected(b, d, Stem(p, d), j) /\ C[p] \in Int
        BY <1>5, <1>6, <2>1
      <3>4. \A u, v \in Int : 1 * (1 * u + 1 * v) = u + v
        OBVIOUS
      <3> HIDE DEF p
      <3> QED
        BY ONLY <3>1, <3>2, <3>3, <3>4
    <2> QED
      BY <2>2 DEF Gained, P
  <1>15. SumFunction(H) = WalkSum(b, b.horizon, F)
    <2>1. F \in [Walks(b, b.horizon) -> Int] /\ H = [r \in Enumerated(b) |-> H[r]]
      BY <1>8 DEF D
    <2>2. \A x \in Enumerated(b) : H[x] = x.weight * F[x.path]
      BY <1>14
    <2> QED
      BY ONLY IsBucket(b), <2>1, <2>2, EnumSum
  <1>16. \A u, v \in Int : u + 1 * (1 * v + 1 * v) = u + 2 * v
    OBVIOUS
  <1>17. P * WalkSum(b, h, S) \in Int
    <2>1. \A u, v \in Int : u * v \in Int
      OBVIOUS
    <2> QED
      BY <1>2, <1>9, <2>1
  <1> QED
    BY <1>9, <1>10, <1>11, <1>12, <1>13, <1>15, <1>16, <1>17 DEF P, S

LEMMA TwoTotal ==
  ASSUME NEW b, IsBucket(b), NEW m \in Int, NEW j \in Logit, NEW k \in Logit,
         NEW H, H \in [Enumerated(b) -> Int],
         \A y \in Enumerated(b) : H[y] = y.weight * (m * (Gained(b, y, j) * Gained(b, y, k)))
  PROVE  SumFunction(H) = m * WalkSum(b, b.horizon, Square(b, j, k))
  <1> DEFINE D == Walks(b, b.horizon)
             S == Square(b, j, k)
             F == [p \in D |-> m * S[p]]
  <1>1. S \in [D -> Int] /\ \A p \in D : S[p] = Gain(b, j)[p] * Gain(b, k)[p]
    BY SquareType
  <1> HIDE DEF S
  <1>2. F \in [D -> Int] /\ \A p \in D : F[p] = m * S[p]
    <2>1. \A v \in Int : m * v \in Int
      OBVIOUS
    <2> QED
      BY <1>1, <2>1
  <1>3. Known(b, b.horizon)
    BY BucketIs DEF Known
  <1> HIDE DEF F
  <1>4. WalkSum(b, b.horizon, F) = m * WalkSum(b, b.horizon, S)
    BY <1>1, <1>2, <1>3, WalkScaled
  <1>5. \A y \in Enumerated(b) : H[y] = y.weight * F[y.path]
    BY <1>1, <1>2, GainedType DEF Gained
  <1>6. H = [r \in Enumerated(b) |-> H[r]]
    OBVIOUS
  <1>7. SumFunction(H) = WalkSum(b, b.horizon, F)
    BY ONLY IsBucket(b), <1>2, <1>5, <1>6, EnumSum
  <1> QED
    BY <1>4, <1>7 DEF S

\* A function of the pairs that is a sum of two parts, one summed by rows and
\* the other by columns.
InParts(A, one, two, f, H, K) ==
  /\ one \in [A -> [A -> Int]] /\ two \in [A -> [A -> Int]]
  /\ f \in [A \X A -> Int]
  /\ \A x, y \in A : f[<<x, y>>] = one[x][y] + two[y][x]
  /\ H \in [A -> Int] /\ \A x \in A : H[x] = SumFunction(one[x])
  /\ K \in [A -> Int] /\ \A y \in A : K[y] = SumFunction(two[y])

LEMMA SumInParts ==
  ASSUME NEW A, IsFiniteSet(A), NEW one, NEW two, NEW f, NEW H, NEW K, InParts(A, one, two, f, H, K)
  PROVE  SumFunction(f) = SumFunction(H) + SumFunction(K)
  <1> DEFINE back == [x \in A |-> [y \in A |-> two[y][x]]]
             G == [x \in A |-> SumFunction(back[x])]
             row == [x \in A |-> [y \in A |-> one[x][y] + two[y][x]]]
             M == [x \in A |-> SumFunction(row[x])]
  <1>1. /\ one \in [A -> [A -> Int]] /\ two \in [A -> [A -> Int]] /\ f \in [A \X A -> Int]
        /\ \A x, y \in A : f[<<x, y>>] = one[x][y] + two[y][x]
        /\ H \in [A -> Int] /\ \A x \in A : H[x] = SumFunction(one[x])
        /\ K \in [A -> Int] /\ \A y \in A : K[y] = SumFunction(two[y])
    BY DEF InParts
  <1>2. \A x, y \in A : one[x][y] \in Int /\ two[y][x] \in Int
    BY <1>1
  <1>3. /\ back \in [A -> [A -> Int]] /\ \A x, y \in A : back[x][y] = two[y][x]
        /\ row \in [A -> [A -> Int]] /\ \A x, y \in A : row[x][y] = one[x][y] + two[y][x]
    BY <1>2
  <1> HIDE DEF back, row
  <1>4. \A x \in A : SumFunction(back[x]) \in Int /\ SumFunction(row[x]) \in Int
    <2> TAKE x \in A
    <2>1. back[x] \in [A -> Int] /\ row[x] \in [A -> Int]
      BY <1>3
    <2> QED
      BY <2>1, SumType
  <1>5. /\ G \in [A -> Int] /\ \A x \in A : G[x] = SumFunction(back[x])
        /\ M \in [A -> Int] /\ \A x \in A : M[x] = SumFunction(row[x])
    BY <1>4
  <1> HIDE DEF G, M
  <1>6. SumFunction(f) = SumFunction(M)
    <2>1. Crossed(A, A, f, row, M)
      BY <1>1, <1>3, <1>5 DEF Crossed
    <2> QED
      BY <2>1, SumCross
  <1>7. SumFunction(G) = SumFunction(K)
    <2>1. BothWays(A, A, back, G, two, K)
      BY <1>1, <1>3, <1>5 DEF BothWays
    <2> QED
      BY <2>1, SumSwap
  <1>8. \A x \in A : M[x] = H[x] + G[x]
    <2> TAKE x \in A
    <2> DEFINE r == row[x]
               o == one[x]
               k == back[x]
    <2>1. /\ o \in [A -> Int] /\ k \in [A -> Int] /\ r \in [A -> Int]
          /\ \A y \in A : r[y] = o[y] + k[y]
      BY <1>1, <1>3
    <2>2. M[x] = SumFunction(r) /\ H[x] = SumFunction(o) /\ G[x] = SumFunction(k)
      BY <1>1, <1>5
    <2> HIDE DEF r, o, k
    <2>3. SumFunction(r) = SumFunction(o) + SumFunction(k)
      BY <2>1, SumAdd
    <2> QED
      BY <2>2, <2>3
  <1>9. SumFunction(M) = SumFunction(H) + SumFunction(G)
    <2>1. /\ IsFiniteSet(A) /\ H \in [A -> Int] /\ G \in [A -> Int] /\ M \in [A -> Int]
          /\ \A x \in A : M[x] = H[x] + G[x]
      BY <1>1, <1>5, <1>8
    <2> QED
      BY ONLY <2>1, SumAdd
  <1> QED
    BY <1>6, <1>7, <1>9

PairVector(x, y) == Plus(Times3(x.reward, x.scores), Times3(y.reward, y.scores))

LEMMA PairVectorIs ==
  ASSUME NEW b, IsBucket(b), NEW x \in Enumerated(b), NEW y \in Enumerated(b), NEW j \in Logit
  PROVE  PairVector(x, y)[j] = Gained(b, x, j) + Gained(b, y, j)
  <1>1. ASSUME NEW r \in Enumerated(b)
        PROVE  /\ Times3(r.reward, r.scores) = [i \in Logit |-> r.reward * r.scores[i]]
               /\ r.reward * r.scores[j] = Gained(b, r, j)
    <2>1. /\ r.path \in Walks(b, b.horizon) /\ r.reward = PathReward(b, r.path)
          /\ r.scores \in [Logit -> Int] /\ r.scores[j] = PathScore(b, b.horizon, r.path, j)
      BY RowFacts
    <2> QED
      BY <2>1, GainIs DEF Times3, Gained
  <1>2. PairVector(x, y) = [i \in Logit |-> x.reward * x.scores[i] + y.reward * y.scores[i]]
    BY <1>1 DEF PairVector, Plus
  <1> QED
    BY <1>1, <1>2

\* The second moment of two continuations of one prefix.
LEMMA TwoSampleSecond ==
  ASSUME NEW b, IsBucket(b), ~Focal(b), NEW d \in Nat, d <= b.horizon, NEW j \in Logit, NEW k \in Logit
  PROVE  /\ DOMAIN SecondMoment(TwoSampleCycle(b, d)) = Logit \X Logit
         /\ SecondMoment(TwoSampleCycle(b, d))[<<j, k>>]
              = 2 * (PathScale(b, b.horizon - d) * WalkSum(b, b.horizon, Square(b, j, k)))
                + 2 * WalkSum(b, d, Repeated(b, d, j, k))
  <1> DEFINE e == Enumerated(b)
             m == PathScale(b, b.horizon - d)
             cut(p) == [a |-> [t \in 1..d |-> p.a[t]], s |-> [t \in 1..(d + 1) |-> p.s[t]]]
             Z == {z \in e \X e : cut(z[1].path) = cut(z[2].path)}
             out == [xy \in Z |->
                       [weight |-> (xy[1].weight \div PathWeight(b, d, xy[1].path)) * xy[2].weight,
                        vector |-> PairVector(xy[1], xy[2])]]
             g == [xy \in Z |-> out[xy].weight * (out[xy].vector[j] * out[xy].vector[k])]
             one == [x \in e |-> [y \in e |-> OnePart(b, d, j, k, x, y)]]
             two == [y \in e |-> [x \in e |-> TwoPart(b, d, j, k, x, y)]]
             f == [xy \in e \X e |-> OnePart(b, d, j, k, xy[1], xy[2]) + TwoPart(b, d, j, k, xy[1], xy[2])]
             H == [x \in e |-> SumFunction(one[x])]
             K == [y \in e |-> SumFunction(two[y])]
  <1>1. TwoSampleCycle(b, d) = out
    BY DEF TwoSampleCycle, PairVector
  <1>2. SecondMoment(out) = [jk \in Logit \X Logit |->
          SumFunction([xy \in Z |-> out[xy].weight * (out[xy].vector[jk[1]] * out[xy].vector[jk[2]])])]
    BY DEF SecondMoment
  <1>3. \A z \in Z : z \in e \X e /\ z = <<z[1], z[2]>> /\ z[1] \in e /\ z[2] \in e
    OBVIOUS
  <1>4. \A z \in e \X e : z \in Z <=> Meet(d, z[1], z[2])
    BY DEF Meet, Stem, Walk, Cut
  <1>5. \A z \in Z : /\ out[z].weight = WeightAfter(b, d, z[1]) * z[2].weight
                     /\ out[z].vector = PairVector(z[1], z[2])
    BY DEF WeightAfter
  <1>6. Z \subseteq e \X e
    OBVIOUS
  <1> HIDE DEF Z, cut, out
  <1>7. DOMAIN SecondMoment(out) = Logit \X Logit /\ SecondMoment(out)[<<j, k>>] = SumFunction(g)
    BY ONLY <1>2, j \in Logit, k \in Logit DEF g
  <1>8. IsFiniteSet(e) /\ IsFiniteSet(e \X e)
    BY EnumeratedFinite, CrossFinite
  <1>9. \A x, y \in e : OnePart(b, d, j, k, x, y) \in Int /\ TwoPart(b, d, j, k, x, y) \in Int
    <2> TAKE x \in e, y \in e
    <2>1. /\ one[x] \in [e -> Int] /\ one[x][y] = OnePart(b, d, j, k, x, y)
      <3> DEFINE o == [r \in Enumerated(b) |-> OnePart(b, d, j, k, x, r)]
      <3>1. o = [r \in Enumerated(b) |-> OnePart(b, d, j, k, x, r)] /\ o = one[x]
        OBVIOUS
      <3> HIDE DEF o
      <3>2. o \in [Enumerated(b) -> Int]
        BY <3>1, OneRow
      <3> QED
        BY <3>1, <3>2
    <2>2. /\ two[y] \in [e -> Int] /\ two[y][x] = TwoPart(b, d, j, k, x, y)
      <3> DEFINE o == [r \in Enumerated(b) |-> TwoPart(b, d, j, k, r, y)]
      <3>1. o = [r \in Enumerated(b) |-> TwoPart(b, d, j, k, r, y)] /\ o = two[y]
        OBVIOUS
      <3> HIDE DEF o
      <3>2. o \in [Enumerated(b) -> Int]
        BY <3>1, TwoColumn
      <3> QED
        BY <3>1, <3>2
    <2> HIDE DEF one, two
    <2>3. one[x][y] \in Int /\ two[y][x] \in Int
      BY <2>1, <2>2
    <2> QED
      BY <2>1, <2>2, <2>3
  <1>10. /\ one \in [e -> [e -> Int]] /\ two \in [e -> [e -> Int]]
         /\ \A x, y \in e : /\ one[x][y] = OnePart(b, d, j, k, x, y)
                            /\ two[y][x] = TwoPart(b, d, j, k, x, y)
    BY <1>9
  <1>11. /\ f \in [e \X e -> Int]
         /\ \A x, y \in e : f[<<x, y>>] = OnePart(b, d, j, k, x, y) + TwoPart(b, d, j, k, x, y)
    <2>1. \A xy \in e \X e : xy[1] \in e /\ xy[2] \in e
      OBVIOUS
    <2> HIDE DEF e
    <2>2. \A xy \in e \X e :
            OnePart(b, d, j, k, xy[1], xy[2]) + TwoPart(b, d, j, k, xy[1], xy[2]) \in Int
      BY <1>9, <2>1
    <2> QED
      BY <2>2
  <1>12. \A x \in e : H[x] = SumFunction(one[x]) /\ K[x] = SumFunction(two[x])
    OBVIOUS
  <1>13. \A x \in e :
           one[x] = [y \in e |-> OnePart(b, d, j, k, x, y)] /\ two[x] = [y \in e |-> TwoPart(b, d, j, k, y, x)]
    OBVIOUS
  <1> HIDE DEF one, two, f
  <1>14. ASSUME NEW x \in e
         PROVE  /\ H[x] = x.weight * (m * (Gained(b, x, j) * Gained(b, x, k))
                                      + (Gained(b, x, j) * Expected(b, d, Stem(x.path, d), k)
                                         + Gained(b, x, k) * Expected(b, d, Stem(x.path, d), j)))
                /\ K[x] = x.weight * (m * (Gained(b, x, j) * Gained(b, x, k)))
    <2> DEFINE o == one[x]
               w == two[x]
    <2>1. /\ o = [y \in Enumerated(b) |-> OnePart(b, d, j, k, x, y)]
          /\ w = [y \in Enumerated(b) |-> TwoPart(b, d, j, k, y, x)]
      BY <1>13
    <2>2. H[x] = SumFunction(o) /\ K[x] = SumFunction(w)
      BY <1>12
    <2> HIDE DEF o, w, H, K
    <2>3. SumFunction(o) = x.weight * (m * (Gained(b, x, j) * Gained(b, x, k))
                                      + (Gained(b, x, j) * Expected(b, d, Stem(x.path, d), k)
                                         + Gained(b, x, k) * Expected(b, d, Stem(x.path, d), j)))
      BY <2>1, OneRow
    <2>4. SumFunction(w) = x.weight * (m * (Gained(b, x, j) * Gained(b, x, k)))
      BY <2>1, TwoColumn
    <2> QED
      BY <2>2, <2>3, <2>4
  <1>15. H \in [e -> Int] /\ K \in [e -> Int]
    <2>1. \A x \in e : SumFunction(one[x]) \in Int /\ SumFunction(two[x]) \in Int
      <3> TAKE x \in e
      <3> DEFINE o == one[x]
                 w == two[x]
      <3>1. o \in [e -> Int] /\ w \in [e -> Int]
        BY <1>10
      <3> HIDE DEF o, w
      <3>2. SumFunction(o) \in Int /\ SumFunction(w) \in Int
        BY <1>8, <3>1, SumType
      <3> QED
        BY <3>2 DEF o, w
    <2> QED
      BY <2>1
  <1> HIDE DEF H, K
  <1>16. InParts(e, one, two, f, H, K)
    BY <1>10, <1>11, <1>12, <1>15 DEF InParts
  <1>17. SumFunction(f) = SumFunction(H) + SumFunction(K)
    BY <1>8, <1>16, SumInParts
  <1>18. m \in Int
    <2>1. b.horizon - d \in Nat
      BY BucketIs
    <2> QED
      BY <2>1, ScaleFacts
  <1>19. SumFunction(H) = m * WalkSum(b, b.horizon, Square(b, j, k))
                          + 2 * WalkSum(b, d, Repeated(b, d, j, k))
    BY <1>14, <1>15, OneTotal
  <1>20. SumFunction(K) = m * WalkSum(b, b.horizon, Square(b, j, k))
    <2> HIDE DEF m
    <2> QED
      BY <1>14, <1>15, <1>18, TwoTotal
  <1>21. \A z \in Z : g[z] = f[z]
    <2> TAKE z \in Z
    <2> DEFINE x == z[1]
               y == z[2]
    <2>1. x \in e /\ y \in e /\ z = <<x, y>> /\ Meet(d, x, y)
      BY <1>3, <1>4, <1>6
    <2>2. g[z] = out[z].weight * (out[z].vector[j] * out[z].vector[k])
      OBVIOUS
    <2>3. out[z].weight = WeightAfter(b, d, x) * y.weight /\ out[z].vector = PairVector(x, y)
      BY <1>5
    <2> HIDE DEF x, y
    <2>4. f[z] = OnePart(b, d, j, k, x, y) + TwoPart(b, d, j, k, x, y)
      BY <1>11, <2>1
    <2>5. /\ out[z].vector[j] = Gained(b, x, j) + Gained(b, y, j)
          /\ out[z].vector[k] = Gained(b, x, k) + Gained(b, y, k)
      BY <2>1, <2>3, PairVectorIs
    <2>6. (WeightAfter(b, d, x) * y.weight)
            * ((Gained(b, x, j) + Gained(b, y, j)) * (Gained(b, x, k) + Gained(b, y, k)))
          = OnePart(b, d, j, k, x, y) + TwoPart(b, d, j, k, x, y)
      BY <2>1, PairSplit
    <2> HIDE DEF g
    <2> QED
      BY ONLY <2>2, <2>3, <2>4, <2>5, <2>6
  <1>22. \A z \in e \X e : z \notin Z => f[z] = 0
    <2> TAKE z \in e \X e
    <2>1. z[1] \in e /\ z[2] \in e /\ z = <<z[1], z[2]>>
      OBVIOUS
    <2>2. f[<<z[1], z[2]>>] = OnePart(b, d, j, k, z[1], z[2]) + TwoPart(b, d, j, k, z[1], z[2])
      BY <1>11, <2>1
    <2>3. z \notin Z => ~Meet(d, z[1], z[2])
      BY <1>4
    <2> QED
      BY <2>1, <2>2, <2>3 DEF OnePart, TwoPart
  <1>23. g \in [Z -> Int]
    <2>1. \A z \in Z : f[z] \in Int
      BY <1>6, <1>11
    <2>2. g = [z \in Z |-> g[z]]
      OBVIOUS
    <2> HIDE DEF g
    <2> QED
      BY <1>21, <2>1, <2>2
  <1>24. SumFunction(f) = SumFunction(g)
    <2> DEFINE D == e \X e
    <2>1. /\ IsFiniteSet(D) /\ f \in [D -> Int] /\ Z \subseteq D /\ g \in [Z -> Int]
          /\ \A z \in Z : g[z] = f[z]
          /\ \A z \in D : z \notin Z => f[z] = 0
      BY <1>6, <1>8, <1>11, <1>21, <1>22, <1>23
    <2> HIDE DEF D
    <2> QED
      BY ONLY <2>1, SumPadded
  <1>25. WalkSum(b, b.horizon, Square(b, j, k)) \in Int /\ WalkSum(b, d, Repeated(b, d, j, k)) \in Int
    BY SquareType, RepeatedType
  <1>26. \A u, v \in Int : (m * u + 2 * v) + m * u = 2 * (m * u) + 2 * v
    <2> HIDE DEF m
    <2> QED
      BY <1>18
  <1> HIDE DEF g
  <1> QED
    BY <1>1, <1>7, <1>17, <1>19, <1>20, <1>24, <1>25, <1>26

-----------------------------------------------------------------------------
(* Squares, scales and divisions *)

LEMMA SumNatural ==
  ASSUME NEW D, IsFiniteSet(D), NEW f \in [D -> Nat] PROVE SumFunction(f) \in Nat
  <1> DEFINE X == {S \in SUBSET D : SumFunctionOnSet(f, S) \in Nat}
  <1>1. {} \in X
    BY OnEmpty
  <1>2. ASSUME NEW S \in SUBSET D, NEW x \in D \ S, S \in X PROVE S \cup {x} \in X
    <2>1. IsFiniteSet(S) /\ IsFiniteSet({x}) /\ S \cap {x} = {}
      BY FS_Subset, FS_Singleton
    <2>2. SumFunctionOnSet(f, S) \in Nat
      BY <1>2
    <2> DEFINE T == S \cup {x}
    <2>3. IsFiniteSet(T) /\ x \in T /\ T \ {x} = S /\ \A y \in T : f[y] \in Int
      <3>1. IsFiniteSet(T)
        BY <2>1, FS_AddElement
      <3>2. x \in T /\ T \ {x} = S
        OBVIOUS
      <3>3. \A y \in T : f[y] \in Int
        OBVIOUS
      <3> QED
        BY <3>1, <3>2, <3>3
    <2> HIDE DEF T
    <2>4. SumFunctionOnSet(f, T) = f[x] + SumFunctionOnSet(f, T \ {x})
      BY <2>3, OnRemove
    <2>5. SumFunctionOnSet(f, T) \in Nat
      BY <2>2, <2>3, <2>4
    <2> QED
      BY <2>5 DEF T
  <1> HIDE DEF X
  <1>3. D \in X
    BY <1>1, <1>2, FiniteSetInduction
  <1>4. SumFunction(f) = SumFunctionOnSet(f, D)
    BY SumOf
  <1> QED
    BY <1>3, <1>4 DEF X

LEMMA WalkNatural ==
  ASSUME NEW b, NEW n, Known(b, n), NEW F, F \in [Walks(b, n) -> Nat]
  PROVE  WalkSum(b, n, F) \in Nat
  <1> DEFINE D == Walks(b, n)
             f == [p \in D |-> PathWeight(b, n, p) * F[p]]
  <1>1. IsFiniteSet(D) /\ \A p \in D : PathWeight(b, n, p) \in Nat /\ F[p] \in Nat
    BY KnownIs
  <1>2. \A u, v \in Nat : u * v \in Nat
    OBVIOUS
  <1>3. f \in [D -> Nat]
    BY <1>1, <1>2
  <1>4. WalkSum(b, n, F) = SumFunction(f)
    BY DEF WalkSum
  <1> HIDE DEF D, f
  <1> QED
    BY <1>1, <1>3, <1>4, SumNatural

LEMMA SquareNatural == \A z \in Int : z * z \in Nat
  OBVIOUS

LEMMA PowerAdd ==
  ASSUME NEW x \in Int, NEW m \in Nat
  PROVE  \A n \in Nat : Power(x, m + n) = Power(x, m) * Power(x, n)
  <1> DEFINE X == {n \in Nat : Power(x, m + n) = Power(x, m) * Power(x, n)}
  <1>0. \A n \in Nat : Power(x, n) \in Int
    BY PowerNext
  <1>1. 0 \in X
    <2>1. Power(x, 0) = 1 /\ m + 0 = m /\ Power(x, m) \in Int
      BY <1>0, PowerZero
    <2> QED
      BY <2>1
  <1>2. ASSUME NEW n \in Nat, n \in X PROVE n + 1 \in X
    <2>1. Power(x, m + n) = Power(x, m) * Power(x, n)
      BY <1>2
    <2>2. m + n \in Nat /\ m + (n + 1) = (m + n) + 1
      OBVIOUS
    <2>3. Power(x, (m + n) + 1) = x * Power(x, m + n)
      BY <2>2, PowerNext
    <2>4. Power(x, n + 1) = x * Power(x, n)
      BY PowerNext
    <2>5. Power(x, m) \in Int /\ Power(x, n) \in Int
      BY <1>0
    <2>6. \A u, v \in Int : x * (u * v) = u * (x * v)
      OBVIOUS
    <2>7. Power(x, m + (n + 1)) = Power(x, m) * Power(x, n + 1)
      BY ONLY <2>1, <2>2, <2>3, <2>4, <2>5, <2>6
    <2> QED
      BY <2>7
  <1> HIDE DEF X
  <1>3. Nat \subseteq X
    BY <1>1, <1>2, NatSetInduction
  <1> QED
    BY <1>3 DEF X

LEMMA ScaleAdd ==
  ASSUME NEW b, IsBucket(b), NEW m \in Nat, NEW n \in Nat
  PROVE  PathScale(b, m + n) = PathScale(b, m) * PathScale(b, n)
  <1>1. Unit * MoveUnit(b) \in Int
    BY ScaleFacts
  <1> QED
    BY <1>1, PowerAdd DEF PathScale

LEMMA DivExact == ASSUME NEW k \in Nat \ {0}, NEW z \in Int PROVE (k * z) \div k = z
  <1> DEFINE q == (k * z) \div k
             r == (k * z) % k
  <1>1. k * z \in Int /\ k \in Int /\ k > 0
    OBVIOUS
  <1>2. \A n \in Int : n \div k \in Int /\ n % k \in 0..(k - 1) /\ n = k * (n \div k) + (n % k)
    OBVIOUS
  <1>3. q \in Int /\ r \in 0..(k - 1) /\ k * z = k * q + r
    BY <1>1, <1>2
  <1> HIDE DEF q, r
  <1>4. k * (z - q) = r
    BY <1>3
  <1>5. ~(z - q >= 1) /\ ~(z - q <= 0 - 1)
    BY <1>3, <1>4
  <1>6. z = q
    BY <1>3, <1>5
  <1> QED
    BY <1>6 DEF q

-----------------------------------------------------------------------------
(* The closed form for K continuations *)

\* The expected square after d decisions, given the prefix, is at most that of
\* the whole: the variance of the rest is not negative.
LEMMA PrefixSquare ==
  ASSUME NEW b, IsBucket(b), ~Focal(b), NEW d \in Nat, d <= b.horizon, NEW j \in Logit
  PROVE  /\ WalkSum(b, d, Repeated(b, d, j, j)) \in Nat
         /\ WalkSum(b, d, Repeated(b, d, j, j))
              <= PathScale(b, b.horizon - d) * WalkSum(b, b.horizon, Square(b, j, j))
  <1> DEFINE h == b.horizon
             D == Walks(b, h)
             P == PathScale(b, h - d)
             S == Square(b, j, j)
             R == Repeated(b, d, j, j)
             A == [p \in D |-> Gain(b, j)[p] * Expected(b, d, Stem(p, d), j)]
             B == [p \in D |-> R[Stem(p, d)]]
             C == [p \in D |-> 1 * B[p] + (0 - 2 * P) * A[p]]
             F == [p \in D |-> (P * P) * S[p] + 1 * C[p]]
             s == WalkSum(b, h, S)
             r == WalkSum(b, d, R)
  <1>1. h \in Nat /\ d \in 0..h /\ h - d \in Nat /\ Known(b, h) /\ Known(b, d)
    BY BucketIs DEF Known
  <1>2. P \in Nat \ {0} /\ P \in Int /\ P * P \in Int /\ 0 - 2 * P \in Int
    <2>1. P \in Nat \ {0}
      BY <1>1, ScaleFacts
    <2> HIDE DEF P
    <2> QED
      BY <2>1
  <1>3. S \in [D -> Int] /\ s \in Int
        /\ \A p \in D : S[p] = Gain(b, j)[p] * Gain(b, j)[p] /\ Gain(b, j)[p] \in Int
    BY SquareType
  <1>4. /\ R \in [Walks(b, d) -> Int] /\ r \in Int
        /\ \A c \in Walks(b, d) : R[c] = Expected(b, d, c, j) * Expected(b, d, c, j)
                                  /\ Expected(b, d, c, j) \in Int
    BY RepeatedType
  <1>5. \A p \in D : Stem(p, d) \in Walks(b, d)
    BY <1>1, StemFacts
  <1> HIDE DEF S, R, P
  <1>6. /\ \A p \in D : A[p] = Gain(b, j)[p] * Expected(b, d, Stem(p, d), j)
        /\ \A p \in D : B[p] = R[Stem(p, d)]
    OBVIOUS
  <1>7. A \in [D -> Int] /\ B \in [D -> Int]
    <2>1. \A u, v \in Int : u * v \in Int
      OBVIOUS
    <2>2. \A p \in D : Gain(b, j)[p] * Expected(b, d, Stem(p, d), j) \in Int /\ R[Stem(p, d)] \in Int
      BY <1>3, <1>4, <1>5, <2>1
    <2> QED
      BY <2>2
  <1> HIDE DEF A, B, D
  <1>8. C \in [D -> Int] /\ \A p \in D : C[p] = 1 * B[p] + (0 - 2 * P) * A[p]
    <2>1. \A u, v, w \in Int : 1 * u + v * w \in Int
      OBVIOUS
    <2> QED
      BY <1>2, <1>7, <2>1
  <1> HIDE DEF C
  <1>9. F \in [D -> Int] /\ \A p \in D : F[p] = (P * P) * S[p] + 1 * C[p]
    <2>1. \A u, v, w \in Int : u * v + 1 * w \in Int
      OBVIOUS
    <2> QED
      BY <1>2, <1>3, <1>8, <2>1
  <1> HIDE DEF F
  <1>10. WalkSum(b, h, C) = 1 * WalkSum(b, h, B) + (0 - 2 * P) * WalkSum(b, h, A)
    <2>1. Combines(Walks(b, h), B, A, 1, 0 - 2 * P, C)
      BY <1>2, <1>7, <1>8 DEF Combines, D
    <2> QED
      BY <1>1, <2>1, WalkLinear
  <1>11. WalkSum(b, h, F) = (P * P) * s + 1 * WalkSum(b, h, C)
    <2>1. Combines(Walks(b, h), S, C, P * P, 1, F)
      BY <1>2, <1>3, <1>8, <1>9 DEF Combines, D
    <2> QED
      BY <1>1, <2>1, WalkLinear
  <1>12. WalkSum(b, h, A) = r
    <2>1. A \in [Walks(b, b.horizon) -> Int]
          /\ \A p \in Walks(b, b.horizon) : A[p] = Gain(b, j)[p] * Expected(b, d, Stem(p, d), j)
      BY <1>6, <1>7 DEF D
    <2> QED
      BY <2>1, GainAhead DEF R
  <1>13. WalkSum(b, h, B) = P * r
    <2>1. B \in [Walks(b, b.horizon) -> Int]
          /\ \A p \in Walks(b, b.horizon) : B[p] = R[Stem(p, d)]
      BY <1>6, <1>7 DEF D
    <2> QED
      BY <1>4, <2>1, MassAhead DEF P
  <1>14. ASSUME NEW p \in D PROVE F[p] \in Nat
    <2> DEFINE g == Gain(b, j)[p]
               m == Expected(b, d, Stem(p, d), j)
               z == P * g - m
    <2>1. g \in Int /\ m \in Int
      BY <1>3, <1>4, <1>5
    <2>2. S[p] = g * g /\ A[p] = g * m /\ B[p] = m * m
      BY <1>3, <1>4, <1>5, <1>6
    <2>3. F[p] = (P * P) * S[p] + 1 * (1 * B[p] + (0 - 2 * P) * A[p])
      BY <1>8, <1>9
    <2> HIDE DEF g, m
    <2>4. z \in Int
      BY <1>2, <2>1
    <2>5. (P * P) * (g * g) + 1 * (1 * (m * m) + (0 - 2 * P) * (g * m)) = z * z
      BY ONLY <1>2, <2>1 DEF z
    <2> HIDE DEF z
    <2>6. F[p] = z * z
      BY ONLY <2>2, <2>3, <2>5
    <2> QED
      BY <2>4, <2>6, SquareNatural
  <1>15. WalkSum(b, h, F) \in Nat
    <2>1. F \in [Walks(b, h) -> Nat]
      BY <1>9, <1>14 DEF D
    <2> QED
      BY <1>1, <2>1, WalkNatural
  <1> HIDE DEF s, r
  <1>16. (P * P) * s + 1 * (1 * (P * r) + (0 - 2 * P) * r) = P * (P * s - r)
    BY ONLY <1>2, <1>3, <1>4
  <1>17. P * (P * s - r) >= 0
    BY <1>10, <1>11, <1>12, <1>13, <1>15, <1>16 DEF r
  <1>18. r <= P * s
    <2> DEFINE z == P * s - r
    <2>1. z \in Int /\ P * z >= 0 /\ P * s \in Int
      BY <1>2, <1>3, <1>4, <1>17
    <2>2. z <= 0 - 1 => P * z <= 0 - 1
      <3> HIDE DEF z
      <3> QED
        BY <1>2, <2>1
    <2> HIDE DEF z
    <2>3. z >= 0
      BY <1>2, <2>1, <2>2
    <2> QED
      BY <1>4, <2>1, <2>3 DEF z
  <1>19. r \in Nat
    <2>1. R \in [Walks(b, d) -> Nat]
      <3>1. \A c \in Walks(b, d) : R[c] \in Nat
        BY <1>4, SquareNatural
      <3> QED
        BY <1>4, <3>1
    <2> QED
      BY <1>1, <2>1, WalkNatural DEF r
  <1> QED
    BY <1>18, <1>19 DEF r, s, R, S, P

Whole(b, j, k) == PathScale(b, b.horizon) * WalkSum(b, b.horizon, Square(b, j, k))
Within(b, d, j, k) == PathScale(b, d) * WalkSum(b, d, Repeated(b, d, j, k))

LEMMA WidthFacts ==
  ASSUME NEW w \in BranchWidths
  PROVE  w \in Nat \ {0, 1} /\ Widest \div w \in Nat \ {0} /\ Widest = w * (Widest \div w)
  <1>1. w \in Nat \ {0, 1} /\ Widest % w = 0 /\ Widest \in Nat \ {0}
    BY BranchAssumption
  <1>2. \A n \in Int : n \div w \in Int /\ n = w * (n \div w) + (n % w)
    BY <1>1
  <1> DEFINE q == Widest \div w
  <1>3. q \in Int /\ Widest = w * q
    BY <1>1, <1>2
  <1> HIDE DEF q
  <1>4. q > 0
    BY <1>1, <1>3
  <1> QED
    BY <1>1, <1>3, <1>4 DEF q

LEMMA DenseWhole ==
  ASSUME NEW b, IsBucket(b), NEW j \in Logit, NEW k \in Logit
  PROVE  /\ DOMAIN DenseMoments(b).second = Logit \X Logit
         /\ DenseMoments(b).second[<<j, k>>] = Widest * Whole(b, j, k)
         /\ Whole(b, j, k) \in Int /\ Widest \in Nat \ {0} /\ PathScale(b, b.horizon) \in Nat \ {0}
  <1> DEFINE m == SecondMoment(DenseCycle(b))
             P == PathScale(b, b.horizon)
             s == WalkSum(b, b.horizon, Square(b, j, k))
  <1>1. m \in [Logit \X Logit -> Int] /\ m[<<j, k>>] = s
    BY DenseSecond
  <1>2. P \in Nat \ {0}
    BY BucketIs, ScaleFacts
  <1>3. Widest \in Nat \ {0}
    BY BranchAssumption
  <1>4. s \in Int
    BY SquareType
  <1>5. DenseMoments(b).second = [x \in Logit \X Logit |-> (Widest * P) * m[x]]
    BY <1>1 DEF DenseMoments, Times3
  <1>6. DenseMoments(b).second[<<j, k>>] = (Widest * P) * s
    <2> HIDE DEF m, s, P
    <2> QED
      BY <1>1, <1>5
  <1> HIDE DEF m, s, P
  <1>7. (Widest * P) * s = Widest * (P * s) /\ P * s \in Int
    BY ONLY <1>2, <1>3, <1>4
  <1> QED
    BY <1>2, <1>3, <1>5, <1>6, <1>7 DEF Whole, s, P

LEMMA KSampleSecond ==
  ASSUME NEW b, IsBucket(b), NEW d \in Nat, d < b.horizon, NEW w \in BranchWidths,
         NEW j \in Logit, NEW k \in Logit
  PROVE  /\ KSampleMoments(b, d, w).second[<<j, k>>]
              = (Widest \div w) * (Whole(b, j, k) + (w - 1) * Within(b, d, j, k))
         /\ Within(b, d, j, k) \in Int /\ DOMAIN MuMu(b, d) = Logit \X Logit
  <1> DEFINE dense == DenseMoments(b).second
             mumu == MuMu(b, d)
             n == Widest \div w
             one == [x \in Logit \X Logit |-> dense[x] \div w]
             two == Times3(n * (w - 1), mumu)
             A == Whole(b, j, k)
             B == Within(b, d, j, k)
  <1>1. w \in Nat \ {0, 1} /\ n \in Nat \ {0} /\ Widest = w * n
    BY WidthFacts
  <1>2. dense[<<j, k>>] = Widest * A /\ A \in Int
    BY DenseWhole
  <1>3. mumu[<<j, k>>] = B
    BY MuMuIs DEF Within
  <1>4. B \in Int
    <2>1. PathScale(b, d) \in Int
      BY ScaleFacts
    <2>2. d <= b.horizon
      BY BucketIs
    <2>3. WalkSum(b, d, Repeated(b, d, j, k)) \in Int
      BY <2>2, RepeatedType
    <2>4. \A u, v \in Int : u * v \in Int
      OBVIOUS
    <2> QED
      BY <2>1, <2>3, <2>4 DEF Within
  <1>5. DOMAIN mumu = Logit \X Logit
    BY DEF MuMu, Times3, SecondMoment
  <1>6. KSampleMoments(b, d, w).second = Plus(one, two)
    BY DEF KSampleMoments
  <1> HIDE DEF dense, mumu, n, A, B
  <1>7. two = [x \in Logit \X Logit |-> (n * (w - 1)) * mumu[x]]
    BY <1>5 DEF Times3
  <1>8. Plus(one, two)[<<j, k>>] = (dense[<<j, k>>] \div w) + (n * (w - 1)) * mumu[<<j, k>>]
    BY <1>7 DEF Plus
  <1>9. dense[<<j, k>>] \div w = n * A
    <2> DEFINE z == n * A
    <2>1. z \in Int /\ dense[<<j, k>>] = w * z
      <3>1. (w * n) * A = w * (n * A) /\ n * A \in Int
        BY ONLY <1>1, <1>2
      <3> QED
        BY <1>1, <1>2, <3>1
    <2> HIDE DEF z
    <2>2. (w * z) \div w = z
      BY <1>1, <2>1, DivExact
    <2> QED
      BY <2>1, <2>2 DEF z
  <1>10. n * A + (n * (w - 1)) * B = n * (A + (w - 1) * B)
    BY ONLY <1>1, <1>2, <1>4
  <1> QED
    BY <1>3, <1>4, <1>5, <1>6, <1>8, <1>9, <1>10 DEF n, A, B, mumu

\* The closed form for two continuations is what enumerating them gives.
LEMMA PairsAreExact ==
  ASSUME NEW b, IsBucket(b), ~Focal(b), NEW d \in Nat, d < b.horizon, 2 \in BranchWidths,
         NEW x \in DOMAIN SecondMoment(TwoSampleCycle(b, d))
  PROVE  4 * KSampleMoments(b, d, 2).second[x] * PathScale(b, b.horizon - d)
           = SecondMoment(TwoSampleCycle(b, d))[x] * Widest * PathScale(b, b.horizon)
  <1> DEFINE n == Widest \div 2
             P == PathScale(b, b.horizon)
             Q == PathScale(b, b.horizon - d)
             R == PathScale(b, d)
             j == x[1]
             k == x[2]
             s == WalkSum(b, b.horizon, Square(b, j, k))
             r == WalkSum(b, d, Repeated(b, d, j, k))
  <1>1. d <= b.horizon /\ b.horizon - d \in Nat /\ d + (b.horizon - d) = b.horizon /\ b.horizon \in Nat
    BY BucketIs
  <1>2. \A i \in Logit : DOMAIN SecondMoment(TwoSampleCycle(b, d)) = Logit \X Logit
    BY <1>1, TwoSampleSecond
  <1>3. 1 \in Logit
    BY DEF Logit
  <1>4. x = <<j, k>> /\ j \in Logit /\ k \in Logit
    BY <1>2, <1>3
  <1> HIDE DEF j, k
  <1>5. SecondMoment(TwoSampleCycle(b, d))[<<j, k>>] = 2 * (Q * s) + 2 * r
    BY <1>1, <1>4, TwoSampleSecond
  <1>6. KSampleMoments(b, d, 2).second[<<j, k>>] = n * (Whole(b, j, k) + (2 - 1) * Within(b, d, j, k))
    BY <1>4, KSampleSecond
  <1>7. n \in Nat \ {0} /\ Widest = 2 * n
    BY WidthFacts
  <1>8. P \in Int /\ Q \in Int /\ R \in Int
    BY <1>1, ScaleFacts
  <1>9. P = R * Q
    <2>1. PathScale(b, d + (b.horizon - d)) = PathScale(b, d) * PathScale(b, b.horizon - d)
      BY <1>1, ScaleAdd
    <2> QED
      BY <1>1, <2>1
  <1>10. s \in Int
    BY <1>4, SquareType
  <1>11. r \in Int
    BY <1>1, <1>4, RepeatedType
  <1>12. Whole(b, j, k) = P * s /\ Within(b, d, j, k) = R * r
    BY DEF Whole, Within
  <1> HIDE DEF n, P, Q, R, s, r
  <1>13. (4 * (n * ((R * Q) * s + (2 - 1) * (R * r)))) * Q = ((2 * (Q * s) + 2 * r) * (2 * n)) * (R * Q)
    BY ONLY <1>7, <1>8, <1>10, <1>11
  <1>14. 4 * KSampleMoments(b, d, 2).second[<<j, k>>] * Q
           = SecondMoment(TwoSampleCycle(b, d))[<<j, k>>] * Widest * P
    BY ONLY <1>5, <1>6, <1>7, <1>9, <1>12, <1>13
  <1> QED
    BY <1>4, <1>14 DEF P, Q

LEMMA WithinBelow ==
  ASSUME NEW b, IsBucket(b), ~Focal(b), NEW d \in Nat, d < b.horizon, NEW j \in Logit
  PROVE  Within(b, d, j, j) \in Nat /\ Within(b, d, j, j) <= Whole(b, j, j) /\ Whole(b, j, j) \in Int
  <1> DEFINE Q == PathScale(b, b.horizon - d)
             R == PathScale(b, d)
             s == WalkSum(b, b.horizon, Square(b, j, j))
             r == WalkSum(b, d, Repeated(b, d, j, j))
  <1>1. d <= b.horizon /\ b.horizon - d \in Nat /\ d + (b.horizon - d) = b.horizon /\ b.horizon \in Nat
    BY BucketIs
  <1>2. Q \in Nat \ {0} /\ R \in Nat \ {0}
    BY <1>1, ScaleFacts
  <1>3. PathScale(b, b.horizon) = R * Q
    <2>1. PathScale(b, d + (b.horizon - d)) = PathScale(b, d) * PathScale(b, b.horizon - d)
      BY <1>1, ScaleAdd
    <2> QED
      BY <1>1, <2>1
  <1>4. s \in Int
    BY SquareType
  <1>5. r \in Nat /\ r <= Q * s
    BY <1>1, PrefixSquare
  <1>6. Whole(b, j, j) = (R * Q) * s /\ Within(b, d, j, j) = R * r
    BY <1>3 DEF Whole, Within
  <1> HIDE DEF Q, R, s, r
  <1> DEFINE z == Q * s
  <1>7. z \in Int /\ (R * Q) * s = R * z
    BY ONLY <1>2, <1>4
  <1>8. r <= z
    BY <1>5
  <1> HIDE DEF z
  <1>9. R * r \in Nat /\ R * z \in Int
    BY ONLY <1>2, <1>5, <1>7
  <1>10. R * (z - r) \in Nat /\ R * z = R * r + R * (z - r)
    <2> DEFINE y == z - r
    <2>1. y \in Nat /\ z = r + y
      BY <1>5, <1>7, <1>8
    <2> HIDE DEF y
    <2>2. R * y \in Nat /\ R * (r + y) = R * r + R * y
      BY ONLY <1>2, <1>5, <2>1
    <2> QED
      BY <2>1, <2>2 DEF y
  <1>11. R * r <= R * z
    BY ONLY <1>9, <1>10
  <1> QED
    BY <1>6, <1>7, <1>9, <1>11

LEMMA Averaging ==
  ASSUME NEW w \in Nat \ {0}, NEW n \in Nat \ {0}, NEW A \in Int, NEW B \in Nat, B <= A
  PROVE  /\ n * (A + (w - 1) * B) = n * (A - B) + (w * n) * B
         /\ n * (A - B) \in Nat /\ n * (A - B) <= (w * n) * (A - B)
         /\ (w * n) * A = (w * n) * (A - B) + (w * n) * B
         /\ (w * n) * (A - B) \in Int /\ (w * n) * B \in Int
  <1> DEFINE y == A - B
  <1>1. y \in Nat /\ A = y + B
    OBVIOUS
  <1> HIDE DEF y
  <1>2. n * (y + B + (w - 1) * B) = n * y + (w * n) * B
    BY ONLY <1>1, w \in Nat \ {0}, n \in Nat \ {0}, B \in Nat
  <1>3. n * y \in Nat /\ (w - 1) * (n * y) \in Nat /\ (w * n) * y = n * y + (w - 1) * (n * y)
    <2> DEFINE z == n * y
    <2>1. z \in Nat /\ (w * n) * y = w * z
      BY ONLY <1>1, w \in Nat \ {0}, n \in Nat \ {0}
    <2> HIDE DEF z
    <2>2. w - 1 \in Nat /\ w * z = z + (w - 1) * z
      BY ONLY <2>1, w \in Nat \ {0}
    <2>3. \A u, v \in Nat : u * v \in Nat
      OBVIOUS
    <2>4. (w - 1) * z \in Nat
      BY ONLY <2>1, <2>2, <2>3
    <2> QED
      BY <2>1, <2>2, <2>4 DEF z
  <1>4. (w * n) * (y + B) = (w * n) * y + (w * n) * B /\ (w * n) * B \in Int
    BY ONLY <1>1, w \in Nat \ {0}, n \in Nat \ {0}, B \in Nat
  <1> DEFINE p == n * y
             q == (w - 1) * p
  <1>5. p \in Nat /\ q \in Nat /\ (w * n) * y = p + q
    BY <1>3
  <1> HIDE DEF p, q
  <1>6. p <= p + q /\ p + q \in Int
    BY <1>5
  <1>7. n * y <= (w * n) * y /\ (w * n) * y \in Int
    BY <1>5, <1>6 DEF p
  <1> QED
    BY <1>1, <1>2, <1>3, <1>4, <1>7 DEF y

\* More continuations never raise a second moment.
LEMMA MoreIsBetter ==
  ASSUME NEW b, IsBucket(b), ~Focal(b), NEW d \in Nat, d < b.horizon, NEW w \in BranchWidths,
         NEW j \in Logit
  PROVE  /\ KSampleMoments(b, d, w).second[<<j, j>>] <= DenseMoments(b).second[<<j, j>>]
         /\ 2 \in BranchWidths =>
              KSampleMoments(b, d, w).second[<<j, j>>] <= KSampleMoments(b, d, 2).second[<<j, j>>]
  <1> DEFINE A == Whole(b, j, j)
             B == Within(b, d, j, j)
             n == Widest \div w
             m == Widest \div 2
             y == A - B
             c == Widest * B
  <1>1. A \in Int /\ B \in Nat /\ B <= A
    BY WithinBelow
  <1>2. w \in Nat \ {0, 1} /\ n \in Nat \ {0} /\ Widest = w * n
    BY WidthFacts
  <1>3. 2 \in BranchWidths => m \in Nat \ {0} /\ Widest = 2 * m
    BY WidthFacts
  <1>4. DenseMoments(b).second[<<j, j>>] = Widest * A
    BY DenseWhole
  <1>5. KSampleMoments(b, d, w).second[<<j, j>>] = n * (A + (w - 1) * B)
    BY KSampleSecond
  <1>6. 2 \in BranchWidths =>
          KSampleMoments(b, d, 2).second[<<j, j>>] = m * (A + (2 - 1) * B)
    BY KSampleSecond
  <1> HIDE DEF A, B, n, m
  <1>7. /\ n * (A + (w - 1) * B) = n * (A - B) + (w * n) * B
        /\ n * (A - B) \in Nat /\ n * (A - B) <= (w * n) * (A - B)
        /\ (w * n) * A = (w * n) * (A - B) + (w * n) * B
        /\ (w * n) * (A - B) \in Int /\ (w * n) * B \in Int
    <2>1. w \in Nat \ {0} /\ n \in Nat \ {0}
      BY <1>2
    <2> QED
      BY ONLY <1>1, <2>1, Averaging
  <1>8. 2 \in BranchWidths =>
          /\ m * (A + (2 - 1) * B) = m * (A - B) + (2 * m) * B
          /\ m * (A - B) \in Nat
    <2> SUFFICES ASSUME 2 \in BranchWidths
                 PROVE  /\ m * (A + (2 - 1) * B) = m * (A - B) + (2 * m) * B
                        /\ m * (A - B) \in Nat
      OBVIOUS
    <2>1. 2 \in Nat \ {0} /\ m \in Nat \ {0}
      BY <1>3
    <2> DEFINE v == 2
    <2>2. v \in Nat \ {0}
      OBVIOUS
    <2> HIDE DEF v
    <2>3. /\ m * (A + (v - 1) * B) = m * (A - B) + (v * m) * B
          /\ m * (A - B) \in Nat /\ m * (A - B) <= (v * m) * (A - B)
          /\ (v * m) * A = (v * m) * (A - B) + (v * m) * B
          /\ (v * m) * (A - B) \in Int /\ (v * m) * B \in Int
      BY ONLY <1>1, <2>1, <2>2, Averaging
    <2> QED
      BY <2>3 DEF v
  <1>9. KSampleMoments(b, d, w).second[<<j, j>>] <= DenseMoments(b).second[<<j, j>>]
    <2> DEFINE x1 == n * (A - B)
               x2 == (w * n) * (A - B)
               x3 == (w * n) * B
    <2>1. x1 + x3 <= x2 + x3
      <3>1. x1 \in Nat /\ x2 \in Int /\ x3 \in Int /\ x1 <= x2
        BY <1>7
      <3> HIDE DEF x1, x2, x3
      <3> QED
        BY <3>1
    <2>2. Widest * A = (w * n) * A
      BY <1>2
    <2> QED
      BY ONLY <1>4, <1>5, <1>7, <2>1, <2>2 DEF x1, x2, x3
  <1>10. ASSUME 2 \in BranchWidths
         PROVE  KSampleMoments(b, d, w).second[<<j, j>>] <= KSampleMoments(b, d, 2).second[<<j, j>>]
    <2>1. m \in Nat \ {0} /\ Widest = 2 * m
      BY <1>3, <1>10
    <2>2. n <= m
      <3>1. w * n = 2 * m /\ w >= 2
        BY <1>2, <2>1
      <3>2. n > m => w * n > 2 * m
        <4> SUFFICES ASSUME n > m PROVE w * n > 2 * m
          OBVIOUS
        <4> DEFINE u == w - 2
        <4>1. u \in Nat /\ w = u + 2 /\ n \in Nat
          BY <1>2
        <4> HIDE DEF u
        <4>2. u * n \in Nat /\ (u + 2) * n = u * n + 2 * n
          BY ONLY <4>1
        <4>3. 2 * n > 2 * m
          BY <1>2, <2>1
        <4> QED
          BY ONLY <4>1, <4>2, <4>3, <2>1
      <3> QED
        BY <1>2, <2>1, <3>1, <3>2
    <2>3. n * (A - B) <= m * (A - B)
      <3> DEFINE z == A - B
                 u == m - n
      <3>1. z \in Nat /\ u \in Nat /\ m = n + u /\ n \in Nat
        BY <1>1, <1>2, <2>1, <2>2
      <3> HIDE DEF z, u
      <3>2. u * z \in Nat /\ (n + u) * z = n * z + u * z /\ n * z \in Nat
        BY ONLY <3>1
      <3>3. n * z <= m * z
        BY ONLY <3>1, <3>2
      <3> QED
        BY <3>3 DEF z
    <2> DEFINE x1 == n * (A - B)
               x2 == m * (A - B)
               x3 == (w * n) * B
    <2>4. x1 + x3 <= x2 + x3
      <3>1. x1 \in Nat /\ x2 \in Nat /\ x3 \in Int /\ x1 <= x2
        BY <1>7, <1>8, <1>10, <2>3
      <3> HIDE DEF x1, x2, x3
      <3> QED
        BY <3>1
    <2>5. (2 * m) * B = (w * n) * B
      BY <1>2, <2>1
    <2>6. /\ KSampleMoments(b, d, w).second[<<j, j>>] = x1 + x3
          /\ KSampleMoments(b, d, 2).second[<<j, j>>] = x2 + x3
      <3> HIDE DEF x1, x2, x3
      <3>1. /\ n * (A + (w - 1) * B) = x1 + x3
            /\ m * (A + (2 - 1) * B) = x2 + x3
        BY <1>7, <1>8, <1>10, <2>5 DEF x1, x2, x3
      <3> QED
        BY <1>5, <1>6, <1>10, <3>1
    <2> HIDE DEF x1, x2, x3
    <2> QED
      BY <2>4, <2>6
  <1> QED
    BY <1>9, <1>10

-----------------------------------------------------------------------------
(* Independent buckets *)

\* The sum over the rows of an expression in the gains to two logits.
Affine(b, j, k, z, r) ==
  z[1] + (z[2] * Gained(b, r, j) + (z[3] * Gained(b, r, k) + z[4] * (Gained(b, r, j) * Gained(b, r, k))))

LEMMA AffineSum ==
  ASSUME NEW b, IsBucket(b), NEW j \in Logit, NEW k \in Logit, NEW z, z \in [1..4 -> Int],
         NEW g, g = [r \in Enumerated(b) |-> r.weight * Affine(b, j, k, z, r)]
  PROVE  /\ g \in [Enumerated(b) -> Int]
         /\ SumFunction(g)
              = PathScale(b, b.horizon) * z[1]
                + (z[2] * SharedGradient(b)[j]
                   + (z[3] * SharedGradient(b)[k] + z[4] * WalkSum(b, b.horizon, Square(b, j, k))))
  <1> DEFINE h == b.horizon
             D == Walks(b, h)
             X == Gain(b, j)
             Y == Gain(b, k)
             S == Square(b, j, k)
             A == [p \in D |-> z[1]]
             B == [p \in D |-> z[3] * Y[p] + z[4] * S[p]]
             C == [p \in D |-> z[2] * X[p] + 1 * B[p]]
             F == [p \in D |-> 1 * A[p] + 1 * C[p]]
             sx == WalkSum(b, h, X)
             sy == WalkSum(b, h, Y)
             ss == WalkSum(b, h, S)
  <1>1. z[1] \in Int /\ z[2] \in Int /\ z[3] \in Int /\ z[4] \in Int
    OBVIOUS
  <1>2. Known(b, h)
    BY BucketIs DEF Known
  <1>3. X \in [D -> Int] /\ Y \in [D -> Int]
    BY GainIs
  <1>4. S \in [D -> Int] /\ \A p \in D : S[p] = X[p] * Y[p]
    BY SquareType
  <1>5. A \in [D -> Int] /\ \A p \in D : A[p] = z[1]
    BY <1>1
  <1> HIDE DEF X, Y, S, A
  <1>6. B \in [D -> Int] /\ \A p \in D : B[p] = z[3] * Y[p] + z[4] * S[p]
    <2>1. \A u, v \in Int : z[3] * u + z[4] * v \in Int
      BY <1>1
    <2> QED
      BY <1>3, <1>4, <2>1
  <1> HIDE DEF B
  <1>7. C \in [D -> Int] /\ \A p \in D : C[p] = z[2] * X[p] + 1 * B[p]
    <2>1. \A u, v \in Int : z[2] * u + 1 * v \in Int
      BY <1>1
    <2> QED
      BY <1>3, <1>6, <2>1
  <1> HIDE DEF C
  <1>8. F \in [D -> Int] /\ \A p \in D : F[p] = 1 * A[p] + 1 * C[p]
    <2>1. \A u, v \in Int : 1 * u + 1 * v \in Int
      OBVIOUS
    <2> QED
      BY <1>5, <1>7, <2>1
  <1> HIDE DEF F, D
  <1>9. WalkSum(b, h, B) = z[3] * sy + z[4] * ss /\ sy \in Int /\ ss \in Int
    <2>1. Combines(Walks(b, h), Y, S, z[3], z[4], B)
      BY <1>1, <1>3, <1>4, <1>6 DEF Combines, D
    <2> QED
      BY <1>2, <2>1, WalkLinear
  <1>10. WalkSum(b, h, C) = z[2] * sx + 1 * WalkSum(b, h, B) /\ sx \in Int
    <2>1. Combines(Walks(b, h), X, B, z[2], 1, C)
      BY <1>1, <1>3, <1>6, <1>7 DEF Combines, D
    <2> QED
      BY <1>2, <2>1, WalkLinear
  <1>11. WalkSum(b, h, F) = 1 * WalkSum(b, h, A) + 1 * WalkSum(b, h, C)
    <2>1. Combines(Walks(b, h), A, C, 1, 1, F)
      BY <1>5, <1>7, <1>8 DEF Combines, D
    <2> QED
      BY <1>2, <2>1, WalkLinear
  <1>12. WalkSum(b, h, A) = PathScale(b, h) * z[1]
    <2> DEFINE c == z[1]
    <2>1. c \in Int /\ A \in [Walks(b, b.horizon) -> Int] /\ \A p \in Walks(b, b.horizon) : A[p] = c
      BY <1>1, <1>5 DEF D
    <2> HIDE DEF c
    <2>2. WalkSum(b, b.horizon, A) = PathScale(b, b.horizon) * c
      BY <2>1, MassOfWalks
    <2> QED
      BY <2>2 DEF c
  <1>13. SharedGradient(b)[j] = sx /\ SharedGradient(b)[k] = sy
    BY SharedGradientIs DEF X, Y
  <1>14. PathScale(b, h) \in Int
    <2>1. h \in Nat
      BY BucketIs
    <2> QED
      BY <2>1, ScaleFacts
  <1> HIDE DEF sx, sy, ss
  <1>15. WalkSum(b, h, F) = PathScale(b, h) * z[1] + (z[2] * sx + (z[3] * sy + z[4] * ss))
    <2> DEFINE u == PathScale(b, h) * z[1]
               v == z[2] * sx
               w == z[3] * sy + z[4] * ss
    <2>1. u \in Int /\ v \in Int /\ w \in Int
      <3>1. \A m, n \in Int : m * n \in Int /\ m + n \in Int
        OBVIOUS
      <3>2. z[3] * sy \in Int /\ z[4] * ss \in Int
        BY <1>1, <1>9, <3>1
      <3> QED
        BY <1>1, <1>10, <1>14, <3>1, <3>2
    <2>2. WalkSum(b, h, F) = 1 * u + 1 * (v + 1 * w)
      BY <1>9, <1>10, <1>11, <1>12
    <2> HIDE DEF u, v, w
    <2>3. 1 * u + 1 * (v + 1 * w) = u + (v + w)
      BY <2>1
    <2> QED
      BY <2>2, <2>3 DEF u, v, w
  <1>16. ASSUME NEW r \in Enumerated(b) PROVE g[r] = r.weight * F[r.path]
    <2> DEFINE p == r.path
    <2>1. p \in D
      BY GainedType DEF D
    <2>2. Gained(b, r, j) = X[p] /\ Gained(b, r, k) = Y[p]
      BY DEF Gained, X, Y
    <2>3. F[p] = 1 * z[1] + 1 * (z[2] * X[p] + 1 * (z[3] * Y[p] + z[4] * (X[p] * Y[p])))
      BY <1>4, <1>5, <1>6, <1>7, <1>8, <2>1
    <2>4. X[p] \in Int /\ Y[p] \in Int
      BY <1>3, <2>1
    <2>5. g[r] = r.weight * Affine(b, j, k, z, r)
      OBVIOUS
    <2>6. 1 * z[1] + 1 * (z[2] * X[p] + 1 * (z[3] * Y[p] + z[4] * (X[p] * Y[p])))
            = z[1] + (z[2] * X[p] + (z[3] * Y[p] + z[4] * (X[p] * Y[p])))
      <3> DEFINE m == X[p]
                 n == Y[p]
                 s == m * n
                 x2 == z[2] * m
                 x3 == z[3] * n
                 x4 == z[4] * s
      <3>0. \A a, c \in Int : a * c \in Int
        OBVIOUS
      <3>1. m \in Int /\ n \in Int
        BY <2>4
      <3>2. s \in Int /\ x2 \in Int /\ x3 \in Int
        BY <1>1, <3>0, <3>1
      <3>3. x4 \in Int
        BY <1>1, <3>0, <3>2
      <3> HIDE DEF m, n, s, x2, x3, x4
      <3>4. 1 * z[1] + 1 * (x2 + 1 * (x3 + x4)) = z[1] + (x2 + (x3 + x4))
        BY <1>1, <3>2, <3>3
      <3> QED
        BY <3>4 DEF m, n, s, x2, x3, x4
    <2> QED
      BY <2>2, <2>3, <2>5, <2>6 DEF Affine
  <1>17. g \in [Enumerated(b) -> Int] /\ SumFunction(g) = WalkSum(b, b.horizon, F)
    <2>1. F \in [Walks(b, b.horizon) -> Int] /\ g = [r \in Enumerated(b) |-> g[r]]
      BY <1>8 DEF D
    <2>2. \A x \in Enumerated(b) : g[x] = x.weight * F[x.path]
      BY <1>16
    <2> QED
      BY ONLY IsBucket(b), <2>1, <2>2, EnumSum
  <1> QED
    BY <1>13, <1>15, <1>17 DEF ss, S, h

LEMMA JointOutcome ==
  ASSUME NEW b, IsBucket(b), NEW c, IsBucket(c), NEW x \in Enumerated(b), NEW y \in Enumerated(c)
  PROVE  /\ JointCycle(DenseCycle(b), DenseCycle(c))[<<x, y>>].weight = x.weight * y.weight
         /\ \A j \in Logit : JointCycle(DenseCycle(b), DenseCycle(c))[<<x, y>>].vector[j]
                               = Gained(b, x, j) + Gained(c, y, j)
  <1> DEFINE one == DenseCycle(b)
             two == DenseCycle(c)
             out == JointCycle(one, two)
             v == one[x].vector
             w == two[y].vector
  <1>1. DOMAIN one = Enumerated(b) /\ DOMAIN two = Enumerated(c)
    BY DEF DenseCycle
  <1>2. /\ one[x].weight = x.weight /\ DOMAIN v = Logit
        /\ \A j \in Logit : v[j] = Gain(b, j)[x.path]
    BY DenseOutcome
  <1>3. /\ two[y].weight = y.weight /\ DOMAIN w = Logit
        /\ \A j \in Logit : w[j] = Gain(c, j)[y.path]
    BY DenseOutcome
  <1> HIDE DEF one, two
  <1>4. /\ DOMAIN out = Enumerated(b) \X Enumerated(c)
        /\ out[<<x, y>>].weight = one[x].weight * two[y].weight
        /\ out[<<x, y>>].vector = Plus(v, w)
    BY <1>1 DEF JointCycle
  <1> HIDE DEF v, w, out
  <1>5. \A j \in Logit : Plus(v, w)[j] = v[j] + w[j]
    BY <1>2 DEF Plus
  <1> QED
    BY <1>2, <1>3, <1>4, <1>5 DEF Gained, out, one, two, v, w

\* The second moment of the sum of two independent buckets.
LEMMA JointSecond ==
  ASSUME NEW b, IsBucket(b), NEW c, IsBucket(c), NEW j \in Logit, NEW k \in Logit
  PROVE  LET m == SecondMoment(JointCycle(DenseCycle(b), DenseCycle(c)))
             g == SharedGradient(b)
             f == SharedGradient(c)
         IN /\ DOMAIN m = Logit \X Logit
            /\ m[<<j, k>>]
                 = PathScale(c, c.horizon) * WalkSum(b, b.horizon, Square(b, j, k))
                   + PathScale(b, b.horizon) * WalkSum(c, c.horizon, Square(c, j, k))
                   + (g[j] * f[k] + g[k] * f[j])
  <1> DEFINE A == Enumerated(b)
             B == Enumerated(c)
             out == JointCycle(DenseCycle(b), DenseCycle(c))
             term(x, y) == (x.weight * y.weight)
                             * ((Gained(b, x, j) + Gained(c, y, j)) * (Gained(b, x, k) + Gained(c, y, k)))
             f == [xy \in A \X B |-> out[xy].weight * (out[xy].vector[j] * out[xy].vector[k])]
             P == PathScale(b, b.horizon)
             Q == PathScale(c, c.horizon)
             s == WalkSum(b, b.horizon, Square(b, j, k))
             r == WalkSum(c, c.horizon, Square(c, j, k))
             gj == SharedGradient(b)[j]
             gk == SharedGradient(b)[k]
             hj == SharedGradient(c)[j]
             hk == SharedGradient(c)[k]
             z == [i \in 1..4 |-> IF i = 1 THEN r ELSE IF i = 2 THEN hk ELSE IF i = 3 THEN hj ELSE Q]
             row == [x \in A |-> [y \in B |-> term(x, y)]]
             H == [x \in A |-> x.weight * Affine(b, j, k, z, x)]
  <1>1. ASSUME NEW x \in A, NEW y \in B
        PROVE  /\ out[<<x, y>>].weight = x.weight * y.weight
               /\ out[<<x, y>>].vector[j] = Gained(b, x, j) + Gained(c, y, j)
               /\ out[<<x, y>>].vector[k] = Gained(b, x, k) + Gained(c, y, k)
    <2>1. x \in Enumerated(b) /\ y \in Enumerated(c)
      OBVIOUS
    <2>2. /\ JointCycle(DenseCycle(b), DenseCycle(c))[<<x, y>>].weight = x.weight * y.weight
          /\ \A i \in Logit : JointCycle(DenseCycle(b), DenseCycle(c))[<<x, y>>].vector[i]
                                = Gained(b, x, i) + Gained(c, y, i)
      BY ONLY IsBucket(b), IsBucket(c), <2>1, JointOutcome
    <2> QED
      BY ONLY <2>2, j \in Logit, k \in Logit DEF out
  <1>2. DOMAIN out = A \X B
    BY DEF JointCycle, DenseCycle
  <1>3. SecondMoment(out) = [jk \in Logit \X Logit |->
          SumFunction([xy \in A \X B |-> out[xy].weight * (out[xy].vector[jk[1]] * out[xy].vector[jk[2]])])]
    BY <1>2 DEF SecondMoment
  <1> HIDE DEF out
  <1>4. DOMAIN SecondMoment(out) = Logit \X Logit /\ SecondMoment(out)[<<j, k>>] = SumFunction(f)
    BY ONLY <1>3, j \in Logit, k \in Logit DEF f
  <1>5. /\ s \in Int /\ r \in Int /\ P \in Int /\ Q \in Int
        /\ gj \in Int /\ gk \in Int /\ hj \in Int /\ hk \in Int
    <2>1. s \in Int /\ r \in Int
      BY SquareType
    <2>2. gj \in Int /\ gk \in Int /\ hj \in Int /\ hk \in Int
      BY SharedGradientIs
    <2>3. b.horizon \in Nat /\ c.horizon \in Nat
      BY BucketIs
    <2>4. P \in Int /\ Q \in Int
      BY <2>3, ScaleFacts
    <2> QED
      BY <2>1, <2>2, <2>4
  <1>6. /\ \A x \in A : Gained(b, x, j) \in Int /\ Gained(b, x, k) \in Int /\ x.weight \in Int
        /\ \A y \in B : Gained(c, y, j) \in Int /\ Gained(c, y, k) \in Int /\ y.weight \in Int
    BY GainedType
  <1>7. IsFiniteSet(A) /\ IsFiniteSet(B)
    BY EnumeratedFinite
  <1> HIDE DEF A, B, s, r, P, Q, gj, gk, hj, hk
  <1>8. z \in [1..4 -> Int] /\ z[1] = r /\ z[2] = hk /\ z[3] = hj /\ z[4] = Q
    BY <1>5
  <1> HIDE DEF z
  <1>9. \A x \in A, y \in B : term(x, y) \in Int
    <2>1. \A t, u, v, w, n, m \in Int : (t * u) * ((v + w) * (n + m)) \in Int
      OBVIOUS
    <2> QED
      BY <1>6, <2>1
  <1>10. row \in [A -> [B -> Int]] /\ \A x \in A, y \in B : row[x][y] = term(x, y)
    BY <1>9
  <1>11. \A x \in A, y \in B : f[<<x, y>>] = term(x, y)
    BY <1>1
  <1>12. f \in [A \X B -> Int]
    <2>1. \A xy \in A \X B : f[xy] \in Int
      <3> TAKE xy \in A \X B
      <3>1. xy = <<xy[1], xy[2]>> /\ xy[1] \in A /\ xy[2] \in B
        OBVIOUS
      <3>2. f[<<xy[1], xy[2]>>] = term(xy[1], xy[2]) /\ term(xy[1], xy[2]) \in Int
        BY <1>9, <1>11, <3>1
      <3> HIDE DEF f, term
      <3> QED
        BY <3>1, <3>2
    <2>2. f = [xy \in A \X B |-> f[xy]]
      OBVIOUS
    <2> HIDE DEF f
    <2> QED
      BY <2>1, <2>2
  <1>13. \A x \in A : H[x] = x.weight * Affine(b, j, k, z, x)
    OBVIOUS
  <1> HIDE DEF f, row, H
  <1>14. ASSUME NEW x \in A PROVE SumFunction(row[x]) = H[x]
    <2> DEFINE a == x.weight
               v == Gained(b, x, j)
               w == Gained(b, x, k)
               u == [i \in 1..4 |-> IF i = 1 THEN a * (v * w) ELSE IF i = 2 THEN a * w
                                    ELSE IF i = 3 THEN a * v ELSE a]
               o == [y \in Enumerated(c) |-> y.weight * Affine(c, j, k, u, y)]
    <2>1. a \in Int /\ v \in Int /\ w \in Int
      BY <1>6
    <2> HIDE DEF a, v, w
    <2>2. /\ u \in [1..4 -> Int] /\ u[1] = a * (v * w) /\ u[2] = a * w /\ u[3] = a * v /\ u[4] = a
      <3>1. a * (v * w) \in Int /\ a * w \in Int /\ a * v \in Int
        BY <2>1
      <3> QED
        BY <2>1, <3>1
    <2> HIDE DEF u
    <2>3. \A y \in B : row[x][y] = y.weight * Affine(c, j, k, u, y)
      <3> TAKE y \in B
      <3> DEFINE m == Gained(c, y, j)
                 n == Gained(c, y, k)
                 q == y.weight
      <3>1. m \in Int /\ n \in Int /\ q \in Int
        BY <1>6
      <3>2. row[x][y] = (a * q) * ((v + m) * (w + n))
        BY <1>10 DEF a, v, w
      <3>3. Affine(c, j, k, u, y) = a * (v * w) + ((a * w) * m + ((a * v) * n + a * (m * n)))
        BY <2>2 DEF Affine
      <3> HIDE DEF m, n, q
      <3>4. (a * q) * ((v + m) * (w + n))
              = q * (a * (v * w) + ((a * w) * m + ((a * v) * n + a * (m * n))))
        BY ONLY <2>1, <3>1
      <3> QED
        BY <3>2, <3>3, <3>4 DEF q
    <2>4. row[x] = o
      <3>1. row[x] \in [B -> Int]
        BY <1>10
      <3> QED
        BY <2>3, <3>1 DEF B
    <2>5. o = [y \in Enumerated(c) |-> y.weight * Affine(c, j, k, u, y)]
      OBVIOUS
    <2> HIDE DEF o
    <2>6. SumFunction(o) = PathScale(c, c.horizon) * u[1]
            + (u[2] * SharedGradient(c)[j]
               + (u[3] * SharedGradient(c)[k] + u[4] * WalkSum(c, c.horizon, Square(c, j, k))))
      BY <2>2, <2>5, AffineSum
    <2>7. SumFunction(o) = Q * (a * (v * w)) + ((a * w) * hj + ((a * v) * hk + a * r))
      BY <2>2, <2>6 DEF Q, hj, hk, r
    <2>8. H[x] = a * (r + (hk * v + (hj * w + Q * (v * w))))
      BY <1>8, <1>13 DEF Affine, a, v, w
    <2>9. Q * (a * (v * w)) + ((a * w) * hj + ((a * v) * hk + a * r))
            = a * (r + (hk * v + (hj * w + Q * (v * w))))
      BY ONLY <1>5, <2>1
    <2> QED
      BY <2>4, <2>7, <2>8, <2>9
  <1>15. H \in [A -> Int] /\ SumFunction(H) = P * r + (hk * gj + (hj * gk + Q * s))
    <2>1. H = [x \in Enumerated(b) |-> x.weight * Affine(b, j, k, z, x)]
      BY DEF H, A
    <2>2. /\ H \in [Enumerated(b) -> Int]
          /\ SumFunction(H) = PathScale(b, b.horizon) * z[1]
               + (z[2] * SharedGradient(b)[j]
                  + (z[3] * SharedGradient(b)[k] + z[4] * WalkSum(b, b.horizon, Square(b, j, k))))
      BY <1>8, <2>1, AffineSum
    <2> QED
      BY <1>8, <2>2 DEF A, P, gj, gk, s
  <1>16. SumFunction(f) = SumFunction(H)
    <2>1. Crossed(A, B, f, row, H)
      BY <1>10, <1>11, <1>12, <1>14, <1>15 DEF Crossed
    <2> QED
      BY <1>7, <2>1, SumCross
  <1>17. P * r + (hk * gj + (hj * gk + Q * s)) = Q * s + P * r + (gj * hk + gk * hj)
    BY ONLY <1>5
  <1> QED
    BY <1>4, <1>15, <1>16, <1>17 DEF out, P, Q, s, r, gj, gk, hj, hk

-----------------------------------------------------------------------------
(* A focal bucket as a world of its actions *)

LEMMA ProductZero ==
  ASSUME NEW D, IsFiniteSet(D), NEW f \in [D -> Int], NEW x \in D, f[x] = 0
  PROVE  ProductOf(f) = 0
  <1> DEFINE E == D \ {x}
             g == [y \in E |-> f[y]]
  <1>1. g \in [E -> Int] /\ \A y \in E : g[y] = f[y]
    OBVIOUS
  <1>2. IsFiniteSet(E)
    BY FS_RemoveElement
  <1>3. E = D \ {x}
    OBVIOUS
  <1> HIDE DEF g, E
  <1>4. ProductOf(f) = f[x] * ProductOf(g)
    BY <1>1, <1>3, ProductTake
  <1>5. ProductOf(g) \in Int
    BY <1>1, <1>2, ProductType
  <1> QED
    BY <1>4, <1>5

World(b) ==
  [chance |-> [t \in 1..b.horizon |-> Chanced(b, t)],
   reward |-> [a \in History(b.horizon) |-> FocalReward(b, a)]]

LEMMA WorldIs ==
  ASSUME NEW b, IsBucket(b), Focal(b)
  PROVE  /\ IsWorld(World(b)) /\ Steps(World(b)) = Times(b) /\ Decisions(World(b)) = b.horizon
         /\ Actions(World(b)) = History(b.horizon)
         /\ \A t \in Times(b) : /\ World(b).chance[t] = Chanced(b, t) /\ Chanced(b, t) \in Int
                                /\ \A s, x \in Bit : Takes(b, t, s, x) = Chance(World(b), t, x)
         /\ \A a \in History(b.horizon) : World(b).reward[a] = FocalReward(b, a)
  <1> DEFINE h == b.horizon
             w == World(b)
  <1>1. h \in Nat /\ Times(b) = 1..h
    BY BucketIs
  <1>2. \A t \in Times(b) : Chanced(b, t) \in Int
    BY TakesFacts, BitIs DEF Chanced
  <1>3. \A a \in History(h) : FocalReward(b, a) \in Int
    BY FocalRewardIs
  <1>4. w.chance = [t \in 1..h |-> Chanced(b, t)] /\ w.reward = [a \in History(h) |-> FocalReward(b, a)]
    BY DEF World
  <1> HIDE DEF h, w
  <1>5. w.chance \in Seq(Int) /\ Len(w.chance) = h
    BY <1>1, <1>2, <1>4
  <1>6. Decisions(w) = h /\ Steps(w) = Times(b) /\ Actions(w) = History(h)
    BY <1>1, <1>5 DEF Decisions, Steps, Actions, History
  <1>7. IsWorld(w)
    BY <1>3, <1>4, <1>5, <1>6 DEF IsWorld
  <1>8. \A t \in Times(b) : w.chance[t] = Chanced(b, t)
    BY <1>1, <1>4
  <1>9. \A t \in Times(b), s \in Bit : ActionProb(b, t, s) = Chanced(b, t)
    <2>1. \E a : a \in History(b.horizon)
      <3>1. [t \in 1..b.horizon |-> 0] \in History(b.horizon)
        BY BitIs DEF History
      <3> QED
        BY <3>1
    <2> QED
      BY <2>1, FocalRewardIs
  <1>10. \A t \in Times(b), s, x \in Bit : Takes(b, t, s, x) = Chance(w, t, x)
    BY <1>8, <1>9 DEF Takes, Chance
  <1> QED
    BY <1>2, <1>4, <1>6, <1>7, <1>8, <1>10 DEF h, w

\* The states of a focal walk are its actions, one step later.
Trace(b, a) == Walk(a, [t \in 1..(b.horizon + 1) |-> IF t = 1 THEN b.initial ELSE a[t - 1]])
Traces(b) == {p \in Walks(b, b.horizon) : p = Trace(b, p.a)}

LEMMA TraceFacts ==
  ASSUME NEW b, IsBucket(b), Focal(b), NEW a, a \in History(b.horizon)
  PROVE  /\ Trace(b, a) \in Walks(b, b.horizon) /\ Trace(b, a).a = a /\ Trace(b, a) \in Traces(b)
         /\ PathWeight(b, b.horizon, Trace(b, a)) = Weight(World(b), a)
  <1> DEFINE h == b.horizon
             p == Trace(b, a)
             s == [t \in 1..(h + 1) |-> IF t = 1 THEN b.initial ELSE a[t - 1]]
  <1>1. h \in Nat \ {0} /\ b.initial \in Bit /\ Times(b) = 1..h
    BY BucketIs
  <1>2. \A t \in 1..h : a[t] \in Bit
    BY DEF History
  <1>3. s \in History(h + 1) /\ s[1] = b.initial /\ \A t \in 1..h : s[t + 1] = a[t] /\ s[t] \in Bit
    BY <1>1, <1>2 DEF History
  <1>4. p = Walk(a, s) /\ p.a = a /\ p.s = s
    BY DEF Trace, Walk
  <1> HIDE DEF s, p
  <1>5. p \in Walks(b, h)
    BY <1>1, <1>3, <1>4 DEF Walks, Walk
  <1>6. \A t \in 1..h : Pace(b, p, t) = Chance(World(b), t, a[t])
    <2> TAKE t \in 1..h
    <2>1. t \in Times(b) /\ s[t] \in Bit /\ a[t] \in Bit /\ s[t + 1] = a[t]
      BY <1>1, <1>2, <1>3
    <2>2. Moves(b, t, s[t], a[t], a[t]) = 1
      BY <2>1, MovesFacts
    <2>3. Takes(b, t, s[t], a[t]) = Chance(World(b), t, a[t])
      BY <2>1, WorldIs
    <2>4. Takes(b, t, s[t], a[t]) \in Int
      BY <2>1, TakesFacts
    <2> QED
      BY <1>4, <2>1, <2>2, <2>3, <2>4 DEF Pace
  <1>7. DOMAIN a = 1..h
    BY DEF History
  <1>8. [t \in 1..h |-> Pace(b, p, t)] = [t \in DOMAIN a |-> Chance(World(b), t, a[t])]
    BY <1>6, <1>7
  <1>9. PathWeight(b, h, p) = Weight(World(b), a)
    BY <1>8, PathWeightIs DEF Weight
  <1>10. p \in Traces(b)
    BY <1>4, <1>5 DEF Traces, h, p
  <1> QED
    BY <1>4, <1>5, <1>9, <1>10 DEF h, p

LEMMA OffTrace ==
  ASSUME NEW b, IsBucket(b), Focal(b), NEW p \in Walks(b, b.horizon), p \notin Traces(b)
  PROVE  PathWeight(b, b.horizon, p) = 0
  <1> DEFINE h == b.horizon
             s == [t \in 1..(h + 1) |-> IF t = 1 THEN b.initial ELSE p.a[t - 1]]
             f == [t \in 1..h |-> Pace(b, p, t)]
  <1>1. h \in Nat \ {0} /\ b.initial \in Bit /\ Times(b) = 1..h
    BY BucketIs
  <1>2. /\ p = Walk(p.a, p.s) /\ p.a \in History(h) /\ p.s \in History(h + 1) /\ p.s[1] = b.initial
        /\ \A t \in 1..h : p.a[t] \in Bit /\ p.s[t] \in Bit /\ p.s[t + 1] \in Bit
    BY <1>1, WalkFacts
  <1>3. p # Walk(p.a, s)
    BY DEF Traces, Trace
  <1>4. p.s # s
    BY <1>2, <1>3
  <1>5. \E t \in 1..h : p.s[t + 1] # p.a[t]
    <2> SUFFICES ASSUME \A t \in 1..h : p.s[t + 1] = p.a[t] PROVE FALSE
      OBVIOUS
    <2>1. \A t \in 1..(h + 1) : p.s[t] = s[t]
      <3> TAKE t \in 1..(h + 1)
      <3>1. CASE t = 1
        BY <1>2, <3>1
      <3>2. CASE t # 1
        <4>1. t - 1 \in 1..h /\ (t - 1) + 1 = t
          BY <1>1, <3>2
        <4>2. p.s[(t - 1) + 1] = p.a[t - 1]
          BY <4>1
        <4> QED
          BY <3>2, <4>1, <4>2
      <3> QED
        BY <3>1, <3>2
    <2>2. p.s = s
      BY <1>2, <2>1 DEF History
    <2> QED
      BY <1>4, <2>2
  <1> HIDE DEF s
  <1>6. PICK t \in 1..h : p.s[t + 1] # p.a[t]
    BY <1>5
  <1>7. Pace(b, p, t) = 0
    <2>1. t \in Times(b) /\ p.s[t] \in Bit /\ p.a[t] \in Bit /\ p.s[t + 1] \in Bit
      BY <1>1, <1>2
    <2>2. Moves(b, t, p.s[t], p.a[t], p.s[t + 1]) = 0
      BY <1>6, <2>1, MovesFacts
    <2>3. Takes(b, t, p.s[t], p.a[t]) \in Int
      BY <2>1, TakesFacts
    <2> QED
      BY <2>2, <2>3 DEF Pace
  <1>8. f \in [1..h -> Int] /\ f[t] = 0
    <2>1. \A u \in 1..h : Pace(b, p, u) \in Int
      BY <1>1, PaceType
    <2> QED
      BY <1>7, <2>1
  <1>9. IsFiniteSet(1..h)
    BY <1>1, FS_Interval
  <1> HIDE DEF f
  <1>10. ProductOf(f) = 0
    BY <1>8, <1>9, ProductZero
  <1> QED
    BY <1>10, PathWeightIs DEF f, h

\* A sum over the walks of a focal bucket is an expectation of its world.
LEMMA FocalSum ==
  ASSUME NEW b, IsBucket(b), Focal(b), NEW F, F \in [Walks(b, b.horizon) -> Int],
         NEW G, G \in [History(b.horizon) -> Int],
         \A a \in History(b.horizon) : G[a] = F[Trace(b, a)]
  PROVE  WalkSum(b, b.horizon, F) = Expect(World(b), G)
  <1> DEFINE h == b.horizon
             W == Walks(b, b.horizon)
             A == History(b.horizon)
             T == Traces(b)
             w == World(b)
             f == [p \in W |-> PathWeight(b, b.horizon, p) * F[p]]
             g == [p \in T |-> f[p]]
             e == [a \in A |-> Weight(w, a) * G[a]]
             m == [a \in A |-> Trace(b, a)]
  <1>1. Known(b, h) /\ h \in Nat
    BY BucketIs DEF Known
  <1>2. /\ IsFiniteSet(W) /\ f \in [W -> Int] /\ WalkSum(b, h, F) = SumFunction(f)
        /\ \A p \in W : f[p] = PathWeight(b, h, p) * F[p]
    BY <1>1, WalkSumIs
  <1>3. T \subseteq W
    BY DEF Traces
  <1>4. \A p \in W : p \notin T => f[p] = 0
    <2> TAKE p \in W
    <2> HAVE p \notin T
    <2>1. PathWeight(b, b.horizon, p) = 0
      BY OffTrace
    <2> QED
      BY <1>2, <2>1
  <1>5. g \in [T -> Int] /\ \A p \in T : g[p] = f[p]
    BY <1>2, <1>3
  <1> HIDE DEF f, g, W, T
  <1>6. IsFiniteSet(T) /\ SumFunction(f) = SumFunction(g)
    BY <1>2, <1>3, <1>4, <1>5, SumPadded
  <1>7. IsWorld(w) /\ A = Actions(w)
    BY WorldIs
  <1>8. e \in [A -> Int] /\ (\A a \in A : e[a] = Weight(w, a) * G[a]) /\ Expect(w, G) = SumFunction(e)
    <2> HIDE DEF A, w
    <2>1. G \in [A -> Int] /\ e = [a \in A |-> Weight(w, a) * G[a]]
      BY DEF A
    <2> HIDE DEF e
    <2> QED
      BY <1>7, <2>1, ExpectIs
  <1>9. \A a \in A : Trace(b, a) \in T /\ Trace(b, a) \in W /\ Trace(b, a).a = a
                     /\ PathWeight(b, h, Trace(b, a)) = Weight(w, a)
    BY TraceFacts DEF T, W
  <1>10. m \in [A -> T] /\ m \in Bijection(A, T)
    <2>1. m \in [A -> T] /\ \A x, y \in A : m[x] = m[y] => x = y
      BY <1>9
    <2>2. \A p \in T : \E a \in A : m[a] = p
      <3> TAKE p \in T
      <3>1. p.a \in A /\ p = Trace(b, p.a)
        BY <1>1, WalkFacts DEF T, Traces
      <3> QED
        BY <3>1
    <2> HIDE DEF m, A
    <2> QED
      BY <2>1, <2>2, BijectionIs
  <1>11. \A a \in A : e[a] = g[m[a]]
    BY <1>2, <1>5, <1>8, <1>9
  <1>12. IsFiniteSet(A)
    BY <1>1, HistoriesFinite
  <1> HIDE DEF A, e, m
  <1>13. SumFunction(g) = SumFunction(e)
    BY <1>5, <1>8, <1>10, <1>11, <1>12, SumRename
  <1> QED
    BY <1>2, <1>6, <1>8, <1>13 DEF h, w

\* Exchanging a weighted sum with a sum inside it.
Weighted(A, T, D, V, F, h) ==
  /\ D \in [A -> Int] /\ V \in [T -> [A -> Int]]
  /\ F \in [A -> Int] /\ \A a \in A : F[a] = SumFunction([t \in T |-> V[t][a]])
  /\ h \in [T -> Int] /\ \A t \in T : h[t] = SumFunction([a \in A |-> D[a] * V[t][a]])

LEMMA WeightedSwap ==
  ASSUME NEW A, IsFiniteSet(A), NEW T, IsFiniteSet(T), NEW D, NEW V, NEW F, NEW h,
         Weighted(A, T, D, V, F, h), NEW f, f = [a \in A |-> D[a] * F[a]]
  PROVE  f \in [A -> Int] /\ SumFunction(f) = SumFunction(h)
  <1> DEFINE row == [t \in T |-> [a \in A |-> D[a] * V[t][a]]]
             col == [a \in A |-> [t \in T |-> D[a] * V[t][a]]]
             in(a) == [t \in T |-> V[t][a]]
  <1>1. /\ \A a \in A : D[a] \in Int /\ F[a] \in Int /\ F[a] = SumFunction(in(a))
        /\ \A t \in T, a \in A : V[t][a] \in Int
        /\ h \in [T -> Int] /\ \A t \in T : h[t] = SumFunction([a \in A |-> D[a] * V[t][a]])
    BY DEF Weighted
  <1>0. \A m, n \in Int : m * n \in Int
    OBVIOUS
  <1>2. f \in [A -> Int] /\ \A a \in A : f[a] = D[a] * F[a]
    <2>1. \A a \in A : D[a] * F[a] \in Int
      <3> TAKE a \in A
      <3>1. D[a] \in Int /\ F[a] \in Int
        BY <1>1
      <3> QED
        BY ONLY <1>0, <3>1
    <2> QED
      BY ONLY <2>1, f = [a \in A |-> D[a] * F[a]]
  <1>3. \A t \in T, a \in A : D[a] * V[t][a] \in Int
    <2> TAKE t \in T, a \in A
    <2>1. D[a] \in Int /\ V[t][a] \in Int
      BY <1>1
    <2> QED
      BY ONLY <1>0, <2>1
  <1>4. row \in [T -> [A -> Int]] /\ \A t \in T : h[t] = SumFunction(row[t])
    BY <1>1, <1>3
  <1>5. col \in [A -> [T -> Int]] /\ \A t \in T, a \in A : row[t][a] = col[a][t]
    BY <1>3
  <1>6. \A a \in A : f[a] = SumFunction(col[a])
    <2> TAKE a \in A
    <2>1. in(a) \in [T -> Int] /\ D[a] \in Int
      BY <1>1
    <2>2. col[a] \in [T -> Int] /\ \A t \in T : col[a][t] = D[a] * in(a)[t]
      BY <1>5
    <2> HIDE DEF col, in
    <2>3. SumFunction(col[a]) = D[a] * SumFunction(in(a))
      BY <2>1, <2>2, SumScale
    <2> QED
      BY <1>1, <1>2, <2>3
  <1> HIDE DEF row, col
  <1>7. BothWays(T, A, row, h, col, f)
    BY <1>1, <1>2, <1>4, <1>5, <1>6 DEF BothWays
  <1> QED
    BY <1>2, <1>7, SumSwap

Gathers(w, T, V, F) ==
  /\ V \in [T -> [Actions(w) -> Int]] /\ F \in [Actions(w) -> Int]
  /\ \A a \in Actions(w) : F[a] = SumFunction([t \in T |-> V[t][a]])

LEMMA ExpectSum ==
  ASSUME NEW w, IsWorld(w), NEW T, IsFiniteSet(T), NEW V, NEW F, Gathers(w, T, V, F),
         NEW h, h = [t \in T |-> Expect(w, V[t])]
  PROVE  h \in [T -> Int] /\ Expect(w, F) = SumFunction(h)
  <1>0. /\ V \in [T -> [Actions(w) -> Int]] /\ F \in [Actions(w) -> Int]
        /\ \A a \in Actions(w) : F[a] = SumFunction([t \in T |-> V[t][a]])
    BY DEF Gathers
  <1> DEFINE A == Actions(w)
             D == [a \in A |-> Weight(w, a)]
             f == [a \in A |-> D[a] * F[a]]
  <1>1. IsFiniteSet(A) /\ D \in [A -> Int]
    BY ActionsFinite, ActionWeight
  <1>2. \A t \in T : Expect(w, V[t]) \in Int
    BY <1>0, ExpectType
  <1>3. \A t \in T : h[t] = SumFunction([a \in A |-> D[a] * V[t][a]])
    BY <1>0 DEF Expect
  <1>4. h \in [T -> Int]
    BY <1>2
  <1>5. Weighted(A, T, D, V, F, h)
    BY <1>0, <1>1, <1>3, <1>4 DEF Weighted
  <1>6. Expect(w, F) = SumFunction(f)
    BY <1>0 DEF Expect
  <1>7. f = [a \in A |-> D[a] * F[a]]
    OBVIOUS
  <1> HIDE DEF f, D, A
  <1> QED
    BY <1>1, <1>4, <1>5, <1>6, <1>7, WeightedSwap

Shares(b, j) == {t \in Times(b) : b.map[t][0] = j}

LEMMA SharesIs ==
  ASSUME NEW b, IsBucket(b), NEW j
  PROVE  IsFiniteSet(Shares(b, j)) /\ Shares(b, j) \subseteq Times(b) /\ IsFiniteSet(Times(b))
  <1>1. IsFiniteSet(Times(b))
    <2>1. Times(b) = 1..b.horizon /\ b.horizon \in Int /\ 1 \in Int
      BY BucketIs
    <2> QED
      BY <2>1, FS_Interval
  <1>2. Shares(b, j) \subseteq Times(b)
    BY DEF Shares
  <1> QED
    BY <1>1, <1>2, FS_Subset

LEMMA FocalScore ==
  ASSUME NEW b, IsBucket(b), Focal(b), NEW j \in Logit, NEW p \in Walks(b, b.horizon)
  PROVE  PathScore(b, b.horizon, p, j) = SumFunction([t \in Shares(b, j) |-> Score(World(b), p.a, t)])
  <1> DEFINE h == b.horizon
             S == {t \in 1..h : b.map[t][p.s[t]] = j}
  <1>1. h \in Nat /\ Times(b) = 1..h /\ \A t \in Times(b), s \in Bit : b.map[t][s] = b.map[t][0]
    BY BucketIs
  <1>2. \A t \in 1..h : p.s[t] \in Bit
    BY <1>1, WalkFacts
  <1>3. S = Shares(b, j)
    BY <1>1, <1>2 DEF Shares
  <1>4. \A t \in Shares(b, j) : p.a[t] * Unit - b.logit[j] = Score(World(b), p.a, t)
    <2> TAKE t \in Shares(b, j)
    <2>1. t \in Times(b) /\ b.map[t][0] = j
      BY DEF Shares
    <2>2. World(b).chance[t] = Chanced(b, t)
      BY <2>1, WorldIs
    <2>3. Chanced(b, t) = b.logit[j]
      BY <2>1 DEF Chanced, ActionProb
    <2> QED
      BY <2>2, <2>3 DEF Score
  <1>5. [t \in S |-> p.a[t] * Unit - b.logit[j]] = [t \in Shares(b, j) |-> Score(World(b), p.a, t)]
    BY <1>3, <1>4
  <1> QED
    BY <1>5 DEF PathScore, h

\* The gradient of a shared logit adds those of the decisions that share it.
LEMMA SharedByTime ==
  ASSUME NEW b, IsBucket(b), Focal(b), NEW j \in Logit,
         NEW g, g = [t \in Shares(b, j) |-> Gradient(World(b))[t]]
  PROVE  g \in [Shares(b, j) -> Int] /\ SharedGradient(b)[j] = SumFunction(g)
  <1> DEFINE w == World(b)
             h == b.horizon
             A == History(b.horizon)
             T == Shares(b, j)
             G == [a \in A |-> Gain(b, j)[Trace(b, a)]]
             V == [t \in T |-> Payoff(w, t)]
  <1>1. IsWorld(w) /\ Actions(w) = A /\ Steps(w) = Times(b) /\ \A a \in A : w.reward[a] = FocalReward(b, a)
    BY WorldIs
  <1>2. IsFiniteSet(T) /\ T \subseteq Times(b)
    BY SharesIs
  <1>3. \A a \in A : Trace(b, a) \in Walks(b, h) /\ Trace(b, a).a = a
    BY TraceFacts
  <1>4. \A p \in Walks(b, h) : Gain(b, j)[p] \in Int /\ Gain(b, j) \in [Walks(b, h) -> Int]
    BY GainIs
  <1>5. G \in [A -> Int] /\ \A a \in A : G[a] = Gain(b, j)[Trace(b, a)]
    BY <1>3, <1>4
  <1>6. Gain(b, j) \in [Walks(b, h) -> Int]
    BY GainIs
  <1> HIDE DEF G
  <1>7. SharedGradient(b)[j] = Expect(w, G)
    <2>1. SharedGradient(b)[j] = WalkSum(b, h, Gain(b, j))
      BY SharedGradientIs
    <2>2. WalkSum(b, h, Gain(b, j)) = Expect(w, G)
      BY <1>5, <1>6, FocalSum
    <2> QED
      BY <2>1, <2>2
  <1>8. \A t \in T : Payoff(w, t) \in [Actions(w) -> Int] /\ Gradient(w)[t] = Expect(w, Payoff(w, t))
    BY <1>1, <1>2, GradientIsExpect
  <1>9. V \in [T -> [Actions(w) -> Int]] /\ \A t \in T : V[t] = Payoff(w, t)
    BY <1>8
  <1>10. \A a \in Actions(w) : G[a] = SumFunction([t \in T |-> V[t][a]])
    <2> TAKE a \in Actions(w)
    <2> DEFINE s == [t \in T |-> Score(w, a, t)]
               q == [t \in T |-> V[t][a]]
               p == Trace(b, a)
               c == FocalReward(b, a)
    <2>1. a \in A
      BY <1>1
    <2>2. p \in Walks(b, h) /\ p.a = a /\ c \in Int
      BY <1>3, <2>1, FocalRewardIs
    <2>3. Gain(b, j)[p] = PathReward(b, p) * PathScore(b, h, p, j) /\ PathReward(b, p) = c
      <3>1. PathReward(b, p) = c
        BY <2>2 DEF PathReward
      <3>2. Gain(b, j)[p] = PathReward(b, p) * PathScore(b, h, p, j)
        BY <2>2, GainIs
      <3> QED
        BY <3>1, <3>2
    <2>4. PathScore(b, h, p, j) = SumFunction(s)
      <3>1. PathScore(b, h, p, j) = SumFunction([t \in Shares(b, j) |-> Score(World(b), p.a, t)])
        BY <2>2, FocalScore
      <3> QED
        BY <2>2, <3>1
    <2>5. s \in [T -> Int]
      BY <1>1, <1>2, ScoreAt
    <2>6. q \in [T -> Int] /\ \A t \in T : q[t] = c * s[t]
      <3>1. \A t \in T : V[t][a] = c * s[t]
        BY <1>1, <1>9, <2>1 DEF Payoff
      <3>2. \A t \in T : V[t][a] \in Int
        BY <1>9
      <3> QED
        BY <3>1, <3>2
    <2> HIDE DEF s, q, T, c
    <2>7. SumFunction(q) = c * SumFunction(s)
      BY <1>2, <2>2, <2>5, <2>6, SumScale
    <2> QED
      BY <1>5, <2>1, <2>3, <2>4, <2>7 DEF q
  <1>11. g = [t \in T |-> Expect(w, V[t])]
    BY <1>8, <1>9
  <1>12. G \in [Actions(w) -> Int]
    BY <1>1, <1>5
  <1>13. IsWorld(w) /\ IsFiniteSet(T) /\ V \in [T -> [Actions(w) -> Int]]
    BY <1>1, <1>2, <1>9
  <1> HIDE DEF V, T, w
  <1>14. g \in [T -> Int] /\ Expect(w, G) = SumFunction(g)
    <2>1. Gathers(w, T, V, G)
      BY <1>10, <1>12, <1>13 DEF Gathers
    <2> QED
      BY ONLY <1>11, <1>13, <2>1, ExpectSum
  <1> QED
    BY <1>7, <1>14 DEF T

\* What the noise adds to a score, and what the plain effects add.
NoisePart(b, t) ==
  [a \in History(b.horizon) |-> ProductOf(Centered(b, a)) * Score(World(b), a, t)]
PlainPart(b, t) ==
  [a \in History(b.horizon) |-> SumFunction(Plain(b, a)) * Score(World(b), a, t)]

LEMMA PartsType ==
  ASSUME NEW b, IsBucket(b), Focal(b), NEW t \in Times(b)
  PROVE  /\ NoisePart(b, t) \in [History(b.horizon) -> Int]
         /\ PlainPart(b, t) \in [History(b.horizon) -> Int]
         /\ \A a \in History(b.horizon) :
              /\ ProductOf(Centered(b, a)) \in Int /\ SumFunction(Plain(b, a)) \in Int
              /\ Score(World(b), a, t) \in Int
  <1>1. \A a \in History(b.horizon) : ProductOf(Centered(b, a)) \in Int /\ SumFunction(Plain(b, a)) \in Int
    BY FocalRewardIs
  <1>2. \A a \in History(b.horizon) : Score(World(b), a, t) \in Int
    <2>1. IsWorld(World(b)) /\ t \in Steps(World(b)) /\ Actions(World(b)) = History(b.horizon)
      BY WorldIs
    <2> QED
      BY <2>1, ScoreAt
  <1>3. \A m, n \in Int : m * n \in Int
    OBVIOUS
  <1> QED
    BY <1>1, <1>2, <1>3 DEF NoisePart, PlainPart

\* Setting the action of a decision.
LEMMA PutIs ==
  ASSUME NEW b, IsBucket(b), Focal(b), NEW t \in Times(b), NEW a \in History(b.horizon), NEW x \in Bit
  PROVE  /\ Put(a, t, x) \in History(b.horizon) /\ Put(a, t, x)[t] = x
         /\ \A u \in Times(b) : u # t => Put(a, t, x)[u] = a[u]
         /\ \A u \in Times(b) : u # t => Score(World(b), Put(a, t, x), u) = Score(World(b), a, u)
         /\ t \notin b.noise => Centered(b, Put(a, t, x)) = Centered(b, a)
         /\ t \in b.noise => Plain(b, Put(a, t, x)) = Plain(b, a)
  <1>1. b.horizon \in Nat /\ Times(b) = 1..b.horizon /\ b.noise \subseteq Times(b)
    BY BucketIs
  <1>2. /\ Put(a, t, x) \in History(b.horizon) /\ Put(a, t, x)[t] = x
        /\ \A u \in Times(b) : u # t => Put(a, t, x)[u] = a[u]
    BY <1>1, Setting
  <1> QED
    BY <1>1, <1>2 DEF Centered, Plain, Score

LEMMA NoiseAlone ==
  ASSUME NEW b, IsBucket(b), Focal(b), NEW t \in Times(b)
  PROVE  Expect(World(b), NoisePart(b, t)) = 0
  <1> DEFINE w == World(b)
             A == History(b.horizon)
             N == [a \in A |-> ProductOf(Centered(b, a))]
  <1>1. IsWorld(w) /\ Actions(w) = A /\ Steps(w) = Times(b)
    BY WorldIs
  <1>2. /\ NoisePart(b, t) \in [A -> Int]
        /\ \A a \in A : NoisePart(b, t)[a] = ProductOf(Centered(b, a)) * Score(w, a, t)
        /\ \A a \in A : ProductOf(Centered(b, a)) \in Int /\ Score(w, a, t) \in Int
    BY PartsType DEF NoisePart
  <1>3. CASE t \notin b.noise
    <2>1. Ignores(w, t, N)
      <3>1. \A a \in A, x \in Bit : Put(a, t, x) \in A /\ Centered(b, Put(a, t, x)) = Centered(b, a)
        BY <1>3, PutIs
      <3>2. N \in [A -> Int] /\ \A a \in A, x \in Bit : N[Put(a, t, x)] = N[a]
        BY <1>2, <3>1
      <3> HIDE DEF N, A, w
      <3> QED
        BY <1>1, <3>2 DEF Ignores
    <2>2. \A a \in A : NoisePart(b, t)[a] = N[a] * Score(w, a, t)
      BY <1>2
    <2> HIDE DEF N, A, w
    <2> QED
      BY <1>1, <1>2, <2>1, <2>2, ExpectScore DEF w
  <1>4. CASE t \in b.noise
    <2>1. \E u \in b.noise : u # t
      <3> SUFFICES ASSUME \A u \in b.noise : u = t PROVE FALSE
        OBVIOUS
      <3>1. b.noise = {t}
        BY <1>4
      <3>2. Cardinality(b.noise) = 1
        BY <3>1, FS_Singleton
      <3> QED
        BY <3>2, BucketIs
    <2>2. PICK u \in b.noise : u # t
      BY <2>1
    <2> DEFINE E == b.noise \ {u}
               others(a) == [v \in E |-> a[v] * Unit - Chanced(b, v)]
               F == [a \in A |-> ProductOf(others(a)) * Score(w, a, t)]
    <2>3. u \in Times(b) /\ b.noise \subseteq Times(b) /\ IsFiniteSet(b.noise)
      BY BucketIs
    <2>4. \A a \in A : others(a) \in [E -> Int] /\ ProductOf(others(a)) \in Int
      <3> TAKE a \in A
      <3>1. Centered(b, a) \in [b.noise -> Int]
        BY FocalRewardIs
      <3>2. \A v \in E : Centered(b, a)[v] = a[v] * Unit - Chanced(b, v) /\ Centered(b, a)[v] \in Int
        BY <3>1 DEF Centered
      <3>3. others(a) \in [E -> Int]
        BY <3>2
      <3>4. IsFiniteSet(E)
        BY <2>3, FS_RemoveElement
      <3> HIDE DEF others, E
      <3> QED
        BY <3>3, <3>4, ProductType
    <2>5. \A a \in A : ProductOf(Centered(b, a)) = Score(w, a, u) * ProductOf(others(a))
      <3> TAKE a \in A
      <3>1. Centered(b, a) \in [b.noise -> Int]
        BY FocalRewardIs
      <3>2. \A v \in E : others(a)[v] = Centered(b, a)[v]
        BY DEF Centered
      <3>3. Centered(b, a)[u] = Score(w, a, u)
        BY <2>3, WorldIs DEF Centered, Score
      <3>4. others(a) \in [E -> Int] /\ E = b.noise \ {u}
        BY <2>4
      <3> HIDE DEF others, E
      <3>5. ProductOf(Centered(b, a)) = Centered(b, a)[u] * ProductOf(others(a))
        BY <2>3, <3>1, <3>2, <3>4, ProductTake
      <3> QED
        BY <3>3, <3>5
    <2>6. F \in [A -> Int] /\ \A a \in A : F[a] = ProductOf(others(a)) * Score(w, a, t)
      <3>1. \A m, n \in Int : m * n \in Int
        OBVIOUS
      <3> HIDE DEF others, E
      <3> QED
        BY <1>2, <2>4, <3>1
    <2>7. \A a \in A, x \in Bit : F[Put(a, u, x)] = F[a]
      <3> TAKE a \in A, x \in Bit
      <3>1. /\ Put(a, u, x) \in A /\ \A v \in Times(b) : v # u => Put(a, u, x)[v] = a[v]
            /\ Score(w, Put(a, u, x), t) = Score(w, a, t)
        BY <2>2, <2>3, PutIs
      <3>2. others(Put(a, u, x)) = others(a)
        BY <2>3, <3>1
      <3> HIDE DEF others, F
      <3> QED
        BY <2>6, <3>1, <3>2
    <2>8. Ignores(w, u, F)
      <3> HIDE DEF F, A, w
      <3> QED
        BY <1>1, <2>3, <2>6, <2>7 DEF Ignores
    <2>9. \A a \in A : NoisePart(b, t)[a] = F[a] * Score(w, a, u)
      <3> TAKE a \in A
      <3> DEFINE m == ProductOf(others(a))
      <3>1. Score(w, a, u) \in Int /\ Score(w, a, t) \in Int /\ m \in Int
        BY <2>3, <2>4, PartsType
      <3>2. NoisePart(b, t)[a] = (Score(w, a, u) * m) * Score(w, a, t)
        BY <1>2, <2>5
      <3>3. F[a] = m * Score(w, a, t)
        BY <2>6
      <3> HIDE DEF m, F, w
      <3>4. (Score(w, a, u) * m) * Score(w, a, t) = (m * Score(w, a, t)) * Score(w, a, u)
        BY ONLY <3>1
      <3> QED
        BY <3>2, <3>3, <3>4
    <2> HIDE DEF F, A, w
    <2> QED
      BY <1>1, <1>2, <2>8, <2>9, ExpectScore DEF w
  <1> QED
    BY <1>3, <1>4

LEMMA PlainAlone ==
  ASSUME NEW b, IsBucket(b), Focal(b), NEW t \in Times(b)
  PROVE  LET p == Chanced(b, t)
         IN /\ t \in b.noise => Expect(World(b), PlainPart(b, t)) = 0
            /\ t \notin b.noise => Unit * Expect(World(b), PlainPart(b, t))
                                     = (2 * (p * (Unit - p))) * Power(Unit, b.horizon)
            /\ Expect(World(b), PlainPart(b, t)) \in Int
  <1> DEFINE w == World(b)
             A == History(b.horizon)
             p == Chanced(b, t)
             L == [a \in A |-> SumFunction(Plain(b, a))]
  <1>1. IsWorld(w) /\ Actions(w) = A /\ Steps(w) = Times(b)
    BY WorldIs
  <1>2. /\ PlainPart(b, t) \in [A -> Int]
        /\ \A a \in A : PlainPart(b, t)[a] = SumFunction(Plain(b, a)) * Score(w, a, t)
        /\ \A a \in A : SumFunction(Plain(b, a)) \in Int /\ Score(w, a, t) \in Int
    BY PartsType DEF PlainPart
  <1>3. ASSUME t \in b.noise PROVE Expect(w, PlainPart(b, t)) = 0
    <2>1. Ignores(w, t, L)
      <3>1. \A a \in A, x \in Bit : Put(a, t, x) \in A /\ Plain(b, Put(a, t, x)) = Plain(b, a)
        BY <1>3, PutIs
      <3>2. L \in [A -> Int] /\ \A a \in A, x \in Bit : L[Put(a, t, x)] = L[a]
        BY <1>2, <3>1
      <3> HIDE DEF L, A, w
      <3> QED
        BY <1>1, <3>2 DEF Ignores
    <2>2. \A a \in A : PlainPart(b, t)[a] = L[a] * Score(w, a, t)
      BY <1>2
    <2> HIDE DEF L, A, w
    <2> QED
      BY <1>1, <1>2, <2>1, <2>2, ExpectScore
  <1>4. ASSUME t \notin b.noise
        PROVE  Unit * Expect(w, PlainPart(b, t)) = (2 * (p * (Unit - p))) * Power(Unit, b.horizon)
    <2> DEFINE D == Times(b) \ b.noise
               E == D \ {t}
               others(a) == [v \in E |-> 2 * a[v] - 1]
               R == [a \in A |-> SumFunction(others(a))]
               S == [a \in A |-> R[a] * Score(w, a, t)]
               c == [x \in Bit |-> (2 * x - 1) * (x * Unit - p)]
               C == [a \in A |-> c[a[t]]]
    <2>1. t \in D /\ IsFiniteSet(D) /\ IsFiniteSet(E)
      <3>1. IsFiniteSet(D)
        BY SharesIs, FS_Subset
      <3> QED
        BY <1>4, <3>1, FS_RemoveElement
    <2>2. \A a \in A : others(a) \in [E -> Int] /\ SumFunction(others(a)) \in Int
      <3> TAKE a \in A
      <3>1. Plain(b, a) \in [D -> Int]
        BY FocalRewardIs
      <3>2. \A v \in E : Plain(b, a)[v] = 2 * a[v] - 1 /\ Plain(b, a)[v] \in Int
        BY <3>1 DEF Plain
      <3>3. others(a) \in [E -> Int]
        BY <3>2
      <3> HIDE DEF others, E, D
      <3> QED
        BY <2>1, <3>3, SumType
    <2>3. \A a \in A : SumFunction(Plain(b, a)) = (2 * a[t] - 1) + SumFunction(others(a))
      <3> TAKE a \in A
      <3>1. Plain(b, a) \in [D -> Int]
        BY FocalRewardIs
      <3>2. \A v \in D \ {t} : others(a)[v] = Plain(b, a)[v]
        BY DEF Plain
      <3>3. Plain(b, a)[t] = 2 * a[t] - 1
        BY <2>1 DEF Plain
      <3>4. others(a) \in [D \ {t} -> Int]
        BY <2>2
      <3> HIDE DEF others, E, D
      <3>5. SumFunction(Plain(b, a)) = Plain(b, a)[t] + SumFunction(others(a))
        BY <2>1, <3>1, <3>2, <3>4, SumTake
      <3> QED
        BY <3>3, <3>5
    <2>4. R \in [A -> Int] /\ \A a \in A : R[a] = SumFunction(others(a))
      BY <2>2
    <2>5. Ignores(w, t, R)
      <3>1. \A a \in A, x \in Bit : /\ Put(a, t, x) \in A
                                    /\ \A v \in Times(b) : v # t => Put(a, t, x)[v] = a[v]
        BY PutIs
      <3>2. \A a \in A, x \in Bit : others(Put(a, t, x)) = others(a)
        BY <3>1
      <3> HIDE DEF others
      <3>3. \A a \in A, x \in Bit : R[Put(a, t, x)] = R[a]
        BY <2>4, <3>1, <3>2
      <3> HIDE DEF R, A, w
      <3> QED
        BY <1>1, <2>4, <3>3 DEF Ignores
    <2>6. \A m, n \in Int : m * n \in Int
      OBVIOUS
    <2>7. S \in [A -> Int] /\ \A a \in A : S[a] = R[a] * Score(w, a, t)
      <3> HIDE DEF R
      <3> QED
        BY <1>2, <2>4, <2>6
    <2>8. p \in Int /\ Unit \in Int
      BY WorldIs, UnitAssumption
    <2>9. c \in [Bit -> Int] /\ c[0] = p /\ c[1] = Unit - p
      BY <2>8 DEF Bit
    <2>10. \A a \in A : a[t] \in Bit
      BY BucketIs DEF History
    <2> HIDE DEF c
    <2>11. C \in [A -> Int] /\ \A a \in A : C[a] = c[a[t]]
      BY <2>9, <2>10
    <2>12. \A a \in A : PlainPart(b, t)[a] = 1 * C[a] + 1 * S[a]
      <3> TAKE a \in A
      <3>1. Score(w, a, t) = a[t] * Unit - p
        BY WorldIs DEF Score
      <3>2. C[a] = (2 * a[t] - 1) * (a[t] * Unit - p)
        BY <2>10, <2>11 DEF c
      <3>3. PlainPart(b, t)[a] = ((2 * a[t] - 1) + R[a]) * (a[t] * Unit - p)
        BY <1>2, <2>3, <2>4, <3>1
      <3>4. S[a] = R[a] * (a[t] * Unit - p)
        BY <2>7, <3>1
      <3>5. a[t] \in Int /\ R[a] \in Int
        <4>1. a[t] \in {0, 1}
          BY <2>10 DEF Bit
        <4> HIDE DEF R, A
        <4> QED
          BY <2>4, <4>1
      <3> DEFINE r == R[a]
                 i == a[t]
      <3> HIDE DEF r, i, p
      <3>6. \A u, v, y \in Int : (u + v) * y = 1 * (u * y) + 1 * (v * y)
        OBVIOUS
      <3>7. 2 * i - 1 \in Int /\ i * Unit - p \in Int /\ r \in Int
        BY <2>8, <3>5 DEF r, i
      <3> QED
        BY ONLY <3>2, <3>3, <3>4, <3>6, <3>7 DEF r, i
    <2> HIDE DEF C, S, R, A, w, p
    <2>13. Combines(Actions(w), C, S, 1, 1, PlainPart(b, t))
      BY <1>1, <1>2, <2>7, <2>11, <2>12 DEF Combines
    <2>14. Expect(w, PlainPart(b, t)) = 1 * Expect(w, C) + 1 * Expect(w, S)
      BY <1>1, <2>13, ExpectLinear
    <2>15. Expect(w, S) = 0
      BY <1>1, <2>5, <2>7, ExpectScore
    <2>16. Unit * Expect(w, C) = (Chance(w, t, 0) * c[0] + Chance(w, t, 1) * c[1]) * Paths(w)
      BY <1>1, <2>9, <2>11, ExpectOneStep
    <2>17. Chance(w, t, 0) = Unit - p /\ Chance(w, t, 1) = p /\ Paths(w) = Power(Unit, b.horizon)
      BY WorldIs, ChanceFacts DEF w, p, Paths
    <2>18. Expect(w, C) \in Int
      BY <1>1, <2>11, ExpectType
    <2>19. Expect(w, PlainPart(b, t)) = Expect(w, C)
      BY <2>14, <2>15, <2>18
    <2>20. (Unit - p) * p + p * (Unit - p) = 2 * (p * (Unit - p))
      BY ONLY <2>8
    <2> QED
      BY <2>9, <2>16, <2>17, <2>19, <2>20
  <1>5. Expect(w, PlainPart(b, t)) \in Int
    BY <1>1, <1>2, ExpectType
  <1> QED
    BY <1>3, <1>4, <1>5

LEMMA FocalGradient ==
  ASSUME NEW b, IsBucket(b), Focal(b), NEW t \in Times(b)
  PROVE  LET p == Chanced(b, t)
         IN /\ Gradient(World(b))[t] =
                 IF t \in b.noise THEN 0
                 ELSE NoiseUnit(b) * ((2 * (p * (Unit - p))) * Power(Unit, b.horizon - 1))
            /\ Gradient(World(b))[t] \in Int
  <1> DEFINE w == World(b)
             A == History(b.horizon)
             p == Chanced(b, t)
             x == Expect(w, PlainPart(b, t))
             q == Power(Unit, b.horizon - 1)
             u == 2 * (p * (Unit - p))
  <1>1. /\ IsWorld(w) /\ Actions(w) = A /\ t \in Steps(w)
        /\ \A a \in A : w.reward[a] = FocalReward(b, a)
    BY WorldIs
  <1>2. /\ NoisePart(b, t) \in [A -> Int] /\ PlainPart(b, t) \in [A -> Int]
        /\ \A a \in A : NoisePart(b, t)[a] = ProductOf(Centered(b, a)) * Score(w, a, t)
        /\ \A a \in A : PlainPart(b, t)[a] = SumFunction(Plain(b, a)) * Score(w, a, t)
        /\ \A a \in A : /\ ProductOf(Centered(b, a)) \in Int /\ SumFunction(Plain(b, a)) \in Int
                        /\ Score(w, a, t) \in Int
    BY PartsType DEF NoisePart, PlainPart
  <1>3. /\ NoiseWeight \in Int /\ NoiseUnit(b) \in Int
        /\ \A a \in A : FocalReward(b, a) = NoiseWeight * ProductOf(Centered(b, a))
                                              + NoiseUnit(b) * SumFunction(Plain(b, a))
    <2>1. NoiseWeight \in Int /\ NoiseUnit(b) \in Int
      <3>1. [i \in 1..b.horizon |-> 0] \in History(b.horizon)
        BY BitIs DEF History
      <3>2. PICK a : a \in History(b.horizon)
        BY <3>1
      <3> HIDE DEF A
      <3>3. NoiseWeight \in Int /\ NoiseUnit(b) \in Nat \ {0}
        BY ONLY IsBucket(b), Focal(b), <3>2, FocalRewardIs
      <3> QED
        BY <3>3
    <2> QED
      BY <2>1, FocalRewardIs
  <1>4. /\ Payoff(w, t) \in [Actions(w) -> Int]
        /\ Gradient(w)[t] = Expect(w, Payoff(w, t)) /\ Gradient(w)[t] \in Int
    BY <1>1, GradientIsExpect
  <1>5. \A a \in A : Payoff(w, t)[a] = NoiseWeight * NoisePart(b, t)[a] + NoiseUnit(b) * PlainPart(b, t)[a]
    <2> TAKE a \in A
    <2> DEFINE m == ProductOf(Centered(b, a))
               l == SumFunction(Plain(b, a))
               s == Score(w, a, t)
               k == NoiseUnit(b)
    <2>1. Payoff(w, t)[a] = (NoiseWeight * m + k * l) * s
      BY <1>1, <1>3 DEF Payoff
    <2>2. NoisePart(b, t)[a] = m * s /\ PlainPart(b, t)[a] = l * s
      BY <1>2
    <2>3. m \in Int /\ l \in Int /\ s \in Int /\ k \in Int /\ NoiseWeight \in Int
      BY <1>2, <1>3
    <2> HIDE DEF m, l, s, k
    <2>4. (NoiseWeight * m + k * l) * s = NoiseWeight * (m * s) + k * (l * s)
      BY ONLY <2>3
    <2> QED
      BY <2>1, <2>2, <2>4 DEF k
  <1>6. Gradient(w)[t] = NoiseWeight * Expect(w, NoisePart(b, t)) + NoiseUnit(b) * x
    <2> HIDE DEF w, A
    <2>1. Combines(Actions(w), NoisePart(b, t), PlainPart(b, t), NoiseWeight, NoiseUnit(b), Payoff(w, t))
      BY <1>1, <1>2, <1>3, <1>4, <1>5 DEF Combines
    <2>2. Expect(w, Payoff(w, t)) = NoiseWeight * Expect(w, NoisePart(b, t))
                                      + NoiseUnit(b) * Expect(w, PlainPart(b, t))
      BY <1>1, <2>1, ExpectLinear
    <2> QED
      BY <1>4, <2>2
  <1>7. Expect(w, NoisePart(b, t)) = 0
    BY NoiseAlone
  <1>8. /\ t \in b.noise => x = 0
        /\ t \notin b.noise => Unit * x = u * Power(Unit, b.horizon)
        /\ x \in Int
    BY PlainAlone
  <1>9. p \in Int /\ Unit \in Nat \ {0} /\ b.horizon - 1 \in Nat
    BY WorldIs, BucketIs, UnitAssumption
  <1>10. q \in Int /\ Power(Unit, b.horizon) = Unit * q
    <2>1. (b.horizon - 1) + 1 = b.horizon
      BY BucketIs
    <2>2. Unit \in Int
      BY <1>9
    <2> QED
      BY <1>9, <2>1, <2>2, PowerNext
  <1>11. u \in Int
    BY <1>9
  <1> HIDE DEF x, q, u, w
  <1>12. Gradient(w)[t] = NoiseUnit(b) * x
    BY <1>3, <1>6, <1>7, <1>8
  <1>13. t \notin b.noise => x = u * q
    <2>1. \A y, z \in Int, n \in Nat \ {0} : n * y = n * z => y = z
      OBVIOUS
    <2>2. \A c, d, e \in Int : c * (d * e) = d * (c * e)
      OBVIOUS
    <2> HAVE t \notin b.noise
    <2>3. Unit * x = u * (Unit * q)
      BY <1>8, <1>10
    <2>4. u * (Unit * q) = Unit * (u * q)
      BY ONLY <1>9, <1>10, <1>11, <2>2
    <2>5. u * q \in Int
      BY <1>10, <1>11
    <2> QED
      BY ONLY <1>8, <1>9, <2>1, <2>3, <2>4, <2>5
  <1>14. CASE t \in b.noise
    <2>1. Gradient(w)[t] = 0
      BY <1>3, <1>8, <1>12, <1>14
    <2> QED
      BY <1>14, <2>1 DEF w
  <1>15. CASE t \notin b.noise
    <2>1. Gradient(w)[t] = NoiseUnit(b) * (u * q)
      BY <1>12, <1>13, <1>15
    <2> QED
      BY <1>4, <1>15, <2>1 DEF w, u, q
  <1> QED
    BY <1>14, <1>15

-----------------------------------------------------------------------------
(* The formula of the Bellman oracle for a focal bucket *)

\* States are reached with all of the probability.
LEMMA ReachMass ==
  ASSUME NEW b, IsBucket(b), Focal(b)
  PROVE  LET r == Reach(b, 1, b.initial)
         IN \A i \in Nat : i + 1 \in Times(b) => r[i + 1][0] + r[i + 1][1] = Power(Unit, i)
  <1> DEFINE r == Reach(b, 1, b.initial)
             good(i) == i + 1 \in Times(b) => r[i + 1][0] + r[i + 1][1] = Power(Unit, i)
             X == {i \in Nat : good(i)}
  <1>1. b.horizon \in Nat \ {0} /\ Times(b) = 1..b.horizon /\ b.initial \in Bit /\ 1 \in Times(b)
    BY BucketIs
  <1>2. /\ \A t \in 1..b.horizon, n \in Bit : r[t][n] \in Int
        /\ \A n \in Bit : r[1][n] = IF n = b.initial THEN 1 ELSE 0
        /\ \A t \in 1..b.horizon, n \in Bit : t # 1 =>
             r[t][n] = r[t - 1][0] * Into(b, t - 1, 0, n) + r[t - 1][1] * Into(b, t - 1, 1, n)
    BY ONLY <1>1, IsBucket(b), ReachFacts, ZenonT(30)
  <1>3. Unit \in Int
    BY UnitAssumption
  <1> HIDE DEF r
  <1>4. 0 \in X
    <2>1. r[1][0] + r[1][1] = 1
      BY <1>1, <1>2, BitIs
    <2>2. Power(Unit, 0) = 1
      BY <1>3, PowerZero
    <2> QED
      BY <2>1, <2>2
  <1>5. ASSUME NEW i \in Nat, i \in X PROVE i + 1 \in X
    <2> SUFFICES ASSUME (i + 1) + 1 \in Times(b)
                 PROVE  r[(i + 1) + 1][0] + r[(i + 1) + 1][1] = Power(Unit, i + 1)
      OBVIOUS
    <2> DEFINE t == i + 1
               a == r[t][0]
               c == r[t][1]
    <2>1. t \in Times(b) /\ t \in 1..b.horizon /\ t + 1 \in 1..b.horizon /\ t + 1 # 1 /\ (t + 1) - 1 = t
      BY <1>1
    <2>2. a + c = Power(Unit, i) /\ a \in Int /\ c \in Int
      BY <1>2, <1>5, <2>1, BitIs
    <2>3. \A n \in Bit : r[t + 1][n] = a * Into(b, t, 0, n) + c * Into(b, t, 1, n)
      BY <1>2, <2>1
    <2>4. \A s \in Bit : Into(b, t, s, 0) + Into(b, t, s, 1) = Unit
      <3> TAKE s \in Bit
      <3> DEFINE k00 == Kernel(b, t, s, 0, 0)
                 k01 == Kernel(b, t, s, 0, 1)
                 k10 == Kernel(b, t, s, 1, 0)
                 k11 == Kernel(b, t, s, 1, 1)
      <3>1. k00 + k01 + k10 + k11 = Unit * MoveUnit(b)
        <4>1. 1 \in Logit
          BY DEF Logit
        <4> QED
          BY <2>1, <4>1, KernelSums
      <3>2. MoveUnit(b) = 1
        BY DEF MoveUnit
      <3>3. k00 \in Int /\ k01 \in Int /\ k10 \in Int /\ k11 \in Int
        BY <2>1, KernelType, BitIs
      <3>4. Into(b, t, s, 0) = k00 + k10 /\ Into(b, t, s, 1) = k01 + k11
        BY DEF Into
      <3> HIDE DEF k00, k01, k10, k11
      <3> QED
        <4>1. Unit * MoveUnit(b) = Unit
          BY <1>3, <3>2
        <4> QED
          BY ONLY <3>1, <3>3, <3>4, <4>1
    <2>5. \A s, n \in Bit : Into(b, t, s, n) \in Int
      BY <2>1, IntoType
    <2> DEFINE i00 == Into(b, t, 0, 0)
               i01 == Into(b, t, 0, 1)
               i10 == Into(b, t, 1, 0)
               i11 == Into(b, t, 1, 1)
    <2>6. /\ i00 \in Int /\ i01 \in Int /\ i10 \in Int /\ i11 \in Int
          /\ i00 + i01 = Unit /\ i10 + i11 = Unit
      BY <2>4, <2>5, BitIs
    <2>7. r[t + 1][0] = a * i00 + c * i10 /\ r[t + 1][1] = a * i01 + c * i11
      BY <2>3, BitIs
    <2> HIDE DEF a, c, i00, i01, i10, i11
    <2>8. (a * i00 + c * i10) + (a * i01 + c * i11) = a * (i00 + i01) + c * (i10 + i11)
      BY ONLY <2>2, <2>6
    <2>9. a * Unit + c * Unit = Unit * (a + c)
      BY ONLY <1>3, <2>2
    <2>10. Power(Unit, i + 1) = Unit * Power(Unit, i)
      BY <1>3, PowerNext
    <2> QED
      BY <2>2, <2>6, <2>7, <2>8, <2>9, <2>10
  <1> HIDE DEF good
  <1>6. Nat \subseteq X
    <2> HIDE DEF X
    <2> QED
      BY <1>4, <1>5, NatSetInduction
  <1> QED
    BY <1>6 DEF good, r

\* One term of the formula, at a decision in a state.
Formula(b, t, s) ==
  Reach(b, 1, b.initial)[t][s] * Takes(b, t, s, 1) * Takes(b, t, s, 0) * FocalEffect(b, t)
    * Power(Unit, b.horizon - t)

LEMMA FormulaIs ==
  ASSUME NEW b, IsBucket(b), Focal(b), NEW t \in Times(b)
  PROVE  /\ Formula(b, t, 0) \in Int /\ Formula(b, t, 1) \in Int
         /\ Formula(b, t, 0) + Formula(b, t, 1) = Gradient(World(b))[t]
  <1> DEFINE r0 == Reach(b, 1, b.initial)[t][0]
             r1 == Reach(b, 1, b.initial)[t][1]
             p == Chanced(b, t)
             q == Unit - Chanced(b, t)
             e == FocalEffect(b, t)
             n == NoiseUnit(b)
             x == Power(Unit, t - 1)
             y == Power(Unit, b.horizon - t)
             z == Power(Unit, b.horizon - 1)
  <1>1. b.horizon \in Nat \ {0} /\ Times(b) = 1..b.horizon /\ b.initial \in Bit /\ 1 \in Times(b)
    BY BucketIs
  <1>2. r0 \in Int /\ r1 \in Int
    <2>1. \A s \in Bit : Reach(b, 1, b.initial)[t][s] \in Int
      BY <1>1, ReachFacts
    <2> QED
      BY <2>1, BitIs
  <1>3. r0 + r1 = x
    <2>1. t - 1 \in Nat /\ (t - 1) + 1 = t
      BY <1>1
    <2>2. (t - 1) + 1 \in Times(b) =>
            Reach(b, 1, b.initial)[(t - 1) + 1][0] + Reach(b, 1, b.initial)[(t - 1) + 1][1]
              = Power(Unit, t - 1)
      BY ONLY IsBucket(b), Focal(b), <2>1, ReachMass
    <2> QED
      BY <2>1, <2>2
  <1>4. \A s \in Bit : Takes(b, t, s, 1) = p /\ Takes(b, t, s, 0) = q
    <2>1. \A s \in Bit : /\ Takes(b, t, s, 1) = Chance(World(b), t, 1)
                         /\ Takes(b, t, s, 0) = Chance(World(b), t, 0)
      BY WorldIs, BitIs
    <2>2. World(b).chance[t] = p
      BY WorldIs
    <2> QED
      BY <2>1, <2>2 DEF Chance
  <1>5. p \in Int /\ q \in Int /\ Unit \in Int
    <2>1. p \in Int
      BY WorldIs
    <2> QED
      BY <2>1, UnitAssumption
  <1>6. n \in Nat \ {0}
    <2>1. [i \in 1..b.horizon |-> 0] \in History(b.horizon)
      BY BitIs DEF History
    <2>2. PICK a : a \in History(b.horizon)
      BY <2>1
    <2>3. NoiseWeight \in Int /\ NoiseUnit(b) \in Nat \ {0}
      BY ONLY IsBucket(b), Focal(b), <2>2, FocalRewardIs
    <2> QED
      BY <2>3
  <1>7. e = IF t \in b.noise THEN 0 ELSE 2 * n
    BY DEF FocalEffect
  <1>8. Gradient(World(b))[t] = IF t \in b.noise THEN 0 ELSE n * ((2 * (p * q)) * z)
    BY FocalGradient
  <1>9. x \in Int /\ y \in Int /\ z \in Int /\ z = x * y
    <2>1. t - 1 \in Nat /\ b.horizon - t \in Nat /\ b.horizon - 1 = (t - 1) + (b.horizon - t)
      BY <1>1
    <2> DEFINE i == t - 1
               k == b.horizon - t
    <2>2. i \in Nat /\ k \in Nat /\ b.horizon - 1 = i + k
      BY <2>1
    <2> HIDE DEF i, k
    <2>3. Power(Unit, i + k) = Power(Unit, i) * Power(Unit, k)
      BY <1>5, <2>2, PowerAdd
    <2>4. Power(Unit, i) \in Int /\ Power(Unit, k) \in Int
      BY <1>5, <2>2, PowerNext
    <2>5. Power(Unit, i) = x /\ Power(Unit, k) = y
      BY DEF i, k
    <2>6. z = x * y
      BY <2>2, <2>3, <2>5
    <2>7. x \in Int /\ y \in Int
      BY <2>4, <2>5
    <2> HIDE DEF x, y, z
    <2> QED
      BY <2>6, <2>7
  <1>10. Formula(b, t, 0) = r0 * p * q * e * y /\ Formula(b, t, 1) = r1 * p * q * e * y
    BY <1>4, BitIs DEF Formula
  <1>11. e \in Int
    BY <1>6, <1>7
  <1> HIDE DEF r0, r1, p, q, e, n, x, y, z
  <1>12. /\ r0 * p * q * e * y \in Int /\ r1 * p * q * e * y \in Int
         /\ r0 * p * q * e * y + r1 * p * q * e * y = (r0 + r1) * p * q * e * y
    BY ONLY <1>2, <1>5, <1>9, <1>11
  <1>13. (r0 + r1) * p * q * e * y = IF t \in b.noise THEN 0 ELSE n * ((2 * (p * q)) * z)
    <2>1. CASE t \in b.noise
      <3>1. e = 0
        BY <1>7, <2>1
      <3>2. (r0 + r1) * p * q * 0 * y = 0
        BY ONLY <1>2, <1>5, <1>9
      <3> QED
        BY ONLY <2>1, <3>1, <3>2
    <2>2. CASE t \notin b.noise
      <3>1. e = 2 * n
        BY <1>7, <2>2
      <3>2. n \in Int
        BY <1>6
      <3>3. x * p * q * (2 * n) * y = n * ((2 * (p * q)) * (x * y))
        BY ONLY <1>5, <1>9, <3>2
      <3> QED
        BY ONLY <1>3, <1>9, <2>2, <3>1, <3>3
    <2> QED
      BY <2>1, <2>2
  <1> QED
    BY <1>8, <1>10, <1>12, <1>13

LEMMA BellmanFocal ==
  ASSUME NEW b, IsBucket(b), Focal(b) PROVE SharedBellman(b) = SharedGradient(b)
  <1> DEFINE f(j) == [ts \in Sharing(b, 1, j) |-> Formula(b, ts[1], ts[2])]
  <1>1. SharedBellman(b) = [j \in Logit |-> SumFunction(f(j))]
    BY DEF SharedBellman, Formula
  <1>2. \A j \in Logit : SumFunction(f(j)) = SharedGradient(b)[j]
    <2> TAKE j \in Logit
    <2> DEFINE S == Shares(b, j)
               row == [t \in S |-> [s \in Bit |-> Formula(b, t, s)]]
               g == [t \in S |-> Gradient(World(b))[t]]
    <2>1. IsFiniteSet(S) /\ S \subseteq Times(b)
      BY SharesIs
    <2>2. Sharing(b, 1, j) = S \X Bit
      <3>1. Times(b) = 1..b.horizon /\ \A t \in Times(b), s \in Bit : b.map[t][s] = b.map[t][0]
        BY BucketIs
      <3>2. \A z \in Times(b) \X Bit : z = <<z[1], z[2]>> /\ z[1] \in Times(b) /\ z[2] \in Bit
        OBVIOUS
      <3>3. Sharing(b, 1, j) = {z \in Times(b) \X Bit : b.map[z[1]][z[2]] = j}
        BY <3>1 DEF Sharing
      <3>4. \A z \in Times(b) \X Bit : b.map[z[1]][z[2]] = j <=> z[1] \in S
        BY <3>1, <3>2 DEF Shares
      <3>5. \A z : z \in S \X Bit <=> z \in Times(b) \X Bit /\ z[1] \in S
        BY <2>1, <3>2
      <3> HIDE DEF S
      <3> QED
        BY <3>3, <3>4, <3>5
    <2>3. \A t \in S, s \in Bit : Formula(b, t, s) \in Int
      BY <2>1, FormulaIs, BitIs
    <2>4. \A t \in S : Formula(b, t, 0) + Formula(b, t, 1) = Gradient(World(b))[t]
      BY <2>1, FormulaIs
    <2>5. g \in [S -> Int] /\ SharedGradient(b)[j] = SumFunction(g)
      <3>1. g = [t \in Shares(b, j) |-> Gradient(World(b))[t]]
        OBVIOUS
      <3> HIDE DEF g
      <3> QED
        BY <3>1, SharedByTime
    <2> HIDE DEF S
    <2>6. row \in [S -> [Bit -> Int]] /\ \A t \in S, s \in Bit : row[t][s] = Formula(b, t, s)
      BY <2>3
    <2>7. \A t \in S : g[t] = SumFunction(row[t])
      <3> TAKE t \in S
      <3>1. row[t] \in [Bit -> Int] /\ row[t][0] = Formula(b, t, 0) /\ row[t][1] = Formula(b, t, 1)
        BY <2>6, BitIs
      <3> HIDE DEF row
      <3>2. SumFunction(row[t]) = row[t][0] + row[t][1]
        BY <3>1, SumBits
      <3> QED
        BY <2>4, <3>1, <3>2
    <2>8. f(j) \in [S \X Bit -> Int] /\ \A t \in S, s \in Bit : f(j)[<<t, s>>] = Formula(b, t, s)
      <3>1. f(j) = [z \in S \X Bit |-> Formula(b, z[1], z[2])]
        BY <2>2
      <3>2. \A z \in S \X Bit : Formula(b, z[1], z[2]) \in Int
        BY <2>3
      <3> HIDE DEF f
      <3> QED
        BY <3>1, <3>2
    <2> HIDE DEF f, g, row
    <2>9. Crossed(S, Bit, f(j), row, g)
      BY <2>5, <2>6, <2>7, <2>8 DEF Crossed
    <2>10. SumFunction(f(j)) = SumFunction(g)
      BY <2>1, <2>9, BitIs, SumCross
    <2> QED
      BY <2>5, <2>10
  <1>3. SharedGradient(b) \in [Logit -> Int]
    BY SharedGradientIs
  <1> HIDE DEF f
  <1> QED
    BY <1>1, <1>2, <1>3

-----------------------------------------------------------------------------
(* The sibling actions of a paired replay: one draw at each branched time *)

Draws(S) == [S -> Bit]
DrawWeight(w, S, x) == ProductOf([t \in S |-> Chance(w, t, x[t])])
Join(S, t, y, z) == [u \in S |-> IF u = t THEN z ELSE y[u]]
Joining(S, t) == [y \in Draws(S \ {t}) |-> [z \in Bit |-> Join(S, t, y, z)]]

LEMMA JoinFacts ==
  ASSUME NEW S, NEW t \in S, NEW y \in Draws(S \ {t}), NEW z \in Bit
  PROVE  /\ Join(S, t, y, z) \in Draws(S) /\ Join(S, t, y, z)[t] = z
         /\ \A u \in S \ {t} : Join(S, t, y, z)[u] = y[u]
  BY DEF Join, Draws

LEMMA JoiningIsPairing ==
  ASSUME NEW S, NEW t \in S
  PROVE  IsPairing(Draws(S \ {t}), Bit, Draws(S), Joining(S, t))
  <1> DEFINE E == S \ {t}
             pair == Joining(S, t)
  <1>1. /\ pair \in [Draws(E) -> [Bit -> Draws(S)]]
        /\ \A y \in Draws(E), z \in Bit : pair[y][z] = Join(S, t, y, z)
    BY JoinFacts DEF Joining
  <1>2. \A x \in Draws(S) : \E y \in Draws(E), z \in Bit : x = pair[y][z]
    <2> TAKE x \in Draws(S)
    <2> DEFINE y == [u \in E |-> x[u]]
    <2>1. y \in Draws(E) /\ x[t] \in Bit
      BY DEF Draws
    <2>2. x = Join(S, t, y, x[t])
      BY DEF Draws, Join
    <2> QED
      BY <1>1, <2>1, <2>2
  <1>3. \A y, v \in Draws(E), z, x \in Bit : pair[y][z] = pair[v][x] => y = v /\ z = x
    <2> TAKE y, v \in Draws(E), z, x \in Bit
    <2> HAVE pair[y][z] = pair[v][x]
    <2>1. Join(S, t, y, z) = Join(S, t, v, x)
      BY <1>1
    <2> DEFINE j == Join(S, t, y, z)
               k == Join(S, t, v, x)
    <2>4. j[t] = z /\ \A u \in E : j[u] = y[u]
      BY JoinFacts
    <2>5. k[t] = x /\ \A u \in E : k[u] = v[u]
      BY JoinFacts
    <2>6. j = k
      BY <2>1
    <2> HIDE DEF j, k
    <2>2. z = x /\ \A u \in E : y[u] = v[u]
      BY ONLY <2>4, <2>5, <2>6
    <2>3. y = v
      BY <2>2 DEF Draws
    <2> QED
      BY <2>2, <2>3
  <1> HIDE DEF pair, E
  <1> QED
    BY <1>1, <1>2, <1>3 DEF IsPairing, pair, E

LEMMA NoDraws == \E e : Draws({}) = {e}
  <1>1. Draws({}) = {[t \in {} |-> 0]}
    BY DEF Draws
  <1> QED
    BY <1>1

LEMMA DrawsFinite == ASSUME NEW S, IsFiniteSet(S) PROVE IsFiniteSet(Draws(S))
  <1> DEFINE X == {T \in SUBSET S : IsFiniteSet(Draws(T))}
  <1>1. {} \in X
    <2>1. PICK e : Draws({}) = {e}
      BY NoDraws
    <2>2. IsFiniteSet({e})
      BY FS_Singleton
    <2> QED
      BY <2>1, <2>2
  <1>2. ASSUME NEW T \in SUBSET S, NEW t \in S \ T, T \in X PROVE T \cup {t} \in X
    <2> DEFINE U == T \cup {t}
    <2>1. t \in U /\ U \ {t} = T /\ U \in SUBSET S
      OBVIOUS
    <2>2. IsPairing(Draws(T), Bit, Draws(U), Joining(U, t))
      BY <2>1, JoiningIsPairing
    <2>3. IsFiniteSet(Draws(T)) /\ IsFiniteSet(Bit)
      BY <1>2, BitIs
    <2> HIDE DEF U
    <2>4. IsFiniteSet(Draws(U))
      BY <2>2, <2>3, PairsFinite
    <2> QED
      BY <2>1, <2>4 DEF U
  <1> HIDE DEF X
  <1>3. S \in X
    BY <1>1, <1>2, FiniteSetInduction
  <1> QED
    BY <1>3 DEF X

LEMMA DrawWeightType ==
  ASSUME NEW w, IsWorld(w), NEW S, IsFiniteSet(S), S \subseteq Steps(w), NEW x \in Draws(S)
  PROVE  /\ [t \in S |-> Chance(w, t, x[t])] \in [S -> Int] /\ DrawWeight(w, S, x) \in Int
  <1> DEFINE f == [t \in S |-> Chance(w, t, x[t])]
  <1>1. \A t \in S : Chance(w, t, x[t]) \in Int
    BY ChanceFacts DEF Draws
  <1>2. f \in [S -> Int]
    BY <1>1
  <1> HIDE DEF f
  <1>3. ProductOf(f) \in Int
    BY <1>2, ProductType
  <1> QED
    BY <1>2, <1>3 DEF f, DrawWeight

LEMMA DrawWeightJoin ==
  ASSUME NEW w, IsWorld(w), NEW S, IsFiniteSet(S), S \subseteq Steps(w), NEW t \in S,
         NEW y \in Draws(S \ {t}), NEW z \in Bit
  PROVE  DrawWeight(w, S, Join(S, t, y, z)) = Chance(w, t, z) * DrawWeight(w, S \ {t}, y)
  <1> DEFINE E == S \ {t}
             x == Join(S, t, y, z)
             f == [u \in S |-> Chance(w, u, x[u])]
             g == [u \in E |-> Chance(w, u, y[u])]
  <1>1. x \in Draws(S) /\ x[t] = z /\ \A u \in E : x[u] = y[u]
    BY JoinFacts
  <1>2. IsFiniteSet(E) /\ E \subseteq Steps(w) /\ y \in Draws(E)
    BY FS_RemoveElement
  <1> HIDE DEF x
  <1>3. f \in [S -> Int]
    BY <1>1, DrawWeightType
  <1>4. g \in [E -> Int]
    <2> HIDE DEF E
    <2> QED
      BY <1>2, DrawWeightType
  <1>5. f[t] = Chance(w, t, z) /\ \A u \in E : g[u] = f[u]
    BY <1>1
  <1>6. E = S \ {t}
    OBVIOUS
  <1>7. DrawWeight(w, S, x) = ProductOf(f) /\ DrawWeight(w, E, y) = ProductOf(g)
    BY DEF DrawWeight
  <1> HIDE DEF f, g, E
  <1>8. ProductOf(f) = f[t] * ProductOf(g)
    BY <1>3, <1>4, <1>5, <1>6, ProductTake
  <1> QED
    BY <1>5, <1>6, <1>7, <1>8 DEF x

DrawTotal(w, S) == SumFunction([x \in Draws(S) |-> DrawWeight(w, S, x)])

LEMMA DrawTotalType ==
  ASSUME NEW w, IsWorld(w), NEW S, IsFiniteSet(S), S \subseteq Steps(w)
  PROVE  /\ [x \in Draws(S) |-> DrawWeight(w, S, x)] \in [Draws(S) -> Int]
         /\ DrawTotal(w, S) \in Int /\ IsFiniteSet(Draws(S))
  <1> DEFINE f == [x \in Draws(S) |-> DrawWeight(w, S, x)]
  <1>1. f \in [Draws(S) -> Int]
    BY DrawWeightType
  <1>2. IsFiniteSet(Draws(S))
    BY DrawsFinite
  <1> HIDE DEF f
  <1>3. SumFunction(f) \in Int
    BY <1>1, <1>2, SumType
  <1> QED
    BY <1>1, <1>2, <1>3 DEF f, DrawTotal

\* A value of one draw, summed over all draws.
Valued(w, S, t, g, f) ==
  /\ IsWorld(w) /\ IsFiniteSet(S) /\ S \subseteq Steps(w) /\ t \in S
  /\ g \in [Bit -> Int]
  /\ f = [x \in Draws(S) |-> DrawWeight(w, S, x) * g[x[t]]]

OfOneDraw(w, t, g) == Chance(w, t, 0) * g[0] + Chance(w, t, 1) * g[1]

LEMMA DrawStep ==
  ASSUME NEW w, NEW S, NEW t, NEW g, NEW f, Valued(w, S, t, g, f)
  PROVE  /\ SumFunction(f) = OfOneDraw(w, t, g) * DrawTotal(w, S \ {t})
         /\ f \in [Draws(S) -> Int]
  <1> DEFINE E == S \ {t}
             A == Draws(E)
             D == Draws(S)
             pair == Joining(S, t)
             m == Chance(w, t, 0) * g[0] + Chance(w, t, 1) * g[1]
             e == [y \in A |-> DrawWeight(w, E, y)]
             row == [y \in A |-> [z \in Bit |-> f[Join(S, t, y, z)]]]
             h == [y \in A |-> m * e[y]]
  <1>0. /\ IsWorld(w) /\ IsFiniteSet(S) /\ S \subseteq Steps(w) /\ t \in S /\ g \in [Bit -> Int]
        /\ f = [x \in Draws(S) |-> DrawWeight(w, S, x) * g[x[t]]]
    BY DEF Valued
  <1>1. IsFiniteSet(E) /\ E \subseteq Steps(w) /\ t \in Steps(w)
    BY <1>0, FS_RemoveElement
  <1>2. e \in [A -> Int] /\ IsFiniteSet(A) /\ DrawTotal(w, E) = SumFunction(e)
    <2> HIDE DEF E
    <2> QED
      BY <1>0, <1>1, DrawTotalType DEF DrawTotal
  <1>3. \A i, k \in Int : i * k \in Int /\ i + k \in Int
    OBVIOUS
  <1>4. \A x \in D : x[t] \in Bit /\ DrawWeight(w, S, x) \in Int
    BY <1>0, DrawWeightType DEF Draws
  <1>5. f \in [D -> Int] /\ \A x \in D : f[x] = DrawWeight(w, S, x) * g[x[t]]
    <2>1. \A x \in D : DrawWeight(w, S, x) * g[x[t]] \in Int
      <3> TAKE x \in D
      <3>1. DrawWeight(w, S, x) \in Int /\ g[x[t]] \in Int
        BY <1>0, <1>4
      <3> QED
        BY ONLY <1>3, <3>1
    <2> QED
      BY <1>0, <2>1
  <1>6. \A z \in Bit : Chance(w, t, z) \in Int /\ g[z] \in Int
    BY <1>0, <1>1, ChanceFacts
  <1>7. m \in Int
    BY <1>3, <1>6, BitIs
  <1>8. IsPairing(A, Bit, D, pair)
    BY <1>0, JoiningIsPairing
  <1>9. \A y \in A, z \in Bit : /\ Join(S, t, y, z) \in D /\ Join(S, t, y, z) = pair[y][z]
                                /\ f[Join(S, t, y, z)] = (Chance(w, t, z) * e[y]) * g[z]
    <2> TAKE y \in A, z \in Bit
    <2>1. Join(S, t, y, z) \in D /\ Join(S, t, y, z)[t] = z
      BY <1>0, JoinFacts
    <2>2. DrawWeight(w, S, Join(S, t, y, z)) = Chance(w, t, z) * DrawWeight(w, E, y)
      BY <1>0, DrawWeightJoin
    <2>3. pair[y][z] = Join(S, t, y, z)
      BY DEF Joining
    <2> QED
      BY <1>5, <2>1, <2>2, <2>3
  <1> HIDE DEF e, A, D, pair, m
  <1>10. pair \in [A -> [Bit -> D]]
    BY <1>8 DEF IsPairing
  <1>11. row \in [A -> [Bit -> Int]] /\ \A y \in A, z \in Bit : row[y][z] = f[pair[y][z]]
    BY <1>5, <1>9
  <1>12. h \in [A -> Int] /\ \A y \in A : h[y] = m * e[y]
    BY <1>2, <1>3, <1>7
  <1>13. \A y \in A : h[y] = SumFunction(row[y])
    <2> TAKE y \in A
    <2> DEFINE c0 == Chance(w, t, 0)
               c1 == Chance(w, t, 1)
               g0 == g[0]
               g1 == g[1]
               u == e[y]
    <2>1. row[y] \in [Bit -> Int]
      BY <1>11
    <2>2. row[y][0] = (c0 * u) * g0 /\ row[y][1] = (c1 * u) * g1
      BY <1>9, BitIs
    <2>3. c0 \in Int /\ c1 \in Int /\ g0 \in Int /\ g1 \in Int /\ u \in Int
      BY <1>2, <1>6, BitIs
    <2>4. h[y] = (c0 * g0 + c1 * g1) * u
      BY <1>12 DEF m
    <2> HIDE DEF row, h, c0, c1, g0, g1, u
    <2>5. SumFunction(row[y]) = row[y][0] + row[y][1]
      BY <2>1, SumBits
    <2>6. (c0 * u) * g0 + (c1 * u) * g1 = (c0 * g0 + c1 * g1) * u
      BY ONLY <2>3
    <2> QED
      BY <2>2, <2>4, <2>5, <2>6
  <1> HIDE DEF row, h
  <1>14. SumFunction(f) = SumFunction(h)
    <2>1. ByRows(A, Bit, D, pair, f, row, h)
      BY <1>5, <1>10, <1>11, <1>12, <1>13 DEF ByRows
    <2> QED
      BY <1>2, <1>8, <2>1, BitIs, SumPairs
  <1>15. SumFunction(h) = m * SumFunction(e)
    BY <1>2, <1>7, <1>12, SumScale
  <1> QED
    BY <1>2, <1>5, <1>14, <1>15 DEF m, D, OfOneDraw

LEMMA DrawOne ==
  ASSUME NEW w, NEW U, NEW t, NEW g, NEW f, Valued(w, U, t, g, f), g[0] = 1, g[1] = 1
  PROVE  SumFunction(f) = Unit * DrawTotal(w, U \ {t})
  <1>1. SumFunction(f) = OfOneDraw(w, t, g) * DrawTotal(w, U \ {t}) /\ f \in [Draws(U) -> Int]
    BY ONLY Valued(w, U, t, g, f), DrawStep
  <1>2. IsWorld(w) /\ t \in Steps(w)
    BY DEF Valued
  <1>3. Chance(w, t, 0) * 1 + Chance(w, t, 1) * 1 = Unit
    <2>1. /\ Chance(w, t, 1) = w.chance[t] /\ Chance(w, t, 0) = Unit - w.chance[t]
          /\ w.chance[t] \in Int /\ Unit \in Int
      BY <1>2, ChanceFacts, WorldFacts, UnitAssumption
    <2> QED
      BY <2>1
  <1> QED
    BY <1>1, <1>3 DEF OfOneDraw

LEMMA DrawGrow ==
  ASSUME NEW w, IsWorld(w), NEW U, IsFiniteSet(U), U \subseteq Steps(w), NEW t \in U
  PROVE  DrawTotal(w, U) = Unit * DrawTotal(w, U \ {t})
  <1>1. PICK g : g = [x \in Bit |-> 1]
    OBVIOUS
  <1>2. PICK f : f = [x \in Draws(U) |-> DrawWeight(w, U, x) * g[x[t]]]
    OBVIOUS
  <1>3. \A x \in Draws(U) : x[t] \in Bit
    BY DEF Draws
  <1>4. f = [x \in Draws(U) |-> DrawWeight(w, U, x)]
    <2>1. \A x \in Draws(U) : DrawWeight(w, U, x) \in Int
      BY DrawWeightType
    <2>2. \A x \in Draws(U) : DrawWeight(w, U, x) * g[x[t]] = DrawWeight(w, U, x)
      BY <1>1, <1>3, <2>1
    <2> QED
      BY <1>2, <2>2
  <1>5. g \in [Bit -> Int] /\ g[0] = 1 /\ g[1] = 1
    BY <1>1, BitIs
  <1>6. Valued(w, U, t, g, f)
    BY <1>2, <1>5 DEF Valued
  <1>7. SumFunction(f) = Unit * DrawTotal(w, U \ {t})
    BY <1>5, <1>6, DrawOne
  <1> QED
    BY <1>4, <1>7 DEF DrawTotal

LEMMA DrawMass ==
  ASSUME NEW w, IsWorld(w), NEW S, IsFiniteSet(S), S \subseteq Steps(w)
  PROVE  DrawTotal(w, S) = Power(Unit, Cardinality(S)) /\ Power(Unit, Cardinality(S)) \in Nat \ {0}
  <1> DEFINE good(T) == DrawTotal(w, T) = Power(Unit, Cardinality(T))
             X == {T \in SUBSET S : good(T)}
  <1>1. Unit \in Nat \ {0} /\ Unit \in Int
    BY UnitAssumption
  <1>2. {} \in X
    <2> DEFINE f == [x \in Draws({}) |-> DrawWeight(w, {}, x)]
    <2>1. PICK e : Draws({}) = {e}
      BY NoDraws
    <2>2. DrawWeight(w, {}, e) = 1
      <3>1. DOMAIN [t \in {} |-> Chance(w, t, e[t])] = {}
        OBVIOUS
      <3> QED
        BY <3>1, ProductEmpty DEF DrawWeight
    <2>3. f \in [{e} -> Int] /\ f[e] = 1
      BY <2>1, <2>2
    <2>4. IsFiniteSet({e}) /\ e \in {e} /\ \A x \in {e} \ {e} : f[x] = 0
      BY FS_Singleton
    <2> HIDE DEF f
    <2>5. SumFunction(f) = f[e]
      BY <2>3, <2>4, SumSingle
    <2>6. DrawTotal(w, {}) = 1
      BY <2>3, <2>5 DEF f, DrawTotal
    <2>7. Cardinality({}) = 0
      BY FS_EmptySet
    <2>8. Power(Unit, 0) = 1
      BY <1>1, PowerZero
    <2> QED
      BY <2>6, <2>7, <2>8
  <1>3. ASSUME NEW T \in SUBSET S, NEW t \in S \ T, T \in X PROVE T \cup {t} \in X
    <2> DEFINE U == T \cup {t}
               n == Cardinality(T)
    <2>1. t \in U /\ U \ {t} = T /\ U \in SUBSET S /\ U \subseteq Steps(w) /\ t \in Steps(w)
      OBVIOUS
    <2>2. IsFiniteSet(T) /\ n \in Nat
      BY FS_Subset, FS_CardinalityType
    <2>3. IsFiniteSet(U) /\ Cardinality(U) = n + 1
      BY <2>2, FS_AddElement
    <2>6. DrawTotal(w, T) = Power(Unit, n)
      BY <1>3
    <2> HIDE DEF U, n
    <2>13. DrawTotal(w, U) = Unit * Power(Unit, n)
      <3>1. DrawTotal(w, U) = Unit * DrawTotal(w, U \ {t})
        BY <2>1, <2>3, DrawGrow
      <3> QED
        BY <2>1, <2>6, <3>1
    <2>14. Power(Unit, n + 1) = Unit * Power(Unit, n)
      BY <1>1, <2>2, PowerNext
    <2> QED
      BY <2>1, <2>3, <2>13, <2>14 DEF U
  <1> HIDE DEF X, good
  <1>4. S \in X
    BY <1>2, <1>3, FiniteSetInduction
  <1>5. Cardinality(S) \in Nat
    BY FS_CardinalityType
  <1>6. Power(Unit, Cardinality(S)) \in Nat \ {0}
    BY <1>1, <1>5, PowerPositive
  <1> QED
    BY <1>4, <1>6 DEF X, good

LEMMA DrawMean ==
  ASSUME NEW w, NEW S, NEW t, NEW g, NEW f, Valued(w, S, t, g, f)
  PROVE  /\ Unit * SumFunction(f) = Power(Unit, Cardinality(S)) * OfOneDraw(w, t, g)
         /\ f \in [Draws(S) -> Int]
  <1> DEFINE E == S \ {t}
             m == OfOneDraw(w, t, g)
             n == Cardinality(E)
             P == Power(Unit, n)
  <1>1. f \in [Draws(S) -> Int] /\ SumFunction(f) = m * DrawTotal(w, E)
    <2>1. /\ SumFunction(f) = OfOneDraw(w, t, g) * DrawTotal(w, S \ {t})
          /\ f \in [Draws(S) -> Int]
      BY ONLY Valued(w, S, t, g, f), DrawStep
    <2> QED
      BY <2>1
  <1>0. IsWorld(w) /\ IsFiniteSet(S) /\ S \subseteq Steps(w) /\ t \in S /\ t \in Steps(w) /\ g \in [Bit -> Int]
    BY DEF Valued
  <1>2. IsFiniteSet(E) /\ E \subseteq Steps(w)
    BY <1>0, FS_RemoveElement
  <1>3. n \in Nat /\ Cardinality(S) = n + 1
    <2>1. n \in Nat
      BY <1>2, FS_CardinalityType
    <2>2. n = Cardinality(S) - 1 /\ Cardinality(S) \in Nat
      BY <1>0, FS_RemoveElement, FS_CardinalityType
    <2> QED
      BY <2>1, <2>2
  <1>4. m \in Int
    <2>1. \A z \in Bit : Chance(w, t, z) \in Int /\ g[z] \in Int
      BY <1>0, ChanceFacts
    <2>2. \A i, k \in Int : i * k \in Int /\ i + k \in Int
      OBVIOUS
    <2> QED
      BY <2>1, <2>2, BitIs DEF OfOneDraw
  <1>5. Unit \in Int
    BY UnitAssumption
  <1> HIDE DEF m, E, n
  <1>6. DrawTotal(w, E) = P
    BY <1>0, <1>2, DrawMass DEF n
  <1>7. P \in Int /\ Power(Unit, n + 1) = Unit * P
    BY <1>3, <1>5, PowerNext
  <1> HIDE DEF P
  <1>8. Unit * (m * P) = (Unit * P) * m
    BY ONLY <1>4, <1>5, <1>7
  <1> QED
    BY <1>1, <1>3, <1>6, <1>7, <1>8 DEF m

LEMMA DrawConstant ==
  ASSUME NEW w, IsWorld(w), NEW S, IsFiniteSet(S), S \subseteq Steps(w), NEW c \in Int,
         NEW f, f = [x \in Draws(S) |-> DrawWeight(w, S, x) * c]
  PROVE  /\ SumFunction(f) = Power(Unit, Cardinality(S)) * c
         /\ f \in [Draws(S) -> Int]
  <1> DEFINE e == [x \in Draws(S) |-> DrawWeight(w, S, x)]
             D == Draws(S)
  <1>1. e \in [D -> Int] /\ IsFiniteSet(D) /\ DrawTotal(w, S) = SumFunction(e)
    BY DrawTotalType DEF DrawTotal
  <1>2. \A x \in D : f[x] = c * e[x]
    <2>1. \A x \in D : e[x] \in Int /\ e[x] = DrawWeight(w, S, x) /\ f[x] = DrawWeight(w, S, x) * c
      BY <1>1
    <2>2. \A u \in Int : u * c = c * u
      OBVIOUS
    <2> HIDE DEF e, D
    <2> QED
      BY <2>1, <2>2
  <1>3. f = [x \in D |-> f[x]]
    OBVIOUS
  <1> HIDE DEF e, D
  <1>4. f \in [D -> Int]
    <2>1. \A u \in Int : c * u \in Int
      OBVIOUS
    <2>2. \A x \in D : f[x] \in Int
      BY <1>1, <1>2, <2>1
    <2> QED
      BY ONLY <1>3, <2>2
  <1>5. SumFunction(f) = c * SumFunction(e)
    BY <1>1, <1>2, <1>4, SumScale
  <1>6. DrawTotal(w, S) = Power(Unit, Cardinality(S)) /\ Power(Unit, Cardinality(S)) \in Int
    BY DrawMass
  <1>7. c * Power(Unit, Cardinality(S)) = Power(Unit, Cardinality(S)) * c
    BY <1>6
  <1> QED
    BY <1>1, <1>4, <1>5, <1>6, <1>7 DEF D

-----------------------------------------------------------------------------
(* The mean of a paired replay *)

\* The decisions whose scores reach logit j, and what each adds to an outcome.
Terms(b, d, j) == Shares(b, j) \cap ((1..d) \cup BranchedTimes(b, d))
Part(b, d, a, x, t) ==
  IF t <= d THEN FocalReward(b, a) * Score(World(b), a, t)
  ELSE (FocalReward(b, a) - FocalReward(b, Put(a, t, x[t]))) * Score(World(b), a, t)

Depth(b, d) == IsBucket(b) /\ Focal(b) /\ d \in Nat /\ d < b.horizon

LEMMA DepthIs ==
  ASSUME NEW b, NEW d, Depth(b, d)
  PROVE  /\ IsBucket(b) /\ Focal(b) /\ d \in Nat /\ d < b.horizon
         /\ BranchedTimes(b, d) \subseteq Times(b) /\ IsFiniteSet(BranchedTimes(b, d))
         /\ \A t \in BranchedTimes(b, d) : t > d /\ t \notin b.noise
         /\ \A j : /\ IsFiniteSet(Terms(b, d, j)) /\ Terms(b, d, j) \subseteq Times(b)
                   /\ Terms(b, d, j) \subseteq Shares(b, j)
                   /\ \A t \in Terms(b, d, j) : t > d => t \in BranchedTimes(b, d)
                   /\ \A t \in Shares(b, j) : t \notin Terms(b, d, j) => t \in b.noise
  <1>1. IsBucket(b) /\ Focal(b) /\ d \in Nat /\ d < b.horizon
    BY DEF Depth
  <1>2. Times(b) = 1..b.horizon /\ b.horizon \in Nat
    BY <1>1, BucketIs
  <1>3. \A t \in BranchedTimes(b, d) : t \in Times(b) /\ t > d /\ t \notin b.noise
    BY <1>1, <1>2 DEF BranchedTimes
  <1>4. IsFiniteSet(Times(b)) /\ \A j : Shares(b, j) \subseteq Times(b)
    BY <1>1, SharesIs
  <1>5. BranchedTimes(b, d) \subseteq Times(b)
    BY <1>3
  <1>6. IsFiniteSet(BranchedTimes(b, d))
    BY <1>4, <1>5, FS_Subset
  <1>7. ASSUME NEW j
        PROVE  /\ IsFiniteSet(Terms(b, d, j)) /\ Terms(b, d, j) \subseteq Times(b)
               /\ Terms(b, d, j) \subseteq Shares(b, j)
               /\ \A t \in Terms(b, d, j) : t > d => t \in BranchedTimes(b, d)
               /\ \A t \in Shares(b, j) : t \notin Terms(b, d, j) => t \in b.noise
    <2>1. Terms(b, d, j) \subseteq Shares(b, j) /\ Terms(b, d, j) \subseteq Times(b)
      BY <1>4 DEF Terms
    <2>2. IsFiniteSet(Terms(b, d, j))
      BY <1>4, <2>1, FS_Subset
    <2>3. \A t \in Terms(b, d, j) : t > d => t \in BranchedTimes(b, d)
      BY <1>1 DEF Terms
    <2>4. ASSUME NEW t \in Shares(b, j), t \notin Terms(b, d, j) PROVE t \in b.noise
      <3>1. t \in 1..b.horizon /\ t \notin 1..d /\ t \notin BranchedTimes(b, d)
        BY <1>2, <1>4, <2>4 DEF Terms
      <3>2. t \in (d + 1)..b.horizon
        BY <1>1, <1>2, <3>1
      <3> QED
        BY <3>1, <3>2 DEF BranchedTimes
    <2> QED
      BY <2>1, <2>2, <2>3, <2>4
  <1> QED
    BY <1>1, <1>3, <1>5, <1>6, <1>7

\* A sum over two disjoint halves of its domain.
SplitInHalves(D, S, T, f, g, h) ==
  /\ IsFiniteSet(S) /\ IsFiniteSet(T) /\ S \cap T = {} /\ D = S \cup T
  /\ f \in [D -> Int] /\ g \in [S -> Int] /\ h \in [T -> Int]
  /\ \A x \in S : g[x] = f[x]
  /\ \A x \in T : h[x] = f[x]

LEMMA SumHalves ==
  ASSUME NEW D, NEW S, NEW T, NEW f, NEW g, NEW h, SplitInHalves(D, S, T, f, g, h)
  PROVE  SumFunction(f) = SumFunction(g) + SumFunction(h)
  <1>1. IsFiniteSet(S) /\ IsFiniteSet(T) /\ S \cap T = {} /\ f \in [S \cup T -> Int]
    BY DEF SplitInHalves
  <1>2. g \in [S -> Int] /\ \A x \in S : g[x] = f[x]
    BY DEF SplitInHalves
  <1>3. h \in [T -> Int] /\ \A x \in T : h[x] = f[x]
    BY DEF SplitInHalves
  <1> QED
    BY ONLY <1>1, <1>2, <1>3, SumUnion

LEMMA PartType ==
  ASSUME NEW b, NEW d, Depth(b, d), NEW j \in Logit, NEW a \in History(b.horizon),
         NEW x \in Draws(BranchedTimes(b, d)), NEW t \in Terms(b, d, j)
  PROVE  /\ Part(b, d, a, x, t) \in Int /\ FocalReward(b, a) \in Int
         /\ Score(World(b), a, t) \in Int /\ t \in Times(b)
         /\ t > d => x[t] \in Bit /\ Put(a, t, x[t]) \in History(b.horizon)
  <1>1. /\ IsBucket(b) /\ Focal(b) /\ t \in Times(b) /\ d \in Nat
        /\ t > d => t \in BranchedTimes(b, d)
    BY DepthIs
  <1>2. FocalReward(b, a) \in Int /\ Score(World(b), a, t) \in Int
    <2>1. FocalReward(b, a) \in Int
      BY <1>1, FocalRewardIs
    <2>2. Score(World(b), a, t) \in Int
      BY <1>1, PartsType
    <2> QED
      BY <2>1, <2>2
  <1>3. ASSUME t > d PROVE x[t] \in Bit /\ Put(a, t, x[t]) \in History(b.horizon)
                           /\ FocalReward(b, Put(a, t, x[t])) \in Int
    <2>1. x[t] \in Bit
      BY <1>1, <1>3 DEF Draws
    <2>2. Put(a, t, x[t]) \in History(b.horizon)
      BY <1>1, <2>1, PutIs
    <2>3. FocalReward(b, Put(a, t, x[t])) \in Int
      BY <1>1, <2>2, FocalRewardIs
    <2> QED
      BY <2>1, <2>2, <2>3
  <1>4. t \in Int
    BY <1>1, BucketIs
  <1>5. \A u, v, s \in Int : u * s \in Int /\ (u - v) * s \in Int
    OBVIOUS
  <1>6. Part(b, d, a, x, t) \in Int
    <2>1. CASE t <= d
      BY <1>2, <1>5, <2>1 DEF Part
    <2>2. CASE ~(t <= d)
      <3>1. t > d
        BY <1>1, <1>4, <2>2
      <3>2. Part(b, d, a, x, t)
              = (FocalReward(b, a) - FocalReward(b, Put(a, t, x[t]))) * Score(World(b), a, t)
        BY <2>2 DEF Part
      <3> QED
        BY <1>2, <1>3, <1>5, <3>1, <3>2
    <2> QED
      BY <2>1, <2>2
  <1> QED
    BY <1>1, <1>2, <1>3, <1>6

\* An outcome of the cycle: a row, and the draws of the siblings.
LEMMA PairedOutcome ==
  ASSUME NEW b, NEW d, Depth(b, d), NEW j \in Logit, NEW r \in Enumerated(b),
         NEW x \in Draws(BranchedTimes(b, d))
  PROVE  /\ PairedCycle(b, d)[<<r, x>>].weight = r.weight * DrawWeight(World(b), BranchedTimes(b, d), x)
         /\ PairedCycle(b, d)[<<r, x>>].vector[j]
              = SumFunction([t \in Terms(b, d, j) |-> Part(b, d, r.path.a, x, t)])
         /\ r.path \in Walks(b, b.horizon) /\ r.path.a \in History(b.horizon) /\ r.weight \in Int
  <1> DEFINE w == World(b)
             B == BranchedTimes(b, d)
             p == r.path
             a == r.path.a
             T == Terms(b, d, j)
             score(q, t) == q.a[t] * Unit - ActionProb(b, t, q.s[t])
             draw(q, y) == ProductOf([t \in B |-> Takes(b, t, q.s[t], y[t])])
             delta(t) == (r.reward - FocalReward(b, [r.path.a EXCEPT ![t] = x[t]])) * score(r.path, t)
             here(S) == {t \in S : b.map[t][r.path.s[t]] = j}
             one == [t \in here(1..d) |-> score(r.path, t)]
             two == [t \in here(B) |-> delta(t)]
             out == PairedCycle(b, d)
  <1>1. /\ IsBucket(b) /\ Focal(b) /\ d \in Nat /\ d < b.horizon /\ B \subseteq Times(b)
        /\ IsFiniteSet(T) /\ T \subseteq Times(b) /\ \A t \in B : t > d
        /\ \A t \in T : t > d => t \in B
    BY DepthIs
  <1>2. /\ p \in Walks(b, b.horizon) /\ r.weight \in Nat \ {0} /\ r.reward = PathReward(b, p)
    BY <1>1, RowFacts
  <1>3. b.horizon \in Nat /\ Times(b) = 1..b.horizon /\ \A t \in Times(b), s \in Bit : b.map[t][s] = b.map[t][0]
    BY <1>1, BucketIs
  <1>4. a \in History(b.horizon) /\ \A t \in Times(b) : p.s[t] \in Bit
    BY <1>2, <1>3, WalkFacts
  <1>5. r.reward = FocalReward(b, a)
    BY <1>1, <1>2 DEF PathReward
  <1>6. out[<<r, x>>] = [weight |-> r.weight * draw(r.path, x),
                         vector |-> [i \in Logit |->
                           LET at(S) == {t \in S : b.map[t][r.path.s[t]] = i}
                           IN r.reward * SumFunction([t \in at(1..d) |-> score(r.path, t)])
                              + SumFunction([t \in at(B) |-> delta(t)])]]
    BY DEF PairedCycle, Draws
  <1>7. /\ out[<<r, x>>].weight = r.weight * draw(r.path, x)
        /\ out[<<r, x>>].vector[j] = r.reward * SumFunction(one) + SumFunction(two)
    <2> DEFINE value(i) == LET at(S) == {t \in S : b.map[t][r.path.s[t]] = i}
                           IN r.reward * SumFunction([t \in at(1..d) |-> score(r.path, t)])
                              + SumFunction([t \in at(B) |-> delta(t)])
    <2>1. out[<<r, x>>] = [weight |-> r.weight * draw(r.path, x), vector |-> [i \in Logit |-> value(i)]]
      BY ONLY <1>6
    <2>2. value(j) = r.reward * SumFunction(one) + SumFunction(two)
      OBVIOUS
    <2> HIDE DEF draw, value, out, one, two
    <2> QED
      BY ONLY <2>1, <2>2, j \in Logit
  <1>8. draw(r.path, x) = DrawWeight(w, B, x)
    <2>1. \A t \in B : Takes(b, t, p.s[t], x[t]) = Chance(w, t, x[t])
      <3> TAKE t \in B
      <3>1. t \in Times(b) /\ p.s[t] \in Bit /\ x[t] \in Bit
        BY <1>1, <1>4 DEF Draws
      <3> QED
        BY <1>1, <3>1, WorldIs
    <2> QED
      BY <2>1 DEF DrawWeight
  <1>9. \A t \in Times(b) : score(r.path, t) = Score(w, a, t) /\ Score(w, a, t) \in Int
    <2> TAKE t \in Times(b)
    <2>1. ActionProb(b, t, p.s[t]) = Chanced(b, t)
      BY <1>1, <1>4, FocalRewardIs
    <2>2. w.chance[t] = Chanced(b, t)
      BY <1>1, WorldIs
    <2>3. Score(w, a, t) \in Int
      BY <1>1, <1>4, PartsType
    <2> QED
      BY <2>1, <2>2, <2>3 DEF Score
  <1> DEFINE E == here(1..d)
             F == here(B)
             f == [t \in T |-> Part(b, d, a, x, t)]
             g == [t \in E |-> Part(b, d, a, x, t)]
             c == FocalReward(b, a)
  <1>10. \A t \in Times(b) : b.map[t][p.s[t]] = j <=> t \in Shares(b, j)
    BY <1>3, <1>4 DEF Shares
  <1>11. 1..d \subseteq Times(b)
    BY <1>1, <1>3
  <1>12. T = E \cup F /\ E \cap F = {} /\ E \subseteq T /\ F \subseteq T /\ \A t \in E : t <= d
    <2>1. \A t : t \in E <=> t \in 1..d /\ t \in Shares(b, j)
      BY <1>10, <1>11
    <2>2. \A t : t \in F <=> t \in B /\ t \in Shares(b, j)
      BY <1>1, <1>10
    <2>3. \A t \in B : t \in Int /\ t > d
      BY <1>1, <1>3
    <2>4. \A t \in B : t \notin 1..d
      BY <1>1, <2>3
    <2> HIDE DEF E, F, B
    <2> QED
      BY <2>1, <2>2, <2>4 DEF Terms, B
  <1>13. f \in [T -> Int]
    BY <1>4, PartType
  <1>14. g \in [E -> Int] /\ \A t \in E : g[t] = f[t] /\ g[t] = c * one[t]
    <2>1. \A t \in E : t \in T /\ t <= d /\ t \in Times(b)
      BY <1>1, <1>12
    <2>2. \A t \in E : Part(b, d, a, x, t) = c * one[t]
      BY <1>9, <2>1 DEF Part
    <2>3. \A t \in E : Part(b, d, a, x, t) \in Int
      BY <1>13, <2>1
    <2> HIDE DEF E, c, one
    <2> QED
      BY <2>1, <2>2, <2>3
  <1>15. one \in [E -> Int] /\ c \in Int
    <2>1. \A t \in E : score(r.path, t) \in Int
      <3>1. \A t \in E : t \in Times(b)
        BY <1>1, <1>12
      <3>2. \A t \in Times(b) : score(r.path, t) \in Int
        BY <1>9
      <3> HIDE DEF E, score
      <3> QED
        BY <3>1, <3>2
    <2>2. c \in Int
      BY <1>1, <1>4, FocalRewardIs
    <2> QED
      BY <2>1, <2>2
  <1>16. two \in [F -> Int] /\ \A t \in F : two[t] = f[t]
    <2>1. \A t \in F : t \in T /\ t \in B /\ t \in Times(b)
      BY <1>1, <1>12
    <2>2. \A t \in F : ~(t <= d)
      <3>1. \A t \in B : t \in Int /\ t > d
        BY <1>1, <1>3
      <3> QED
        BY <1>1, <2>1, <3>1
    <2>3. \A t \in F : delta(t) = Part(b, d, a, x, t)
      <3> TAKE t \in F
      <3>1. score(r.path, t) = Score(w, a, t)
        BY <1>9, <2>1
      <3> QED
        BY <1>5, <2>2, <3>1 DEF Part, Put
    <2>4. \A t \in F : Part(b, d, a, x, t) \in Int
      BY <1>13, <2>1
    <2>5. two = [t \in F |-> delta(t)]
      OBVIOUS
    <2>6. f = [t \in T |-> Part(b, d, a, x, t)]
      OBVIOUS
    <2>7. \A t \in F : t \in T
      BY <2>1
    <2> HIDE DEF F, delta, two, f, T
    <2>8. \A t \in F : two[t] = f[t] /\ two[t] \in Int
      BY ONLY <2>3, <2>4, <2>5, <2>6, <2>7
    <2> QED
      BY ONLY <2>5, <2>8
  <1>17. IsFiniteSet(E) /\ IsFiniteSet(F)
    BY <1>1, <1>12, FS_Subset
  <1> HIDE DEF E, F, f, g, one, two, c, T, here
  <1>18. SumFunction(g) = c * SumFunction(one)
    BY <1>14, <1>15, <1>17, SumScale
  <1>19. SumFunction(f) = SumFunction(g) + SumFunction(two)
    <2>1. SplitInHalves(T, E, F, f, g, two)
      BY <1>12, <1>13, <1>14, <1>16, <1>17 DEF SplitInHalves
    <2> QED
      BY ONLY <2>1, SumHalves
  <1>20. out[<<r, x>>].vector[j] = SumFunction(f)
    BY <1>5, <1>7, <1>18, <1>19 DEF c
  <1>21. out[<<r, x>>].weight = r.weight * DrawWeight(w, B, x)
    BY <1>7, <1>8
  <1> QED
    BY <1>2, <1>4, <1>20, <1>21 DEF f, T, out

\* What a term of the paired estimator is worth once its sibling is averaged out.
Contrasted(b, d, t) ==
  [a \in History(b.horizon) |->
     IF t <= d THEN Unit * Payoff(World(b), t)[a]
     ELSE Unit * Payoff(World(b), t)[a] - Averaged(World(b), t, t)[a]]

LEMMA ContrastedIs ==
  ASSUME NEW b, NEW d, Depth(b, d), NEW j \in Logit, NEW t \in Terms(b, d, j)
  PROVE  /\ Contrasted(b, d, t) \in [History(b.horizon) -> Int]
         /\ \A a \in History(b.horizon) :
              /\ Payoff(World(b), t)[a] = FocalReward(b, a) * Score(World(b), a, t)
              /\ Payoff(World(b), t)[a] \in Int /\ Averaged(World(b), t, t)[a] \in Int
              /\ Contrasted(b, d, t)[a] \in Int
         /\ Expect(World(b), Contrasted(b, d, t)) = Unit * Gradient(World(b))[t]
         /\ Gradient(World(b))[t] \in Int
  <1> DEFINE w == World(b)
             A == History(b.horizon)
             F == Payoff(w, t)
             G == Averaged(w, t, t)
             K == Contrasted(b, d, t)
  <1>1. IsBucket(b) /\ Focal(b) /\ t \in Times(b) /\ d \in Nat
    BY DepthIs
  <1>2. /\ IsWorld(w) /\ Steps(w) = Times(b) /\ Actions(w) = A
        /\ \A a \in A : w.reward[a] = FocalReward(b, a)
    BY <1>1, WorldIs
  <1>3. Unit \in Int /\ t \in Int
    <2>1. Unit \in Int
      BY UnitAssumption
    <2> QED
      BY <1>1, <2>1, BucketIs
  <1>4. F \in [A -> Int] /\ Gradient(w)[t] = Expect(w, F) /\ Gradient(w)[t] \in Int
    <2>1. t \in Steps(w)
      BY <1>1, <1>2
    <2>2. F \in [Actions(w) -> Int] /\ Gradient(w)[t] = Expect(w, F) /\ Gradient(w)[t] \in Int
      BY ONLY <1>2, <2>1, GradientIsExpect
    <2> QED
      BY <1>2, <2>2
  <1>5. G \in [A -> Int] /\ Expect(w, G) = 0
    <2>1. t \in Steps(w)
      BY <1>1, <1>2
    <2>2. G \in [Actions(w) -> Int] /\ Expect(w, G) = IF t = t THEN 0 ELSE Unit * Gradient(w)[t]
      BY ONLY <1>2, <2>1, AveragedFacts
    <2> QED
      BY <1>2, <2>2
  <1>6. \A a \in A : F[a] = FocalReward(b, a) * Score(w, a, t)
    BY <1>2 DEF Payoff
  <1>7. K = [a \in A |-> IF t <= d THEN Unit * F[a] ELSE Unit * F[a] - G[a]]
    BY DEF Contrasted
  <1> HIDE DEF A, F, G, K, w
  <1>8. \A a \in A : Unit * F[a] \in Int /\ Unit * F[a] - G[a] \in Int /\ Unit * F[a] - G[a] = Unit * F[a] + (0 - 1) * G[a]
    <2>1. \A m, n \in Int : m * n \in Int /\ m * n - n \in Int
      OBVIOUS
    <2>2. \A m, n \in Int : m - n \in Int /\ m - n = m + (0 - 1) * n
      OBVIOUS
    <2>3. \A a \in A : F[a] \in Int /\ G[a] \in Int
      BY <1>4, <1>5
    <2> QED
      BY <1>3, <2>1, <2>2, <2>3
  <1>9. K \in [A -> Int]
    <2>1. \A a \in A : (IF t <= d THEN Unit * F[a] ELSE Unit * F[a] - G[a]) \in Int
      BY <1>8
    <2> QED
      BY ONLY <1>7, <2>1
  <1>10. Expect(w, K) = Unit * Expect(w, F)
    <2>1. CASE t <= d
      <3>1. \A a \in A : K[a] = Unit * F[a]
        BY ONLY <1>7, <2>1
      <3>2. IsWorld(w) /\ F \in [Actions(w) -> Int] /\ Unit \in Int /\ K \in [Actions(w) -> Int]
            /\ \A a \in Actions(w) : K[a] = Unit * F[a]
        BY <1>2, <1>3, <1>4, <1>9, <3>1
      <3> QED
        BY ONLY <3>2, ExpectScaled
    <2>2. CASE ~(t <= d)
      <3>1. \A a \in A : K[a] = Unit * F[a] + (0 - 1) * G[a]
        BY ONLY <1>7, <1>8, <2>2
      <3>2. Combines(Actions(w), F, G, Unit, 0 - 1, K)
        BY <1>2, <1>3, <1>4, <1>5, <1>9, <3>1 DEF Combines
      <3>3. Expect(w, K) = Unit * Expect(w, F) + (0 - 1) * Expect(w, G)
        BY ONLY <1>2, <3>2, ExpectLinear
      <3>4. Unit * Expect(w, F) \in Int
        <4>1. Expect(w, F) \in Int
          BY <1>4
        <4> QED
          BY ONLY <1>3, <4>1
      <3> QED
        BY <1>5, <3>3, <3>4
    <2> QED
      BY <2>1, <2>2
  <1>11. \A a \in A : F[a] \in Int /\ G[a] \in Int /\ K[a] \in Int
    BY <1>4, <1>5, <1>9
  <1> QED
    BY <1>4, <1>6, <1>9, <1>10, <1>11 DEF A, F, G, K, w

\* The expectation of one term over the draws of the siblings.
LEMMA PartMean ==
  ASSUME NEW b, NEW d, Depth(b, d), NEW j \in Logit, NEW a \in History(b.horizon),
         NEW t \in Terms(b, d, j), NEW S, S = BranchedTimes(b, d),
         NEW f, f = [x \in Draws(S) |-> DrawWeight(World(b), S, x) * Part(b, d, a, x, t)]
  PROVE  /\ Unit * SumFunction(f) = Power(Unit, Cardinality(S)) * Contrasted(b, d, t)[a]
         /\ f \in [Draws(S) -> Int]
  <1> DEFINE w == World(b)
             n == Power(Unit, Cardinality(S))
             r == FocalReward(b, a)
             s == Score(w, a, t)
             c == r * s
  <1>1. /\ IsBucket(b) /\ Focal(b) /\ t \in Times(b) /\ d \in Nat /\ IsFiniteSet(S) /\ S \subseteq Times(b)
        /\ t > d => t \in S
    BY DepthIs
  <1>2. /\ IsWorld(w) /\ Steps(w) = Times(b) /\ Actions(w) = History(b.horizon)
        /\ \A h \in History(b.horizon) : w.reward[h] = FocalReward(b, h)
    BY <1>1, WorldIs
  <1>3. Unit \in Int /\ t \in Int
    <2>1. Unit \in Int
      BY UnitAssumption
    <2> QED
      BY <1>1, <2>1, BucketIs
  <1>4. r \in Int /\ s \in Int
    <2>1. r \in Int
      BY <1>1, FocalRewardIs
    <2>2. s \in Int
      BY <1>1, PartsType
    <2> QED
      BY <2>1, <2>2
  <1>5. n \in Int
    <2>1. n \in Nat \ {0}
      BY <1>1, <1>2, DrawMass
    <2> QED
      BY <2>1
  <1>6. Payoff(w, t)[a] = c /\ c \in Int
    <2>1. Payoff(w, t)[a] = r * s
      BY ContrastedIs
    <2>2. r * s \in Int
      BY ONLY <1>4
    <2> QED
      BY <2>1, <2>2
  <1>7. CASE t <= d
    <2>1. \A x \in Draws(S) : Part(b, d, a, x, t) = c
      BY <1>7 DEF Part
    <2>2. f = [x \in Draws(S) |-> DrawWeight(w, S, x) * c]
      BY <2>1
    <2>3. Contrasted(b, d, t)[a] = Unit * c
      BY <1>6, <1>7 DEF Contrasted
    <2> HIDE DEF c, n, w
    <2>4. SumFunction(f) = Power(Unit, Cardinality(S)) * c /\ f \in [Draws(S) -> Int]
      <3>1. IsWorld(w) /\ IsFiniteSet(S) /\ S \subseteq Steps(w) /\ c \in Int
        BY <1>1, <1>2, <1>6
      <3> QED
        BY ONLY <2>2, <3>1, DrawConstant
    <2>5. Unit * (n * c) = n * (Unit * c)
      BY ONLY <1>3, <1>5, <1>6
    <2> QED
      BY <2>3, <2>4, <2>5 DEF n
  <1>8. CASE ~(t <= d)
    <2> DEFINE g == [z \in Bit |-> (r - FocalReward(b, Put(a, t, z))) * s]
               r0 == FocalReward(b, Put(a, t, 0))
               r1 == FocalReward(b, Put(a, t, 1))
               c0 == Chance(w, t, 0)
               c1 == Chance(w, t, 1)
    <2>1. t \in S /\ t \in Steps(w)
      BY <1>1, <1>2, <1>3, <1>8
    <2>2. \A z \in Bit : Put(a, t, z) \in History(b.horizon) /\ FocalReward(b, Put(a, t, z)) \in Int
      <3>1. \A z \in Bit : Put(a, t, z) \in History(b.horizon)
        BY <1>1, PutIs
      <3> QED
        BY <1>1, <3>1, FocalRewardIs
    <2>3. g \in [Bit -> Int]
      <3>1. \A z \in Bit : (r - FocalReward(b, Put(a, t, z))) * s \in Int
        <4>1. \A m, k, l \in Int : (m - k) * l \in Int
          OBVIOUS
        <4> HIDE DEF r, s
        <4> QED
          BY <1>4, <2>2, <4>1
      <3> QED
        BY <3>1
    <2>4. \A x \in Draws(S) : Part(b, d, a, x, t) = g[x[t]]
      <3>1. \A x \in Draws(S) : x[t] \in Bit
        BY <2>1 DEF Draws
      <3> QED
        BY <1>8, <3>1 DEF Part
    <2>5. f = [x \in Draws(S) |-> DrawWeight(w, S, x) * g[x[t]]]
      <3> HIDE DEF g
      <3> QED
        BY <2>4
    <2>6. g[0] = (r - r0) * s /\ g[1] = (r - r1) * s /\ r0 \in Int /\ r1 \in Int
      BY <2>2, BitIs
    <2>7. c0 \in Int /\ c1 \in Int /\ c0 + c1 = Unit
      <3>1. c0 \in Int /\ c1 \in Int /\ c1 = w.chance[t] /\ c0 = Unit - w.chance[t]
        BY <1>2, <2>1, ChanceFacts, BitIs
      <3> QED
        BY <1>3, <3>1
    <2>8. Averaged(w, t, t)[a] = (c0 * r0 + c1 * r1) * s
      <3>1. Averaged(w, t, t)[a] = (c0 * w.reward[Put(a, t, 0)] + c1 * w.reward[Put(a, t, 1)]) * s
        BY <1>2 DEF Averaged
      <3>2. w.reward[Put(a, t, 0)] = r0 /\ w.reward[Put(a, t, 1)] = r1
        BY <1>2, <2>2, BitIs
      <3> QED
        BY <3>1, <3>2
    <2>9. Contrasted(b, d, t)[a] = Unit * c - Averaged(w, t, t)[a]
      BY <1>6, <1>8 DEF Contrasted
    <2>10. Valued(w, S, t, g, f)
      BY <1>1, <1>2, <2>1, <2>3, <2>5 DEF Valued
    <2>11. OfOneDraw(w, t, g) = c0 * g[0] + c1 * g[1]
      BY DEF OfOneDraw
    <2> HIDE DEF c0, c1, r0, r1, r, s, g, n
    <2>12. c0 * ((r - r0) * s) + c1 * ((r - r1) * s) = (c0 + c1) * (r * s) - (c0 * r0 + c1 * r1) * s
      BY ONLY <1>4, <2>6, <2>7
    <2>13. OfOneDraw(w, t, g) = Contrasted(b, d, t)[a]
      BY <2>6, <2>7, <2>8, <2>9, <2>11, <2>12
    <2>14. Unit * SumFunction(f) = Power(Unit, Cardinality(S)) * OfOneDraw(w, t, g) /\ f \in [Draws(S) -> Int]
      BY ONLY <2>10, DrawMean
    <2> QED
      BY <2>13, <2>14
  <1> QED
    BY <1>7, <1>8

\* The whole estimate at one path, averaged over the draws of the siblings.
OverDraws(b, d, j, a) ==
  [x \in Draws(BranchedTimes(b, d)) |->
     DrawWeight(World(b), BranchedTimes(b, d), x)
       * SumFunction([t \in Terms(b, d, j) |-> Part(b, d, a, x, t)])]
Contrasts(b, d, j, a) == [t \in Terms(b, d, j) |-> Contrasted(b, d, t)[a]]

LEMMA PairedInner ==
  ASSUME NEW b, NEW d, Depth(b, d), NEW j \in Logit, NEW a \in History(b.horizon)
  PROVE  /\ Unit * SumFunction(OverDraws(b, d, j, a))
              = Power(Unit, Cardinality(BranchedTimes(b, d))) * SumFunction(Contrasts(b, d, j, a))
         /\ OverDraws(b, d, j, a) \in [Draws(BranchedTimes(b, d)) -> Int]
         /\ Contrasts(b, d, j, a) \in [Terms(b, d, j) -> Int]
         /\ SumFunction(OverDraws(b, d, j, a)) \in Int /\ SumFunction(Contrasts(b, d, j, a)) \in Int
         /\ IsFiniteSet(Draws(BranchedTimes(b, d))) /\ IsFiniteSet(Terms(b, d, j))
  <1> DEFINE w == World(b)
             S == BranchedTimes(b, d)
             X == Draws(S)
             T == Terms(b, d, j)
             n == Power(Unit, Cardinality(S))
             D == [x \in X |-> DrawWeight(w, S, x)]
             V == [t \in T |-> [x \in X |-> Part(b, d, a, x, t)]]
             F == [x \in X |-> SumFunction([t \in T |-> Part(b, d, a, x, t)])]
             part(t) == [x \in X |-> DrawWeight(w, S, x) * Part(b, d, a, x, t)]
             h == [t \in T |-> SumFunction([x \in X |-> D[x] * V[t][x]])]
             f == OverDraws(b, d, j, a)
             q == Contrasts(b, d, j, a)
             k == [t \in T |-> Unit * h[t]]
  <1>1. IsBucket(b) /\ Focal(b) /\ IsFiniteSet(S) /\ S \subseteq Times(b) /\ IsFiniteSet(T)
    BY DepthIs
  <1>2. IsWorld(w) /\ Steps(w) = Times(b)
    BY <1>1, WorldIs
  <1>3. D \in [X -> Int] /\ IsFiniteSet(X)
    BY <1>1, <1>2, DrawTotalType
  <1>4. V \in [T -> [X -> Int]]
    <2>1. \A t \in T, x \in X : Part(b, d, a, x, t) \in Int
      BY PartType
    <2> QED
      BY <2>1
  <1>5. F \in [X -> Int] /\ \A x \in X : F[x] = SumFunction([t \in T |-> V[t][x]])
    <2>1. ASSUME NEW x \in X PROVE SumFunction([t \in T |-> Part(b, d, a, x, t)]) \in Int
      <3>1. [t \in T |-> Part(b, d, a, x, t)] \in [T -> Int]
        BY PartType
      <3> QED
        BY <1>1, <3>1, SumType
    <2>2. ASSUME NEW x \in X PROVE [t \in T |-> Part(b, d, a, x, t)] = [t \in T |-> V[t][x]]
      BY <2>2
    <2>3. \A x \in X : F[x] = SumFunction([t \in T |-> V[t][x]])
      BY <2>2
    <2> QED
      BY <2>1, <2>3
  <1>6. \A t \in T : /\ Unit * SumFunction(part(t)) = n * Contrasted(b, d, t)[a]
                     /\ part(t) \in [X -> Int]
    <2> SUFFICES ASSUME NEW t \in T
                 PROVE  /\ Unit * SumFunction(part(t)) = n * Contrasted(b, d, t)[a]
                        /\ part(t) \in [X -> Int]
      OBVIOUS
    <2> DEFINE e == part(t)
    <2>1. e = [x \in Draws(S) |-> DrawWeight(World(b), S, x) * Part(b, d, a, x, t)]
      OBVIOUS
    <2>3. S = BranchedTimes(b, d) /\ t \in Terms(b, d, j)
      OBVIOUS
    <2> HIDE DEF e, S, T
    <2>2. /\ Unit * SumFunction(e) = Power(Unit, Cardinality(S)) * Contrasted(b, d, t)[a]
          /\ e \in [Draws(S) -> Int]
      BY ONLY Depth(b, d), j \in Logit, a \in History(b.horizon), <2>1, <2>3, PartMean
    <2> QED
      BY <2>2 DEF e, S
  <1>7. \A t \in T : SumFunction([x \in X |-> D[x] * V[t][x]]) = SumFunction(part(t))
    <2> SUFFICES ASSUME NEW t \in T
                 PROVE  [x \in X |-> D[x] * V[t][x]] = part(t)
      BY Zenon
    <2>1. \A x \in X : D[x] = DrawWeight(w, S, x) /\ V[t][x] = Part(b, d, a, x, t)
      OBVIOUS
    <2> QED
      BY <2>1
  <1>8. \A t \in T : h[t] = SumFunction(part(t))
    BY <1>7
  <1>9. \A t \in T : h[t] \in Int
    <2> TAKE t \in T
    <2>1. part(t) \in [X -> Int]
      BY <1>6
    <2>2. SumFunction(part(t)) \in Int
      BY ONLY <1>3, <2>1, SumType
    <2> QED
      BY <1>8, <2>2
  <1>10. h \in [T -> Int] /\ \A t \in T : h[t] = SumFunction([x \in X |-> D[x] * V[t][x]])
    <2>1. \A t \in T : h[t] = SumFunction([x \in X |-> D[x] * V[t][x]])
      OBVIOUS
    <2>2. h = [t \in T |-> h[t]]
      OBVIOUS
    <2> HIDE DEF h
    <2>3. h \in [T -> Int]
      BY ONLY <1>9, <2>2
    <2> QED
      BY <2>1, <2>3
  <1>11. f = [x \in X |-> D[x] * F[x]]
    <2>1. \A x \in X : D[x] = DrawWeight(w, S, x)
      OBVIOUS
    <2>2. \A x \in X : F[x] = SumFunction([t \in T |-> Part(b, d, a, x, t)])
      OBVIOUS
    <2>3. f = [x \in X |-> DrawWeight(w, S, x) * SumFunction([t \in T |-> Part(b, d, a, x, t)])]
      BY DEF OverDraws
    <2> HIDE DEF D, F
    <2> QED
      BY <2>1, <2>2, <2>3
  <1>12. Weighted(X, T, D, V, F, h)
    <2> HIDE DEF X, T, D, V, F, h
    <2> QED
      BY <1>3, <1>4, <1>5, <1>10 DEF Weighted
  <1>13. q \in [T -> Int] /\ \A t \in T : q[t] = Contrasted(b, d, t)[a] /\ k[t] = Unit * h[t]
    <2>1. \A t \in T : Contrasted(b, d, t)[a] \in Int
      BY ContrastedIs
    <2> QED
      BY <2>1 DEF Contrasts
  <1>14. \A t \in T : k[t] = n * q[t]
    BY <1>6, <1>8, <1>13
  <1>15. n \in Int /\ Unit \in Int
    <2>1. n \in Nat \ {0}
      BY <1>1, <1>2, DrawMass
    <2>2. Unit \in Int
      BY UnitAssumption
    <2> QED
      BY <2>1, <2>2
  <1>16. k = [t \in T |-> k[t]]
    OBVIOUS
  <1> HIDE DEF X, T, D, V, F, h, f, q, k, n, w, S
  <1>17. f \in [X -> Int] /\ SumFunction(f) = SumFunction(h)
    BY ONLY <1>1, <1>3, <1>11, <1>12, WeightedSwap
  <1>18. k \in [T -> Int]
    <2>1. \A t \in T : k[t] \in Int
      <3>1. \A m, l \in Int : m * l \in Int
        OBVIOUS
      <3> QED
        BY <1>9, <1>13, <1>15, <3>1
    <2> QED
      BY ONLY <1>16, <2>1
  <1>19. SumFunction(k) = Unit * SumFunction(h)
    BY <1>1, <1>10, <1>13, <1>15, <1>18, SumScale
  <1>20. SumFunction(k) = n * SumFunction(q)
    BY <1>1, <1>13, <1>14, <1>15, <1>18, SumScale
  <1>21. SumFunction(f) \in Int
    BY <1>3, <1>17, SumType
  <1>22. SumFunction(q) \in Int
    BY <1>1, <1>13, SumType
  <1>23. Unit * SumFunction(f) = n * SumFunction(q)
    BY <1>17, <1>19, <1>20
  <1> QED
    BY <1>1, <1>3, <1>13, <1>17, <1>21, <1>22, <1>23 DEF f, q, n, X, S, T

\* The contrasts are, in expectation, the gradient: the noise steps left out add 0.
LEMMA ContrastsMean ==
  ASSUME NEW b, NEW d, Depth(b, d), NEW j \in Logit,
         NEW Q, Q = [a \in History(b.horizon) |-> SumFunction(Contrasts(b, d, j, a))]
  PROVE  /\ Expect(World(b), Q) = Unit * SharedGradient(b)[j]
         /\ Q \in [History(b.horizon) -> Int]
         /\ SharedGradient(b)[j] \in Int
  <1> DEFINE w == World(b)
             A == History(b.horizon)
             T == Terms(b, d, j)
             S == Shares(b, j)
             V == [t \in T |-> Contrasted(b, d, t)]
             h == [t \in T |-> Expect(w, V[t])]
             g == [t \in S |-> Gradient(w)[t]]
             k == [t \in T |-> Gradient(w)[t]]
  <1>1. /\ IsBucket(b) /\ Focal(b) /\ IsFiniteSet(T) /\ T \subseteq S /\ S \subseteq Times(b)
        /\ \A t \in S : t \notin T => t \in b.noise
    BY DepthIs DEF Shares
  <1>2. IsWorld(w) /\ Actions(w) = A
    BY <1>1, WorldIs
  <1>3. IsFiniteSet(S) /\ Unit \in Int
    <2>1. IsFiniteSet(S)
      BY <1>1, SharesIs
    <2> QED
      BY <2>1, UnitAssumption
  <1>4. V \in [T -> [A -> Int]]
    BY ContrastedIs
  <1>5. Q \in [A -> Int] /\ \A a \in A : Q[a] = SumFunction([t \in T |-> V[t][a]])
    <2>1. ASSUME NEW a \in A PROVE SumFunction(Contrasts(b, d, j, a)) \in Int
      BY PairedInner
    <2>2. ASSUME NEW a \in A PROVE Contrasts(b, d, j, a) = [t \in T |-> V[t][a]]
      BY DEF Contrasts
    <2> QED
      BY <2>1, <2>2
  <1>6. g \in [S -> Int] /\ SharedGradient(b)[j] = SumFunction(g)
    <2>1. g = [t \in Shares(b, j) |-> Gradient(World(b))[t]]
      OBVIOUS
    <2> HIDE DEF g
    <2>2. g \in [Shares(b, j) -> Int] /\ SharedGradient(b)[j] = SumFunction(g)
      BY <1>1, <2>1, SharedByTime
    <2> QED
      BY <2>2
  <1>7. \A t \in S : t \notin T => g[t] = 0
    <2> SUFFICES ASSUME NEW t \in S, t \notin T PROVE Gradient(w)[t] = 0
      OBVIOUS
    <2>1. t \in Times(b) /\ t \in b.noise
      BY <1>1
    <2> QED
      BY <1>1, <2>1, FocalGradient
  <1>8. k \in [T -> Int] /\ \A t \in T : k[t] = g[t]
    BY <1>1, <1>6
  <1>9. h = [t \in T |-> Expect(w, V[t])]
    OBVIOUS
  <1>10. \A t \in T : h[t] = Unit * k[t]
    BY ContrastedIs
  <1> HIDE DEF A, T, S, V, h, g, k, w
  <1>11. h \in [T -> Int] /\ Expect(w, Q) = SumFunction(h)
    <2>1. Gathers(w, T, V, Q)
      BY <1>2, <1>4, <1>5 DEF Gathers
    <2> QED
      BY ONLY <1>1, <1>2, <1>9, <2>1, ExpectSum
  <1>12. SumFunction(h) = Unit * SumFunction(k)
    BY <1>1, <1>3, <1>8, <1>10, <1>11, SumScale
  <1>13. SumFunction(g) = SumFunction(k) /\ SumFunction(k) \in Int
    <2>1. /\ IsFiniteSet(S) /\ g \in [S -> Int] /\ T \subseteq S /\ k \in [T -> Int]
          /\ \A t \in T : k[t] = g[t]
          /\ \A t \in S : t \notin T => g[t] = 0
      BY <1>1, <1>3, <1>6, <1>7, <1>8
    <2>2. IsFiniteSet(T) /\ SumFunction(g) = SumFunction(k) /\ SumFunction(k) \in Int
      BY ONLY <2>1, SumPadded
    <2> QED
      BY <2>2
  <1> QED
    BY <1>5, <1>6, <1>11, <1>12, <1>13 DEF A, w

\* The estimate's sum over rows and draws.
LEMMA PairedTotal ==
  ASSUME NEW b, NEW d, Depth(b, d), NEW j \in Logit
  PROVE  /\ FirstMoment(PairedCycle(b, d))[j]
              = Power(Unit, Cardinality(BranchedTimes(b, d))) * SharedGradient(b)[j]
         /\ Power(Unit, Cardinality(BranchedTimes(b, d))) \in Nat \ {0}
         /\ SharedGradient(b)[j] \in Int
  <1> DEFINE w == World(b)
             S == BranchedTimes(b, d)
             X == Draws(S)
             E == Enumerated(b)
             A == History(b.horizon)
             W == Walks(b, b.horizon)
             n == Power(Unit, Cardinality(S))
             out == PairedCycle(b, d)
             f == [i \in E \X X |-> out[i].weight * out[i].vector[j]]
             G == [a \in A |-> SumFunction(OverDraws(b, d, j, a))]
             Q == [a \in A |-> SumFunction(Contrasts(b, d, j, a))]
             F == [p \in W |-> G[p.a]]
             row == [r \in E |-> [x \in X |-> f[<<r, x>>]]]
             h == [r \in E |-> r.weight * F[r.path]]
  <1>1. IsBucket(b) /\ Focal(b) /\ IsFiniteSet(S) /\ S \subseteq Times(b)
    BY DepthIs
  <1>2. IsWorld(w) /\ Actions(w) = A /\ Steps(w) = Times(b)
    BY <1>1, WorldIs
  <1>3. IsFiniteSet(E) /\ IsFiniteSet(X)
    <2>1. IsFiniteSet(E)
      BY <1>1, EnumeratedFinite
    <2>2. IsFiniteSet(X)
      BY <1>1, DrawsFinite
    <2> QED
      BY <2>1, <2>2
  <1>4. FirstMoment(out)[j] = SumFunction(f)
    <2>1. DOMAIN out = E \X X
      BY DEF PairedCycle, Draws
    <2> HIDE DEF out, E, X
    <2> QED
      BY <2>1 DEF FirstMoment
  <1>5. n \in Nat \ {0} /\ n \in Int /\ Unit \in Nat \ {0} /\ Unit \in Int
    <2>1. n \in Nat \ {0}
      BY <1>1, <1>2, DrawMass
    <2> QED
      BY <2>1, UnitAssumption
  <1>6. ASSUME NEW a \in A
        PROVE  /\ OverDraws(b, d, j, a) \in [X -> Int] /\ G[a] \in Int /\ Q[a] \in Int
               /\ Unit * G[a] = n * Q[a]
    BY PairedInner
  <1>7. \A p \in W : p.a \in A
    BY <1>1, BucketIs, WalkFacts
  <1>8. ASSUME NEW r \in E, NEW x \in X
        PROVE f[<<r, x>>] = r.weight * OverDraws(b, d, j, r.path.a)[x]
    <2> DEFINE u == DrawWeight(w, S, x)
               v == SumFunction([t \in Terms(b, d, j) |-> Part(b, d, r.path.a, x, t)])
    <2>1. /\ out[<<r, x>>].weight = r.weight * u /\ out[<<r, x>>].vector[j] = v
          /\ r.path.a \in A /\ r.weight \in Int
      BY PairedOutcome
    <2>2. u \in Int
      BY <1>1, <1>2, DrawWeightType
    <2>3. v \in Int
      <3>1. [t \in Terms(b, d, j) |-> Part(b, d, r.path.a, x, t)] \in [Terms(b, d, j) -> Int]
        BY <2>1, PartType
      <3>2. IsFiniteSet(Terms(b, d, j))
        BY DepthIs
      <3> QED
        BY <3>1, <3>2, SumType
    <2>4. OverDraws(b, d, j, r.path.a)[x] = u * v
      BY DEF OverDraws
    <2>5. f[<<r, x>>] = out[<<r, x>>].weight * out[<<r, x>>].vector[j]
      <3> HIDE DEF out, E, X
      <3> QED
        OBVIOUS
    <2> HIDE DEF u, v, f, out
    <2>6. (r.weight * u) * v = r.weight * (u * v)
      <3> DEFINE m == r.weight
      <3>1. m \in Int
        BY <2>1
      <3> HIDE DEF m
      <3>2. (m * u) * v = m * (u * v)
        BY ONLY <2>2, <2>3, <3>1
      <3> QED
        BY <3>2 DEF m
    <2> QED
      BY <2>1, <2>4, <2>5, <2>6
  <1>9. F \in [W -> Int] /\ \A p \in W : F[p] = G[p.a]
    BY <1>6, <1>7
  <1>10. \A r \in E : r.path \in W /\ r.path.a \in A /\ r.weight \in Int
    BY <1>1, <1>7, RowFacts
  <1>11. row \in [E -> [X -> Int]] /\ f \in [E \X X -> Int] /\ \A r \in E, x \in X : row[r][x] = f[<<r, x>>]
    <2>1. \A r \in E, x \in X : f[<<r, x>>] \in Int
      <3> TAKE r \in E, x \in X
      <3>1. OverDraws(b, d, j, r.path.a)[x] \in Int /\ r.weight \in Int
        BY <1>6, <1>10
      <3>2. \A k, l \in Int : k * l \in Int
        OBVIOUS
      <3> QED
        BY <1>8, <3>1, <3>2
    <2>2. \A i \in E \X X : i = <<i[1], i[2]>> /\ i[1] \in E /\ i[2] \in X
      OBVIOUS
    <2>3. f = [i \in E \X X |-> f[i]] /\ row = [r \in E |-> [x \in X |-> f[<<r, x>>]]]
      OBVIOUS
    <2> HIDE DEF f, row, E, X
    <2>4. \A i \in E \X X : f[i] \in Int
      BY ONLY <2>1, <2>2
    <2>5. f \in [E \X X -> Int]
      BY ONLY <2>3, <2>4
    <2> QED
      BY ONLY <2>1, <2>3, <2>5
  <1>12. h = [r \in E |-> h[r]] /\ \A r \in E : h[r] = r.weight * F[r.path]
    OBVIOUS
  <1>13. G \in [A -> Int] /\ \A a \in A : G[a] = F[Trace(b, a)]
    <2>1. \A a \in A : Trace(b, a) \in W /\ Trace(b, a).a = a
      BY <1>1, TraceFacts
    <2> QED
      BY <1>6, <2>1
  <1>14. Q \in [A -> Int] /\ Q = [a \in A |-> SumFunction(Contrasts(b, d, j, a))]
    BY <1>6
  <1>15. \A r \in E : F[r.path] = SumFunction(OverDraws(b, d, j, r.path.a))
    BY <1>10
  <1> HIDE DEF f, out, row, h, F, G, Q, E, X, W, A, n, w
  <1>16. h \in [E -> Int] /\ SumFunction(h) = WalkSum(b, b.horizon, F)
    <2>1. /\ IsBucket(b) /\ F \in [Walks(b, b.horizon) -> Int] /\ h = [r \in Enumerated(b) |-> h[r]]
          /\ \A r \in Enumerated(b) : h[r] = r.weight * F[r.path]
      BY <1>1, <1>9, <1>12 DEF E, W
    <2>2. h \in [Enumerated(b) -> Int] /\ SumFunction(h) = WalkSum(b, b.horizon, F)
      BY ONLY <2>1, EnumSum
    <2> QED
      BY <2>2 DEF E
  <1>17. \A r \in E : h[r] = SumFunction(row[r])
    <2> SUFFICES ASSUME NEW r \in E PROVE h[r] = SumFunction(row[r])
      OBVIOUS
    <2> DEFINE v == OverDraws(b, d, j, r.path.a)
               m == r.weight
               o == row[r]
    <2>1. v \in [X -> Int] /\ m \in Int /\ o \in [X -> Int] /\ h[r] = m * SumFunction(v)
      BY <1>6, <1>10, <1>11, <1>12, <1>15
    <2>2. \A x \in X : o[x] = m * v[x]
      BY <1>8, <1>11
    <2> HIDE DEF v, m, o
    <2>3. SumFunction(o) = m * SumFunction(v)
      BY ONLY <1>3, <2>1, <2>2, SumScale
    <2> QED
      BY <2>1, <2>3 DEF o
  <1>18. SumFunction(f) = SumFunction(h)
    <2>1. Crossed(E, X, f, row, h)
      BY <1>11, <1>16, <1>17 DEF Crossed
    <2> QED
      BY ONLY <1>3, <2>1, SumCross
  <1>19. WalkSum(b, b.horizon, F) = Expect(w, G)
    <2>1. /\ IsBucket(b) /\ Focal(b) /\ F \in [Walks(b, b.horizon) -> Int]
          /\ G \in [History(b.horizon) -> Int]
          /\ \A a \in History(b.horizon) : G[a] = F[Trace(b, a)]
      BY <1>1, <1>9, <1>13 DEF A, W
    <2>2. WalkSum(b, b.horizon, F) = Expect(World(b), G)
      BY ONLY <2>1, FocalSum
    <2> QED
      BY <2>2 DEF w
  <1>20. Expect(w, Q) = Unit * SharedGradient(b)[j] /\ SharedGradient(b)[j] \in Int
    <2>1. Q = [a \in History(b.horizon) |-> SumFunction(Contrasts(b, d, j, a))]
      BY <1>14 DEF A
    <2>2. /\ Expect(World(b), Q) = Unit * SharedGradient(b)[j]
          /\ Q \in [History(b.horizon) -> Int]
          /\ SharedGradient(b)[j] \in Int
      BY ONLY Depth(b, d), j \in Logit, <2>1, ContrastsMean
    <2> QED
      BY <2>2 DEF w
  <1> DEFINE K == [a \in A |-> Unit * G[a]]
  <1>21. K \in [A -> Int] /\ \A a \in A : K[a] = Unit * G[a] /\ K[a] = n * Q[a]
    <2>1. \A a \in A : G[a] \in Int /\ Unit * G[a] = n * Q[a]
      BY <1>6
    <2>2. \A a \in A : Unit * G[a] \in Int
      <3>1. \A k, l \in Int : k * l \in Int
        OBVIOUS
      <3> QED
        BY <1>5, <2>1, <3>1
    <2> QED
      BY <2>1, <2>2
  <1> HIDE DEF K
  <1>22. Expect(w, K) = Unit * Expect(w, G)
    <2>1. /\ IsWorld(w) /\ G \in [Actions(w) -> Int] /\ Unit \in Int /\ K \in [Actions(w) -> Int]
          /\ \A a \in Actions(w) : K[a] = Unit * G[a]
      BY <1>2, <1>5, <1>13, <1>21
    <2> QED
      BY ONLY <2>1, ExpectScaled
  <1>23. Expect(w, K) = n * Expect(w, Q)
    <2>1. /\ IsWorld(w) /\ Q \in [Actions(w) -> Int] /\ n \in Int /\ K \in [Actions(w) -> Int]
          /\ \A a \in Actions(w) : K[a] = n * Q[a]
      BY <1>2, <1>5, <1>14, <1>21
    <2> QED
      BY ONLY <2>1, ExpectScaled
  <1> DEFINE z == SharedGradient(b)[j]
             e == Expect(w, G)
  <1>24. e \in Int /\ z \in Int
    <2>1. G \in [Actions(w) -> Int]
      BY <1>2, <1>13
    <2>2. e \in Int
      BY ONLY <1>2, <2>1, ExpectType
    <2> QED
      BY <1>20, <2>2
  <1>25. Unit * e = n * (Unit * z)
    BY <1>20, <1>22, <1>23
  <1> HIDE DEF z, e
  <1>26. e = n * z
    <2>1. Unit * e = Unit * (n * z)
      <3>1. n * (Unit * z) = Unit * (n * z)
        BY ONLY <1>5, <1>24
      <3> QED
        BY <1>25, <3>1
    <2> DEFINE y == n * z
    <2>2. y \in Int
      BY ONLY <1>5, <1>24
    <2> HIDE DEF y
    <2>3. Unit * e = Unit * y
      BY <2>1 DEF y
    <2>4. (Unit * e) \div Unit = e /\ (Unit * y) \div Unit = y
      BY ONLY <1>5, <1>24, <2>2, DivExact
    <2> QED
      BY <2>3, <2>4 DEF y
  <1> QED
    BY <1>4, <1>5, <1>16, <1>18, <1>19, <1>24, <1>26 DEF z, e, n, out, S

\* Replaying every decision against its sibling leaves the mean where it is.
LEMMA PairedFirst ==
  ASSUME NEW b, NEW d, Depth(b, d)
  PROVE  PairedMoments(b, d).mean = SharedGradient(b)
  <1> DEFINE n == Power(Unit, Cardinality(BranchedTimes(b, d)))
             out == PairedCycle(b, d)
             g == SharedGradient(b)
  <1>1. PairedMoments(b, d).mean = [j \in Logit |-> FirstMoment(out)[j] \div n]
    <2> HIDE DEF out
    <2> QED
      BY DEF PairedMoments, out
  <1>2. \A j \in Logit : FirstMoment(out)[j] = n * g[j] /\ n \in Nat \ {0} /\ g[j] \in Int
    BY PairedTotal
  <1>3. g \in [Logit -> Int]
    BY SharedGradientIs DEF Depth
  <1> HIDE DEF n, out, g
  <1>4. \A j \in Logit : FirstMoment(out)[j] \div n = g[j]
    <2> TAKE j \in Logit
    <2>1. (n * g[j]) \div n = g[j]
      BY ONLY <1>2, j \in Logit, DivExact
    <2> QED
      BY <1>2, <2>1
  <1>5. PairedMoments(b, d).mean = [j \in Logit |-> g[j]]
    BY <1>1, <1>4
  <1> QED
    BY <1>3, <1>5 DEF g

-----------------------------------------------------------------------------
(* Two buckets together *)

LEMMA ProblemIs ==
  ASSUME NEW bs \in SharedProblems
  PROVE  /\ Len(bs) \in Nat /\ DOMAIN bs = 1..Len(bs)
         /\ \A i \in 1..Len(bs) : IsBucket(bs[i])
         /\ \A i, k \in 1..Len(bs) : Focal(bs[i]) <=> Focal(bs[k])
  <1>1. bs \in Seq(Range(bs)) /\ \A b, c \in Range(bs) : IsBucket(b) /\ (Focal(b) <=> Focal(c))
    BY BranchAssumption
  <1>2. Len(bs) \in Nat /\ DOMAIN bs = 1..Len(bs)
    BY <1>1
  <1>3. \A i \in 1..Len(bs) : bs[i] \in Range(bs)
    BY <1>1
  <1> QED
    BY <1>1, <1>2, <1>3

LEMMA MaxOfTwo ==
  ASSUME NEW m \in Nat, NEW n \in Nat
  PROVE  Max({m, n}) \in {m, n} /\ Max({m, n}) >= m /\ Max({m, n}) >= n
  <1>1. \E x \in {m, n} : \A y \in {m, n} : x >= y
    <2>1. CASE m >= n
      BY <2>1
    <2>2. CASE n >= m
      BY <2>2
    <2> QED
      BY <2>1, <2>2
  <1> QED
    BY <1>1 DEF Max

LEMMA LiftFacts ==
  ASSUME NEW bs \in SharedProblems, Len(bs) = 2
  PROVE  /\ Lift(bs, 1) * PathScale(bs[1], bs[1].horizon) = Lift(bs, 2) * PathScale(bs[2], bs[2].horizon)
         /\ Lift(bs, 1) \in Int /\ Lift(bs, 2) \in Int
  <1> DEFINE b == bs[1]
             c == bs[2]
             m == bs[1].horizon
             n == bs[2].horizon
             H == Max({m, n})
  <1>1. IsBucket(b) /\ IsBucket(c) /\ (Focal(b) <=> Focal(c)) /\ DOMAIN bs = {1, 2}
    <2>1. 1 \in 1..Len(bs) /\ 2 \in 1..Len(bs) /\ 1..Len(bs) = {1, 2}
      OBVIOUS
    <2> QED
      BY <2>1, ProblemIs
  <1>2. m \in Nat /\ n \in Nat
    BY <1>1, BucketIs
  <1>3. {bs[k].horizon : k \in DOMAIN bs} = {m, n}
    BY <1>1
  <1>4. Lift(bs, 1) = PathScale(b, H - m) /\ Lift(bs, 2) = PathScale(c, H - n)
    BY <1>3 DEF Lift
  <1> HIDE DEF H, b, c, m, n
  <1>5. H - m \in Nat /\ H - n \in Nat /\ (H - m) + m = H /\ (H - n) + n = H
    <2>1. H \in {m, n} /\ H >= m /\ H >= n
      BY <1>2, MaxOfTwo DEF H
    <2> QED
      BY <1>2, <2>1
  <1>6. PathScale(b, H) = PathScale(b, H - m) * PathScale(b, m)
    BY <1>1, <1>2, <1>5, ScaleAdd
  <1>7. PathScale(c, H) = PathScale(c, H - n) * PathScale(c, n)
    BY <1>1, <1>2, <1>5, ScaleAdd
  <1>8. PathScale(b, H) = PathScale(c, H)
    <2>1. MoveUnit(b) = MoveUnit(c)
      BY <1>1 DEF MoveUnit
    <2> QED
      BY <2>1 DEF PathScale
  <1>9. PathScale(b, H - m) \in Int /\ PathScale(c, H - n) \in Int
    <2>1. Unit * MoveUnit(b) \in Int /\ Unit * MoveUnit(c) \in Int
      BY <1>1, ScaleFacts
    <2> QED
      BY <1>5, <2>1, PowerNext DEF PathScale
  <1> QED
    BY <1>4, <1>6, <1>7, <1>8, <1>9 DEF b, c, m, n

LEMMA SumPair ==
  ASSUME NEW p, NEW q, p # q, NEW D, D = {p, q}, NEW f, f \in [D -> Int]
  PROVE  SumFunction(f) = f[p] + f[q]
  <1> DEFINE E == D \ {p}
             g == [x \in E |-> f[x]]
  <1>1. IsFiniteSet(D) /\ p \in D /\ E = {q}
    <2>1. IsFiniteSet({p}) /\ IsFiniteSet({q})
      BY FS_Singleton
    <2>2. IsFiniteSet({p} \cup {q})
      BY ONLY <2>1, FS_Union
    <2>3. D = {p} \cup {q}
      OBVIOUS
    <2> QED
      BY <2>2, <2>3
  <1>2. g \in [E -> Int] /\ (\A x \in E : g[x] = f[x]) /\ q \in E /\ f[p] \in Int /\ f[q] \in Int
    BY <1>1
  <1>3. E = D \ {p} /\ IsFiniteSet(E)
    <2>1. IsFiniteSet({q})
      BY FS_Singleton
    <2> QED
      BY <1>1, <2>1
  <1> HIDE DEF E, g
  <1>4. SumFunction(f) = f[p] + SumFunction(g)
    BY <1>1, <1>2, <1>3, SumTake
  <1>5. SumFunction(g) = g[q]
    BY <1>1, <1>2, <1>3, SumSingle
  <1> QED
    BY <1>2, <1>4, <1>5

\* The parts [mean, second] of two buckets, put together.
TwoMeans(ms) == ms[1].mean \in [Logit -> Int] /\ ms[2].mean \in [Logit -> Int]
TwoParts(ms) ==
  /\ TwoMeans(ms)
  /\ ms[1].second \in [Logit \X Logit -> Int] /\ ms[2].second \in [Logit \X Logit -> Int]

LEMMA CombineMean ==
  ASSUME NEW bs \in SharedProblems, Len(bs) = 2, NEW ms, TwoMeans(ms), NEW j \in Logit
  PROVE  Combine(bs, ms).mean[j] = Lift(bs, 1) * ms[1].mean[j] + Lift(bs, 2) * ms[2].mean[j]
  <1> DEFINE mean == [i \in DOMAIN bs |-> Times3(Lift(bs, i), ms[i].mean)]
             f == [i \in DOMAIN bs |-> mean[i][j]]
  <1>1. Combine(bs, ms).mean = [k \in Logit |-> SumFunction([i \in DOMAIN bs |-> mean[i][k]])]
    BY DEF Combine
  <1>2. Combine(bs, ms).mean[j] = SumFunction(f)
    <2> HIDE DEF mean
    <2> QED
      BY <1>1
  <1>3. DOMAIN bs = {1, 2}
    <2>1. 1..2 = {1, 2}
      OBVIOUS
    <2> QED
      BY <2>1, ProblemIs
  <1>4. \A i \in {1, 2} : /\ ms[i].mean[j] \in Int /\ Lift(bs, i) \in Int
                          /\ mean[i][j] = Lift(bs, i) * ms[i].mean[j]
    <2>1. \A i \in {1, 2} : ms[i].mean[j] \in Int /\ DOMAIN ms[i].mean = Logit
      BY DEF TwoMeans
    <2>2. \A i \in {1, 2} : Lift(bs, i) \in Int
      BY LiftFacts
    <2>3. \A i \in {1, 2} : mean[i][j] = Lift(bs, i) * ms[i].mean[j]
      BY <1>3, <2>1 DEF Times3
    <2> QED
      BY <2>1, <2>2, <2>3
  <1>5. f \in [{1, 2} -> Int]
    <2>1. \A m, n \in Int : m * n \in Int
      OBVIOUS
    <2>2. \A i \in {1, 2} : mean[i][j] \in Int
      BY <1>4, <2>1
    <2> HIDE DEF mean
    <2> QED
      BY <1>3, <2>2
  <1>6. f[1] = mean[1][j] /\ f[2] = mean[2][j]
    BY <1>3
  <1> HIDE DEF f, mean
  <1>7. SumFunction(f) = f[1] + f[2]
    <2>1. 1 # 2 /\ {1, 2} = {1, 2}
      OBVIOUS
    <2> QED
      BY ONLY <1>5, <2>1, SumPair
  <1> QED
    BY <1>2, <1>4, <1>6, <1>7

LEMMA CombineSecond ==
  ASSUME NEW bs \in SharedProblems, Len(bs) = 2, NEW ms, TwoParts(ms), NEW j \in Logit, NEW k \in Logit
  PROVE  /\ Combine(bs, ms).second[<<j, k>>]
              = ((Lift(bs, 1) * Lift(bs, 1)) * ms[1].second[<<j, k>>]
                   + (Lift(bs, 2) * Lift(bs, 2)) * ms[2].second[<<j, k>>])
                + Widest * ((Lift(bs, 1) * ms[1].mean[j]) * (Lift(bs, 2) * ms[2].mean[k])
                            + (Lift(bs, 2) * ms[2].mean[j]) * (Lift(bs, 1) * ms[1].mean[k]))
         /\ DOMAIN Combine(bs, ms).second = Logit \X Logit
  <1> DEFINE jk == <<j, k>>
             mean == [i \in DOMAIN bs |-> Times3(Lift(bs, i), ms[i].mean)]
             own == [i \in DOMAIN bs |-> Times3(Lift(bs, i) * Lift(bs, i), ms[i].second)]
             C == {x \in (DOMAIN bs) \X (DOMAIN bs) : x[1] # x[2]}
             cross == [ik \in C |-> Outer(mean[ik[1]], mean[ik[2]])]
             f == [i \in DOMAIN bs |-> own[i][jk]]
             g == [ik \in C |-> cross[ik][jk]]
             p == <<1, 2>>
             q == <<2, 1>>
  <1>1. Combine(bs, ms).second
          = [x \in Logit \X Logit |->
               SumFunction([i \in DOMAIN bs |-> own[i][x]])
               + Widest * SumFunction([ik \in DOMAIN cross |-> cross[ik][x]])]
    BY DEF Combine
  <1>2. Combine(bs, ms).second[jk] = SumFunction(f) + Widest * SumFunction(g)
    <2>1. DOMAIN cross = C
      OBVIOUS
    <2>2. jk \in Logit \X Logit
      OBVIOUS
    <2> HIDE DEF own, cross, C, jk
    <2> QED
      BY <1>1, <2>1, <2>2
  <1>3. DOMAIN bs = {1, 2}
    <2>1. 1..2 = {1, 2}
      OBVIOUS
    <2> QED
      BY <2>1, ProblemIs
  <1>4. C = {p, q} /\ p # q
    BY <1>3
  <1>5. \A i \in {1, 2} : /\ DOMAIN ms[i].mean = Logit /\ DOMAIN ms[i].second = Logit \X Logit
                          /\ \A l \in Logit : ms[i].mean[l] \in Int
                          /\ ms[i].second[jk] \in Int /\ Lift(bs, i) \in Int
    <2>1. jk \in Logit \X Logit
      OBVIOUS
    <2>2. \A i \in {1, 2} : Lift(bs, i) \in Int
      BY LiftFacts
    <2> HIDE DEF jk
    <2> QED
      BY <2>1, <2>2 DEF TwoParts, TwoMeans
  <1>6. \A i \in {1, 2} : f[i] = (Lift(bs, i) * Lift(bs, i)) * ms[i].second[jk]
    <2>1. jk \in Logit \X Logit
      OBVIOUS
    <2> HIDE DEF jk
    <2> QED
      BY <1>3, <1>5, <2>1 DEF Times3
  <1>7. \A i \in {1, 2}, l \in Logit : mean[i][l] = Lift(bs, i) * ms[i].mean[l]
    BY <1>3, <1>5 DEF Times3
  <1>8. \A i \in {1, 2} : DOMAIN mean[i] = Logit
    BY <1>3, <1>5 DEF Times3
  <1>9. g[p] = mean[1][j] * mean[2][k] /\ g[q] = mean[2][j] * mean[1][k]
    <2>1. g[p] = Outer(mean[1], mean[2])[jk] /\ g[q] = Outer(mean[2], mean[1])[jk]
      BY <1>4
    <2> HIDE DEF g, mean
    <2> QED
      BY <2>1 DEF Outer
  <1>10. \A m, n \in Int : m * n \in Int
    OBVIOUS
  <1>11. f \in [{1, 2} -> Int]
    <2>1. \A i \in {1, 2} : (Lift(bs, i) * Lift(bs, i)) * ms[i].second[jk] \in Int
      <3> HIDE DEF jk
      <3> QED
        BY <1>5, <1>10
    <2>2. f = [i \in {1, 2} |-> f[i]]
      BY <1>3
    <2> HIDE DEF f
    <2> QED
      BY <1>6, <2>1, <2>2
  <1>12. g \in [C -> Int]
    <2>1. g = [x \in C |-> g[x]]
      OBVIOUS
    <2>2. \A i \in {1, 2}, l \in Logit : mean[i][l] \in Int
      BY <1>5, <1>7, <1>10
    <2> HIDE DEF g, mean
    <2>3. g[p] \in Int /\ g[q] \in Int
      BY <1>9, <1>10, <2>2
    <2> HIDE DEF C, p, q
    <2>4. \A x \in C : g[x] \in Int
      BY <1>4, <2>3
    <2> QED
      BY ONLY <2>1, <2>4
  <1>13. DOMAIN Combine(bs, ms).second = Logit \X Logit
    <2> HIDE DEF own, cross
    <2> QED
      BY <1>1
  <1> HIDE DEF C, p, q, f, g, mean
  <1>14. SumFunction(f) = f[1] + f[2]
    <2>1. 1 # 2 /\ {1, 2} = {1, 2}
      OBVIOUS
    <2> QED
      BY ONLY <1>11, <2>1, SumPair
  <1>15. SumFunction(g) = g[p] + g[q]
    BY ONLY <1>4, <1>12, SumPair
  <1> HIDE DEF jk
  <1>16. /\ f[1] = (Lift(bs, 1) * Lift(bs, 1)) * ms[1].second[jk]
         /\ f[2] = (Lift(bs, 2) * Lift(bs, 2)) * ms[2].second[jk]
    BY <1>6
  <1>17. /\ g[p] = (Lift(bs, 1) * ms[1].mean[j]) * (Lift(bs, 2) * ms[2].mean[k])
         /\ g[q] = (Lift(bs, 2) * ms[2].mean[j]) * (Lift(bs, 1) * ms[1].mean[k])
    BY <1>7, <1>9
  <1> QED
    BY ONLY <1>2, <1>13, <1>14, <1>15, <1>16, <1>17 DEF jk

LEMMA DenseParts ==
  ASSUME NEW b, IsBucket(b)
  PROVE  /\ DenseMoments(b).mean = SharedGradient(b) /\ DenseMoments(b).mean \in [Logit -> Int]
         /\ DenseMoments(b).second \in [Logit \X Logit -> Int]
  <1> DEFINE m == DenseMoments(b).second
             out == DenseCycle(b)
             c == Widest * PathScale(b, b.horizon)
             v == SecondMoment(out)
  <1>1. DenseMoments(b).mean = FirstMoment(out) /\ m = Times3(c, v)
    <2> HIDE DEF out, c
    <2> QED
      BY DEF DenseMoments, out, c
  <1>2. DenseMoments(b).mean = SharedGradient(b)
    BY <1>1, DenseFirst
  <1>3. SharedGradient(b) \in [Logit -> Int]
    BY SharedGradientIs
  <1>4. v \in [Logit \X Logit -> Int]
    BY DenseSecond
  <1>5. c \in Int
    <2>1. Widest \in Int
      BY BranchAssumption
    <2>2. PathScale(b, b.horizon) \in Int
      <3>1. b.horizon \in Nat
        BY BucketIs
      <3> QED
        BY <3>1, ScaleFacts
    <2> QED
      BY <2>1, <2>2
  <1> HIDE DEF m, v, c, out
  <1>6. m = [x \in Logit \X Logit |-> c * v[x]]
    <2>1. DOMAIN v = Logit \X Logit
      BY <1>4
    <2> QED
      BY <1>1, <2>1 DEF Times3
  <1>7. \A x \in Logit \X Logit : c * v[x] \in Int
    <2>1. \A k, l \in Int : k * l \in Int
      OBVIOUS
    <2> QED
      BY <1>4, <1>5, <2>1
  <1>8. m \in [Logit \X Logit -> Int]
    BY ONLY <1>6, <1>7
  <1> QED
    BY <1>2, <1>3, <1>8 DEF m

\* The dense moments of two buckets are those of the two drawn jointly.
LEMMA JointExact ==
  ASSUME NEW bs \in SharedProblems, Len(bs) = 2, NEW ms,
         ms[1] = DenseMoments(bs[1]), ms[2] = DenseMoments(bs[2])
  PROVE  Combine(bs, ms).second
           = Times3(Widest * Lift(bs, 1) * Lift(bs, 2),
                    SecondMoment(JointCycle(DenseCycle(bs[1]), DenseCycle(bs[2]))))
  <1> DEFINE b == bs[1]
             c == bs[2]
             m == SecondMoment(JointCycle(DenseCycle(b), DenseCycle(c)))
             z == Combine(bs, ms).second
             n == Widest * Lift(bs, 1) * Lift(bs, 2)
  <1>1. IsBucket(b) /\ IsBucket(c)
    <2>1. 1 \in 1..Len(bs) /\ 2 \in 1..Len(bs)
      OBVIOUS
    <2> QED
      BY <2>1, ProblemIs
  <1>2. TwoParts(ms)
    BY <1>1, DenseParts DEF TwoParts, TwoMeans
  <1>3. DOMAIN m = Logit \X Logit
    <2>1. 1 \in Logit
      BY DEF Logit
    <2> QED
      BY <1>1, <2>1, JointSecond
  <1>4. ASSUME NEW j \in Logit, NEW k \in Logit
        PROVE  z[<<j, k>>] = n * m[<<j, k>>]
    <2> DEFINE W == Widest
               A == Lift(bs, 1)
               B == Lift(bs, 2)
               P == PathScale(b, b.horizon)
               Q == PathScale(c, c.horizon)
               X == WalkSum(b, b.horizon, Square(b, j, k))
               Y == WalkSum(c, c.horizon, Square(c, j, k))
               g == SharedGradient(b)
               f == SharedGradient(c)
               gj == g[j]
               gk == g[k]
               fj == f[j]
               fk == f[k]
    <2>1. m[<<j, k>>] = Q * X + P * Y + (gj * fk + gk * fj)
      <3>1. m[<<j, k>>] = Q * X + P * Y + (g[j] * f[k] + g[k] * f[j])
        BY <1>1, JointSecond
      <3> QED
        BY <3>1
    <2>2. z[<<j, k>>] = ((A * A) * ms[1].second[<<j, k>>] + (B * B) * ms[2].second[<<j, k>>])
                         + W * ((A * ms[1].mean[j]) * (B * ms[2].mean[k])
                                + (B * ms[2].mean[j]) * (A * ms[1].mean[k]))
      BY <1>2, CombineSecond
    <2>3. ms[1].second[<<j, k>>] = W * (P * X)
      BY <1>1, DenseWhole DEF Whole
    <2>4. ms[2].second[<<j, k>>] = W * (Q * Y)
      BY <1>1, DenseWhole DEF Whole
    <2>5. ms[1].mean = g /\ ms[2].mean = f
      BY <1>1, DenseParts
    <2>6. A * P = B * Q /\ A \in Int /\ B \in Int
      BY LiftFacts
    <2>7. W \in Int /\ P \in Int /\ Q \in Int
      <3>1. W \in Int
        BY BranchAssumption
      <3>2. P \in Int
        <4>1. b.horizon \in Nat
          BY <1>1, BucketIs
        <4> QED
          BY <1>1, <4>1, ScaleFacts
      <3>3. Q \in Int
        <4>1. c.horizon \in Nat
          BY <1>1, BucketIs
        <4> QED
          BY <1>1, <4>1, ScaleFacts
      <3> QED
        BY <3>1, <3>2, <3>3
    <2>8. X \in Int /\ Y \in Int
      BY <1>1, SquareType
    <2>9. gj \in Int /\ gk \in Int /\ fj \in Int /\ fk \in Int
      BY <1>1, SharedGradientIs
    <2>10. n = (W * A) * B
      OBVIOUS
    <2> HIDE DEF W, A, B, P, Q, X, Y, gj, gk, fj, fk, m, z, n
    <2>11. (A * A) * (W * (P * X)) = ((W * A) * B) * (Q * X)
      <3>1. (A * A) * (W * (P * X)) = ((W * A) * (A * P)) * X
        BY ONLY <2>6, <2>7, <2>8
      <3>2. ((W * A) * B) * (Q * X) = ((W * A) * (B * Q)) * X
        BY ONLY <2>6, <2>7, <2>8
      <3> QED
        BY <2>6, <3>1, <3>2
    <2>12. (B * B) * (W * (Q * Y)) = ((W * A) * B) * (P * Y)
      <3>1. (B * B) * (W * (Q * Y)) = ((W * B) * (B * Q)) * Y
        BY ONLY <2>6, <2>7, <2>8
      <3>2. ((W * A) * B) * (P * Y) = ((W * B) * (A * P)) * Y
        BY ONLY <2>6, <2>7, <2>8
      <3> QED
        BY <2>6, <3>1, <3>2
    <2>13. W * ((A * gj) * (B * fk) + (B * fj) * (A * gk)) = ((W * A) * B) * (gj * fk + gk * fj)
      BY ONLY <2>6, <2>7, <2>9
    <2> DEFINE s == (W * A) * B
               u1 == Q * X
               u2 == P * Y
               u3 == gj * fk + gk * fj
    <2>14. s \in Int /\ u1 \in Int /\ u2 \in Int /\ u3 \in Int
      BY ONLY <2>6, <2>7, <2>8, <2>9
    <2>15. z[<<j, k>>] = (s * u1 + s * u2) + s * u3
      BY <2>2, <2>3, <2>4, <2>5, <2>11, <2>12, <2>13 DEF gj, gk, fj, fk
    <2>16. m[<<j, k>>] = u1 + u2 + u3
      BY <2>1
    <2> HIDE DEF s, u1, u2, u3
    <2>17. (s * u1 + s * u2) + s * u3 = s * (u1 + u2 + u3)
      BY ONLY <2>14
    <2> QED
      BY <2>10, <2>15, <2>16, <2>17 DEF s
  <1>5. DOMAIN z = Logit \X Logit
    <2>1. 1 \in Logit
      BY DEF Logit
    <2> QED
      BY <1>2, <2>1, CombineSecond
  <1>6. z = [x \in DOMAIN z |-> z[x]]
    BY DEF Combine
  <1> HIDE DEF z, m, n
  <1>7. \A x \in Logit \X Logit : z[x] = n * m[x]
    <2> TAKE x \in Logit \X Logit
    <2>1. x = <<x[1], x[2]>> /\ x[1] \in Logit /\ x[2] \in Logit
      OBVIOUS
    <2>2. z[<<x[1], x[2]>>] = n * m[<<x[1], x[2]>>]
      BY <1>4, <2>1
    <2> QED
      BY <2>1, <2>2
  <1>8. z = Times3(n, m)
    BY <1>3, <1>5, <1>6, <1>7 DEF Times3
  <1> QED
    BY <1>8 DEF z, m, n

-----------------------------------------------------------------------------
(* The driver, option by option *)

LEMMA OptionIs ==
  ASSUME NEW b, IsBucket(b), NEW o \in Options(b)
  PROVE  \/ o = DenseOption /\ o.width = 1 /\ BucketMoments(b, o) = DenseMoments(b)
         \/ /\ o.width \in BranchWidths /\ o.width # 1 /\ o.depth \in Nat /\ o.depth < b.horizon
            /\ ~Focal(b) => BucketMoments(b, o) = KSampleMoments(b, o.depth, o.width)
            /\ Focal(b) => BucketMoments(b, o) = PairedMoments(b, o.depth)
  <1>1. CASE o = DenseOption
    <2>1. o.width = 1
      BY <1>1 DEF DenseOption
    <2>2. BucketMoments(b, o) = DenseMoments(b)
      <3>1. ~(o.width > 1)
        BY <2>1
      <3> QED
        BY <2>1, <3>1 DEF BucketMoments
    <2> QED
      BY <1>1, <2>1, <2>2
  <1>2. CASE o # DenseOption
    <2>1. o \in [depth : {d \in BranchDepths : d < b.horizon}, width : BranchWidths]
      BY <1>2 DEF Options
    <2>2. o.width \in BranchWidths /\ o.depth \in BranchDepths /\ o.depth < b.horizon
      BY <2>1
    <2>3. o.width \in Nat /\ o.width # 1 /\ o.width > 1 /\ o.depth \in Nat
      <3>1. o.width \in Nat \ {0, 1}
        BY <2>2, WidthFacts
      <3>2. BranchDepths \subseteq Nat \ {0}
        BY BranchAssumption
      <3>3. o.depth \in Nat
        BY <2>2, <3>2
      <3> HIDE DEF Options
      <3>4. o.width \in Nat /\ o.width # 1 /\ o.width > 1
        BY ONLY <3>1
      <3> QED
        BY <3>3, <3>4
    <2>4. ~Focal(b) => BucketMoments(b, o) = KSampleMoments(b, o.depth, o.width)
      BY <2>3 DEF BucketMoments
    <2>5. Focal(b) => BucketMoments(b, o) = PairedMoments(b, o.depth)
      BY <2>3 DEF BucketMoments
    <2> QED
      BY <2>2, <2>3, <2>4, <2>5
  <1> QED
    BY <1>1, <1>2

\* No depth, width or sibling replay moves the target.
LEMMA BucketMean ==
  ASSUME NEW b, IsBucket(b), NEW o \in Options(b)
  PROVE  /\ BucketMoments(b, o).mean = SharedGradient(b)
         /\ SharedGradient(b) \in [Logit -> Int]
  <1>1. SharedGradient(b) \in [Logit -> Int]
    BY SharedGradientIs
  <1>2. DenseMoments(b).mean = SharedGradient(b)
    BY DenseParts
  <1>3. CASE BucketMoments(b, o) = DenseMoments(b)
    BY <1>1, <1>2, <1>3
  <1>4. CASE ~Focal(b) /\ BucketMoments(b, o) = KSampleMoments(b, o.depth, o.width)
    <2>1. KSampleMoments(b, o.depth, o.width).mean = DenseMoments(b).mean
      BY DEF KSampleMoments
    <2> QED
      BY <1>1, <1>2, <1>4, <2>1
  <1>5. CASE /\ Focal(b) /\ BucketMoments(b, o) = PairedMoments(b, o.depth)
             /\ o.depth \in Nat /\ o.depth < b.horizon
    <2>1. Depth(b, o.depth)
      BY <1>5 DEF Depth
    <2>2. PairedMoments(b, o.depth).mean = SharedGradient(b)
      BY <2>1, PairedFirst
    <2> QED
      BY <1>1, <1>5, <2>2
  <1> QED
    BY <1>3, <1>4, <1>5, OptionIs

LEMMA OraclesAgree ==
  ASSUME NEW b, IsBucket(b)
  PROVE  SharedEnumeration(b) = SharedGradient(b) /\ SharedBellman(b) = SharedGradient(b)
  <1>1. SharedEnumeration(b) = SharedGradient(b)
    BY SharedEnumerationIs
  <1>2. SharedBellman(b) = SharedGradient(b)
    <2>1. CASE Focal(b)
      BY <2>1, BellmanFocal
    <2>2. CASE ~Focal(b)
      BY <2>2, BellmanGeneral
    <2> QED
      BY <2>1, <2>2
  <1> QED
    BY <1>1, <1>2

\* The parts taken so far are moments of options of their buckets, in order, and
\* the estimator's moments combine all of them.
PartOf(b) == {[option |-> o, moments |-> BucketMoments(b, o)] : o \in Options(b)}
PartsOf(bs) == UNION {PartOf(bs[i]) : i \in 1..Len(bs)}

BranchInv ==
  /\ problem \in SharedProblems
  /\ parts \in Seq(PartsOf(problem)) /\ Len(parts) <= Len(problem)
  /\ \A i \in 1..Len(parts) : parts[i] \in PartOf(problem[i])
  /\ combined # NoMoments =>
       /\ Len(parts) = Len(problem)
       /\ combined = Combine(problem, [i \in DOMAIN parts |-> parts[i].moments])

LEMMA BranchStart == BranchInit => BranchInv
  <1> SUFFICES ASSUME BranchInit PROVE BranchInv
    OBVIOUS
  <1>1. problem \in SharedProblems /\ parts = <<>> /\ combined = NoMoments
    BY DEF BranchInit
  <1>2. Len(problem) \in Nat
    BY <1>1, ProblemIs
  <1>3. parts \in Seq(PartsOf(problem)) /\ Len(parts) = 0 /\ 1..0 = {}
    BY <1>1
  <1> QED
    BY <1>1, <1>2, <1>3 DEF BranchInv

LEMMA BranchStep == BranchInv /\ [BranchNext]_branchVars => BranchInv'
  <1> SUFFICES ASSUME BranchInv, [BranchNext]_branchVars PROVE BranchInv'
    OBVIOUS
  <1>1. /\ problem \in SharedProblems
        /\ parts \in Seq(PartsOf(problem)) /\ Len(parts) <= Len(problem)
        /\ \A i \in 1..Len(parts) : parts[i] \in PartOf(problem[i])
    BY DEF BranchInv
  <1>2. Len(problem) \in Nat /\ Len(parts) \in Nat /\ DOMAIN parts = 1..Len(parts)
    BY <1>1, ProblemIs
  <1>3. ASSUME TakeOption PROVE BranchInv'
    <2> DEFINE b == problem[Len(parts) + 1]
    <2>1. PICK o \in Options(b) : parts' = Append(parts, [option |-> o, moments |-> BucketMoments(b, o)])
      BY <1>3, Zenon DEF TakeOption
    <2>2. Len(parts) < Len(problem) /\ problem' = problem /\ combined' = combined
      BY <1>3 DEF TakeOption
    <2> DEFINE e == [option |-> o, moments |-> BucketMoments(b, o)]
               n == Len(parts)
    <2>3. e \in PartOf(b)
      BY DEF PartOf
    <2>4. n + 1 \in 1..Len(problem) /\ n \in Nat
      BY <1>2, <2>2
    <2>5. e \in PartsOf(problem)
      BY <2>3, <2>4 DEF PartsOf
    <2>6. parts' = Append(parts, e)
      BY <2>1
    <2> HIDE DEF e
    <2>7. parts' \in Seq(PartsOf(problem)) /\ Len(parts') = n + 1
      BY <1>1, <2>5, <2>6
    <2>8. \A i \in 1..n : parts'[i] = parts[i]
      BY <1>1, <2>5, <2>6
    <2>9. parts'[n + 1] = e
      BY <1>1, <2>5, <2>6
    <2> HIDE DEF b
    <2>10. \A i \in 1..(n + 1) : parts'[i] \in PartOf(problem[i])
      <3> TAKE i \in 1..(n + 1)
      <3>1. CASE i \in 1..n
        BY <1>1, <2>8, <3>1
      <3>2. CASE i = n + 1
        BY <2>3, <2>9, <3>2 DEF b
      <3> QED
        BY <2>4, <3>1, <3>2
    <2>11. combined' = NoMoments
      BY <1>2, <2>2 DEF BranchInv
    <2>12. Len(parts') <= Len(problem)
      BY <1>2, <2>2, <2>7
    <2> HIDE DEF n
    <2>13. \A i \in 1..Len(parts') : parts'[i] \in PartOf(problem[i])
      BY <2>7, <2>10
    <2> QED
      BY <1>1, <2>2, <2>7, <2>11, <2>12, <2>13 DEF BranchInv
  <1>4. ASSUME EstimatorMoments PROVE BranchInv'
    <2>1. /\ Len(parts) = Len(problem) /\ problem' = problem /\ parts' = parts
          /\ combined' = Combine(problem, [i \in DOMAIN parts |-> parts[i].moments])
      BY <1>4 DEF EstimatorMoments
    <2> QED
      BY <1>1, <2>1 DEF BranchInv
  <1>5. ASSUME UNCHANGED branchVars PROVE BranchInv'
    <2>1. problem' = problem /\ parts' = parts /\ combined' = combined
      BY <1>5 DEF branchVars
    <2> QED
      BY <2>1 DEF BranchInv
  <1> QED
    BY <1>3, <1>4, <1>5 DEF BranchNext

LEMMA BranchAlways == BranchSpec => []BranchInv
  BY BranchStart, BranchStep, PTL DEF BranchSpec

LEMMA InvFacts ==
  ASSUME BranchInv
  PROVE  /\ problem \in SharedProblems /\ Len(problem) \in Nat /\ Len(parts) \in Nat
         /\ DOMAIN problem = 1..Len(problem) /\ DOMAIN parts = 1..Len(parts)
         /\ Len(parts) <= Len(problem)
         /\ \A i \in 1..Len(problem) : IsBucket(problem[i])
         /\ \A i \in 1..Len(parts) :
              /\ i \in 1..Len(problem) /\ parts[i].option \in Options(problem[i])
              /\ parts[i].moments = BucketMoments(problem[i], parts[i].option)
         /\ parts # <<>> => Len(parts) \in 1..Len(parts)
  <1>1. /\ problem \in SharedProblems /\ parts \in Seq(PartsOf(problem)) /\ Len(parts) <= Len(problem)
        /\ \A i \in 1..Len(parts) : parts[i] \in PartOf(problem[i])
    BY DEF BranchInv
  <1>2. /\ Len(problem) \in Nat /\ DOMAIN problem = 1..Len(problem)
        /\ \A i \in 1..Len(problem) : IsBucket(problem[i])
    BY <1>1, ProblemIs
  <1>3. Len(parts) \in Nat /\ DOMAIN parts = 1..Len(parts) /\ (parts # <<>> => Len(parts) # 0)
    BY <1>1
  <1>4. ASSUME NEW i \in 1..Len(parts)
        PROVE  /\ i \in 1..Len(problem) /\ parts[i].option \in Options(problem[i])
               /\ parts[i].moments = BucketMoments(problem[i], parts[i].option)
    <2>1. PICK o \in Options(problem[i]) : parts[i] = [option |-> o, moments |-> BucketMoments(problem[i], o)]
      BY <1>1 DEF PartOf
    <2>2. i \in 1..Len(problem)
      BY <1>1, <1>2, <1>3
    <2> QED
      BY <2>1, <2>2
  <1>5. parts # <<>> => Len(parts) \in 1..Len(parts)
    BY <1>3
  <1> QED
    BY <1>1, <1>2, <1>3, <1>4, <1>5

\* Enumerating bit patterns, dynamic programming and enumerating paths give one
\* gradient, for every bucket of every problem (enumerate_gradient,
\* bellman_gradient and exact_gradient of the shared-logit world).
THEOREM SharedOraclesAlwaysAgree == BranchSpec => []SharedOraclesAgree
  <1>1. BranchInv => SharedOraclesAgree
    <2> SUFFICES ASSUME BranchInv PROVE SharedOraclesAgree
      OBVIOUS
    <2>1. \A i \in DOMAIN problem : IsBucket(problem[i])
      BY InvFacts
    <2>2. \A i \in DOMAIN problem :
            /\ SharedEnumeration(problem[i]) = SharedGradient(problem[i])
            /\ SharedBellman(problem[i]) = SharedGradient(problem[i])
      BY <2>1, OraclesAgree
    <2> QED
      BY <2>2 DEF SharedOraclesAgree
  <1> QED
    BY <1>1, BranchAlways, PTL

\* The mean of every option of every bucket is the bucket's gradient, whatever
\* the depth and the width, and so is the envelope's optimal constant baseline's.
THEOREM OptionsAlwaysUnbiased == BranchSpec => []OptionsUnbiased
  <1>1. BranchInv => OptionsUnbiased
    <2> SUFFICES ASSUME BranchInv, parts # <<>>
                 PROVE  /\ Latest.moments.mean = SharedGradient(LatestBucket)
                        /\ \A j \in Logit :
                             OptimalConstantMean(LatestBucket)[j].mean
                               = SharedGradient(LatestBucket)[j] * OptimalConstantMean(LatestBucket)[j].over
      BY DEF OptionsUnbiased
    <2> DEFINE b == LatestBucket
               o == Latest.option
    <2>1. IsBucket(b) /\ o \in Options(b) /\ Latest.moments = BucketMoments(b, o)
      BY InvFacts DEF Latest, LatestBucket
    <2>2. BucketMoments(b, o).mean = SharedGradient(b)
      BY <2>1, BucketMean
    <2>3. \A j \in Logit : OptimalConstantMean(b)[j].mean
                             = SharedGradient(b)[j] * OptimalConstantMean(b)[j].over
      BY <2>1, ConstantUnbiased
    <2> QED
      BY <2>1, <2>2, <2>3
  <1> QED
    BY <1>1, BranchAlways, PTL

\* What two drawn continuations of one prefix give is the closed form for K = 2.
LEMMA ClosedForm ==
  ASSUME BranchInv, parts # <<>>, ~Focal(LatestBucket), Latest.option.width = 2,
         NEW x \in DOMAIN SecondMoment(TwoSampleCycle(LatestBucket, Latest.option.depth))
  PROVE  4 * Latest.moments.second[x] * PathScale(LatestBucket, LatestBucket.horizon - Latest.option.depth)
           = SecondMoment(TwoSampleCycle(LatestBucket, Latest.option.depth))[x] * Widest
               * PathScale(LatestBucket, LatestBucket.horizon)
  <1> DEFINE b == LatestBucket
             o == Latest.option
  <1>1. IsBucket(b) /\ o \in Options(b) /\ Latest.moments = BucketMoments(b, o)
    BY InvFacts DEF Latest, LatestBucket
  <1>2. /\ 2 \in BranchWidths /\ o.depth \in Nat /\ o.depth < b.horizon
        /\ BucketMoments(b, o) = KSampleMoments(b, o.depth, 2)
    BY <1>1, OptionIs
  <1> HIDE DEF b, o
  <1>3. x \in DOMAIN SecondMoment(TwoSampleCycle(b, o.depth)) /\ ~Focal(b)
    BY DEF b, o
  <1>4. 4 * KSampleMoments(b, o.depth, 2).second[x] * PathScale(b, b.horizon - o.depth)
          = SecondMoment(TwoSampleCycle(b, o.depth))[x] * Widest * PathScale(b, b.horizon)
    BY <1>1, <1>2, <1>3, PairsAreExact
  <1> QED
    BY <1>1, <1>2, <1>4 DEF b, o

\* More continuations never raise the variance.
LEMMA WiderIsBetter ==
  ASSUME BranchInv, parts # <<>>, ~Focal(LatestBucket), NEW o \in Options(LatestBucket), NEW j \in Logit,
         o.width > Latest.option.width, Latest.option \in {DenseOption, [o EXCEPT !.width = 2]}
  PROVE  BucketMoments(LatestBucket, o).second[<<j, j>>] <= Latest.moments.second[<<j, j>>]
  <1> DEFINE b == LatestBucket
             l == Latest.option
             m == Latest.moments
  <1>1. IsBucket(b) /\ l \in Options(b) /\ m = BucketMoments(b, l)
    BY InvFacts DEF Latest, LatestBucket
  <1>2. ~Focal(b) /\ o \in Options(b) /\ o.width > l.width /\ l \in {DenseOption, [o EXCEPT !.width = 2]}
    OBVIOUS
  <1> HIDE DEF b, l, m
  <1>3. \/ l = DenseOption /\ l.width = 1 /\ m = DenseMoments(b)
        \/ /\ l.width \in BranchWidths /\ l.width # 1
           /\ m = KSampleMoments(b, l.depth, l.width)
    BY <1>1, <1>2, OptionIs
  <1>4. o.width # 1
    <2>1. CASE l.width = 1
      BY <1>2, <2>1
    <2>2. CASE l.width \in BranchWidths
      <3>1. l.width \in Nat \ {0, 1}
        BY <2>2, WidthFacts
      <3> QED
        BY <1>2, <3>1
    <2> QED
      BY <1>3, <2>1, <2>2
  <1>5. /\ o.width \in BranchWidths /\ o.depth \in Nat /\ o.depth < b.horizon
        /\ BucketMoments(b, o) = KSampleMoments(b, o.depth, o.width)
    BY <1>1, <1>2, <1>4, OptionIs
  <1>6. /\ KSampleMoments(b, o.depth, o.width).second[<<j, j>>] <= DenseMoments(b).second[<<j, j>>]
        /\ 2 \in BranchWidths =>
             KSampleMoments(b, o.depth, o.width).second[<<j, j>>] <= KSampleMoments(b, o.depth, 2).second[<<j, j>>]
    BY <1>1, <1>2, <1>5, MoreIsBetter
  <1>7. CASE l = DenseOption /\ l.width = 1 /\ m = DenseMoments(b)
    BY <1>5, <1>6, <1>7 DEF b, m
  <1>8. CASE l.width \in BranchWidths /\ l.width # 1 /\ m = KSampleMoments(b, l.depth, l.width)
    <2>1. l = [o EXCEPT !.width = 2]
      <3>1. DenseOption.width = 1
        BY DEF DenseOption
      <3> QED
        BY <1>2, <1>8, <3>1
    <2>2. o \in [depth : {d \in BranchDepths : d < b.horizon}, width : BranchWidths]
      <3>1. o # DenseOption
        BY <1>4 DEF DenseOption
      <3> QED
        BY <1>2, <3>1 DEF Options
    <2>3. l.depth = o.depth /\ l.width = 2
      BY <2>1, <2>2
    <2> QED
      BY <1>5, <1>6, <1>8, <2>3 DEF b, m
  <1> QED
    BY <1>3, <1>7, <1>8

\* The moments of a mapping of two buckets.
LEMMA TwoTogether ==
  ASSUME BranchInv, combined # NoMoments, Len(problem) = 2
  PROVE  /\ \A j \in Logit :
              combined.mean[j] = Lift(problem, 1) * SharedGradient(problem[1])[j]
                                 + Lift(problem, 2) * SharedGradient(problem[2])[j]
         /\ (\A i \in DOMAIN parts : parts[i].option = DenseOption) =>
              combined.second = Times3(Widest * Lift(problem, 1) * Lift(problem, 2),
                SecondMoment(JointCycle(DenseCycle(problem[1]), DenseCycle(problem[2]))))
  <1> DEFINE ms == [i \in DOMAIN parts |-> parts[i].moments]
  <1>1. Len(parts) = 2 /\ combined = Combine(problem, ms)
    BY DEF BranchInv
  <1>2. 1 \in 1..Len(parts) /\ 2 \in 1..Len(parts) /\ DOMAIN parts = 1..Len(parts)
    BY <1>1, InvFacts
  <1>3. \A i \in {1, 2} : /\ IsBucket(problem[i]) /\ parts[i].option \in Options(problem[i])
                          /\ ms[i] = BucketMoments(problem[i], parts[i].option)
    BY <1>2, InvFacts
  <1>4. \A i \in {1, 2} : /\ ms[i].mean = SharedGradient(problem[i])
                          /\ SharedGradient(problem[i]) \in [Logit -> Int]
    BY <1>3, BucketMean
  <1>5. problem \in SharedProblems
    BY InvFacts
  <1> HIDE DEF ms
  <1>6. TwoMeans(ms)
    BY <1>4 DEF TwoMeans
  <1>7. ASSUME NEW j \in Logit
        PROVE  combined.mean[j] = Lift(problem, 1) * SharedGradient(problem[1])[j]
                                  + Lift(problem, 2) * SharedGradient(problem[2])[j]
    <2>1. Combine(problem, ms).mean[j] = Lift(problem, 1) * ms[1].mean[j] + Lift(problem, 2) * ms[2].mean[j]
      BY <1>5, <1>6, CombineMean
    <2> QED
      BY <1>1, <1>4, <2>1
  <1>8. ASSUME \A i \in DOMAIN parts : parts[i].option = DenseOption
        PROVE  combined.second = Times3(Widest * Lift(problem, 1) * Lift(problem, 2),
                 SecondMoment(JointCycle(DenseCycle(problem[1]), DenseCycle(problem[2]))))
    <2>1. \A b : BucketMoments(b, DenseOption) = DenseMoments(b)
      BY DEF BucketMoments, DenseOption
    <2>2. ms[1] = DenseMoments(problem[1]) /\ ms[2] = DenseMoments(problem[2])
      BY <1>2, <1>3, <1>8, <2>1
    <2>3. Combine(problem, ms).second
            = Times3(Widest * Lift(problem, 1) * Lift(problem, 2),
                     SecondMoment(JointCycle(DenseCycle(problem[1]), DenseCycle(problem[2]))))
      BY <1>5, <2>2, JointExact
    <2> QED
      BY <1>1, <2>3
  <1> QED
    BY <1>7, <1>8

\* The closed form for K continuations is what enumerating two of them gives,
\* more continuations never raise the variance, and the moments of a mapping of
\* two buckets are those of its buckets drawn jointly (estimator_moments).
THEOREM MomentsAlwaysExact == BranchSpec => []MomentsExact
  <1>1. BranchInv => MomentsExact
    <2> SUFFICES ASSUME BranchInv PROVE MomentsExact
      OBVIOUS
    <2>1. ASSUME parts # <<>>, ~Focal(LatestBucket), Latest.option.width = 2,
                 NEW x \in DOMAIN SecondMoment(TwoSampleCycle(LatestBucket, Latest.option.depth))
          PROVE  4 * Latest.moments.second[x]
                   * PathScale(LatestBucket, LatestBucket.horizon - Latest.option.depth)
                   = SecondMoment(TwoSampleCycle(LatestBucket, Latest.option.depth))[x] * Widest
                       * PathScale(LatestBucket, LatestBucket.horizon)
      BY <2>1, ClosedForm
    <2>2. ASSUME parts # <<>>, ~Focal(LatestBucket), NEW o \in Options(LatestBucket), NEW j \in Logit,
                 o.width > Latest.option.width, Latest.option \in {DenseOption, [o EXCEPT !.width = 2]}
          PROVE  BucketMoments(LatestBucket, o).second[<<j, j>>] <= Latest.moments.second[<<j, j>>]
      BY <2>2, WiderIsBetter
    <2>3. ASSUME combined # NoMoments, Len(problem) = 2
          PROVE  /\ \A j \in Logit :
                      combined.mean[j] = Lift(problem, 1) * SharedGradient(problem[1])[j]
                                         + Lift(problem, 2) * SharedGradient(problem[2])[j]
                 /\ (\A i \in DOMAIN parts : parts[i].option = DenseOption) =>
                      combined.second = Times3(Widest * Lift(problem, 1) * Lift(problem, 2),
                        SecondMoment(JointCycle(DenseCycle(problem[1]), DenseCycle(problem[2]))))
      BY <2>3, TwoTogether
    <2> QED
      BY <2>1, <2>2, <2>3 DEF MomentsExact
  <1> QED
    BY <1>1, BranchAlways, PTL
=============================================================================
