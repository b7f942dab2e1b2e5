----------------------------- MODULE D002Proofs -----------------------------
(***************************************************************************)
(* Proofs about D002.  CalibrationScan, for every number of candidates,    *)
(* every cost, every choice of objectives and every tolerance; the widths  *)
(* it keeps, for any buckets, horizons and depths; and SelectionLineage,   *)
(* for any number of invocations, paths, mappings, manifests and problems. *)
(*                                                                         *)
(* The inductive invariant of the lineage follows a selection from the run *)
(* that froze it: what a file records as its hash is what a calibration    *)
(* published, so a file whose hash matches is unedited, and what a test    *)
(* holds stays so because the file is read once.                           *)
(***************************************************************************)
EXTENDS MCCalibrationScan, SelectionLineage, ExactWorldsProofs, TLAPS

-----------------------------------------------------------------------------
(* The calibration scan *)

\* Every reachable state of the scan (d002.py, the loop over the combos) is
\* well typed.
THEOREM ScanTypeCorrect == ScanSpec => []ScanTypeOK
<1>1. ScanInit => ScanTypeOK
  <2>1. SUFFICES ASSUME ScanInit PROVE ScanTypeOK
    OBVIOUS
  <2>2. PICK f \in [{Shape[i] : i \in Candidate} -> Objectives] :
          objective = [i \in Candidate |-> f[Shape[i]]]
    BY <2>1 DEF ScanInit
  <2>3. objective \in [Candidate -> Objectives]
    BY <2>2
  <2> QED
    BY <2>1, <2>3, ScanAssumption DEF ScanInit, ScanTypeOK, NoBest
<1>2. ScanTypeOK /\ [ScanNext]_scanVars => ScanTypeOK'
  <2>1. ASSUME ScanTypeOK, Consider PROVE ScanTypeOK'
    <3>1. /\ next \in Nat /\ next >= 1 /\ next <= Count /\ next' = next + 1
          /\ objective' = objective
          /\ best' \in {next, best} /\ Count \in Nat
      BY <2>1, ScanAssumption DEF Consider, Candidate
    <3>2. best \in 0..(next - 1) /\ (best = NoBest => best' = next)
      BY <2>1 DEF ScanTypeOK, Consider, Improves
    <3>3. best' \in 0..(next' - 1) /\ (best' = NoBest => next' = 1)
      BY <3>1, <3>2 DEF NoBest
    <3> QED
      BY <2>1, <3>1, <3>3 DEF ScanTypeOK, NoBest, Candidate
  <2>2. ASSUME ScanTypeOK, UNCHANGED scanVars PROVE ScanTypeOK'
    BY <2>2 DEF ScanTypeOK, scanVars, NoBest, Candidate
  <2> QED
    BY <2>1, <2>2 DEF ScanNext
<1> QED
  BY <1>1, <1>2, PTL DEF ScanSpec

\* The types of what a step of the scan compares.
LEMMA Compared ==
  ASSUME ScanTypeOK, NEW i \in Candidate
  PROVE  objective[i] \in Int /\ Cost[i] \in Int /\ i \in Nat
<1>1. objective[i] \in Objectives
  BY DEF ScanTypeOK
<1>2. Objectives \subseteq Int /\ Cost[i] \in Int /\ i \in Nat
  BY ScanAssumption DEF Candidate
<1> QED
  BY <1>1, <1>2

\* In every state of the scan the best is first in the declared order, among
\* the candidates looked at, when no two objectives are nearly equal (d002.py,
\* "tie_break").
THEOREM SelectsByDeclaredTieBreak == ScanSpec => []DeclaredTieBreak
<1>1. ScanInit => DeclaredTieBreak
  BY DEF ScanInit, DeclaredTieBreak
<1>2. ScanTypeOK /\ DeclaredTieBreak /\ [ScanNext]_scanVars => DeclaredTieBreak'
  <2>1. ASSUME ScanTypeOK, DeclaredTieBreak, Consider PROVE DeclaredTieBreak'
    <3> SUFFICES ASSUME Separated', best' # NoBest, NEW j \in 1..(next' - 1)
                 PROVE  Before(best, j)'
      BY DEF DeclaredTieBreak
    <3>1. /\ next \in Candidate /\ next \in Nat /\ next' = next + 1
          /\ objective' = objective
          /\ best' = IF Improves(next) THEN next ELSE best
      BY <2>1 DEF Consider, Candidate
    <3>2. Separated
      BY <3>1 DEF Separated
    <3>3. objective[next] \in Int /\ Cost[next] \in Int
      BY <2>1, <3>1, Compared
    <3>4. j \in Candidate /\ (j = next \/ j \in 1..(next - 1))
      BY <3>1, ScanAssumption DEF Candidate
    <3>5. objective[j] \in Int /\ Cost[j] \in Int
      BY <2>1, <3>4, Compared
    <3>6. CASE best = NoBest
      <4>1. next = 1 /\ best' = next
        BY <2>1, <3>1, <3>6 DEF ScanTypeOK, Improves
      <4> QED
        BY <4>1, <3>1, <3>3, <3>4 DEF Before
    <3>7. CASE best # NoBest
      <4>1. best \in Candidate /\ best < next
        BY <2>1, <3>1, <3>7, ScanAssumption DEF ScanTypeOK, NoBest, Candidate
      <4>2. objective[best] \in Int /\ Cost[best] \in Int
        BY <2>1, <4>1, Compared
      <4>3. \A k \in 1..(next - 1) : Before(best, k)
        BY <2>1, <3>2, <3>7 DEF DeclaredTieBreak
      <4>4. \/ objective[next] = objective[best]
            \/ objective[next] - objective[best] > Tolerance
            \/ objective[best] - objective[next] > Tolerance
        <5>1. objective[next] \in {objective[i] : i \in Candidate}
          BY <3>1
        <5>2. objective[best] \in {objective[i] : i \in Candidate}
          BY <4>1
        <5> QED
          BY <3>2, <3>3, <4>2, <5>1, <5>2 DEF Separated
      <4>5. CASE Improves(next)
        <5>1. \/ objective[next] < objective[best]
              \/ objective[next] = objective[best] /\ Cost[next] < Cost[best]
          BY <4>4, <4>5, <3>3, <3>7, <4>2, ScanAssumption DEF Improves, Tied
        <5>2. best' = next
          BY <3>1, <4>5
        <5>3. CASE j = next
          BY <5>2, <5>3, <3>1, <3>3 DEF Before
        <5>4. CASE j \in 1..(next - 1)
          <6>1. Before(best, j)
            BY <4>3, <5>4
          <6>2. objective' = objective /\ best' = next
            BY <3>1, <5>2
          <6>3. \/ objective[best] < objective[j]
                \/ objective[best] = objective[j] /\ Cost[best] <= Cost[j]
            BY <6>1, <3>5, <4>2 DEF Before
          <6>4. \/ objective[next] < objective[j]
                \/ objective[next] = objective[j] /\ Cost[next] < Cost[j]
            BY ONLY <5>1, <6>3, <3>3, <3>5, <4>2
          <6> QED
            BY ONLY <6>2, <6>4 DEF Before
        <5> QED
          BY <5>3, <5>4, <3>4
      <4>6. CASE ~Improves(next)
        <5>1. \/ objective[best] < objective[next]
              \/ objective[best] = objective[next] /\ Cost[best] <= Cost[next]
          <6>1. Tolerance \in Nat
            BY ScanAssumption
          <6>2. /\ ~(objective[next] < objective[best] - Tolerance)
                /\ objective[next] = objective[best] => ~(Cost[next] < Cost[best])
            BY <6>1, <4>6, <3>3, <3>7, <4>2 DEF Improves, Tied
          <6> QED
            BY ONLY <6>1, <6>2, <4>4, <3>3, <4>2
        <5>2. best' = best
          BY <3>1, <4>6
        <5>3. CASE j = next
          BY <5>1, <5>2, <5>3, <3>1, <3>3, <4>1, <4>2 DEF Before, Candidate
        <5>4. CASE j \in 1..(next - 1)
          BY <4>3, <5>2, <5>4, <3>1 DEF Before
        <5> QED
          BY <5>3, <5>4, <3>4
      <4> QED
        BY <4>5, <4>6
    <3> QED
      BY <3>6, <3>7
  <2>2. ASSUME DeclaredTieBreak, UNCHANGED scanVars PROVE DeclaredTieBreak'
    BY <2>2 DEF DeclaredTieBreak, scanVars, Separated, Before
  <2> QED
    BY <2>1, <2>2 DEF ScanNext
<1> QED
  BY <1>1, <1>2, ScanTypeCorrect, PTL DEF ScanSpec

\* However the objectives lie, the best is never worse than a candidate by
\* more than a tolerance for each step since that candidate (d002.py, the
\* 1e-15 comparisons).
THEOREM DriftIsBounded == ScanSpec => []DriftBounded
<1>1. ScanInit => DriftBounded
  BY DEF ScanInit, DriftBounded
<1>2. ScanTypeOK /\ DriftBounded /\ [ScanNext]_scanVars => DriftBounded'
  <2>1. ASSUME ScanTypeOK, DriftBounded, Consider PROVE DriftBounded'
    <3> SUFFICES ASSUME best' # NoBest, NEW j \in 1..(next' - 1)
                 PROVE  objective'[best'] - objective'[j] <= Tolerance * (next' - j)
      BY DEF DriftBounded
    <3>1. /\ next \in Candidate /\ next \in Nat /\ next' = next + 1
          /\ objective' = objective
          /\ best' = IF Improves(next) THEN next ELSE best
      BY <2>1 DEF Consider, Candidate
    <3>2. objective[next] \in Int
      BY <2>1, <3>1, Compared
    <3>3. j \in Candidate /\ j \in Nat /\ (j = next \/ j \in 1..(next - 1))
      BY <3>1, ScanAssumption DEF Candidate
    <3>4. objective[j] \in Int /\ Tolerance \in Nat
      BY <2>1, <3>3, Compared, ScanAssumption
    <3>5. Tolerance * (next' - j) = Tolerance * (next - j) + Tolerance
      BY <3>1, <3>3, <3>4
    <3>6. j = next => Tolerance * (next - j) = 0
      BY <3>1, <3>4
    <3>7. Tolerance * (next - j) \in Int
      BY <3>1, <3>3, <3>4
    <3>8. CASE best = NoBest
      <4>1. next = 1 /\ best' = next /\ j = next
        BY <2>1, <3>1, <3>3, <3>8 DEF ScanTypeOK, Improves
      <4> QED
        BY <4>1, <3>1, <3>2, <3>4, <3>5, <3>6
    <3>9. CASE best # NoBest
      <4>1. best \in Candidate
        BY <2>1, <3>1, <3>9, ScanAssumption DEF ScanTypeOK, NoBest, Candidate
      <4>2. objective[best] \in Int
        BY <2>1, <4>1, Compared
      <4>3. j # next => objective[best] - objective[j] <= Tolerance * (next - j)
        BY <2>1, <3>3, <3>9 DEF DriftBounded
      <4>4. CASE Improves(next)
        <5>1. objective[next] <= objective[best] + Tolerance
          BY <4>4, <3>2, <3>4, <3>9, <4>2 DEF Improves, Tied
        <5> QED
          BY <5>1, <4>3, <4>4, <3>1, <3>2, <3>4, <3>5, <3>6, <3>7, <4>2
      <4>5. CASE ~Improves(next)
        <5>1. objective[best] <= objective[next] + Tolerance
          BY <4>5, <3>2, <3>4, <3>9, <4>2 DEF Improves, Tied
        <5> QED
          BY <5>1, <4>3, <4>5, <3>1, <3>2, <3>4, <3>5, <3>6, <3>7, <4>2
      <4> QED
        BY <4>4, <4>5
    <3> QED
      BY <3>8, <3>9
  <2>2. ASSUME DriftBounded, UNCHANGED scanVars PROVE DriftBounded'
    BY <2>2 DEF DriftBounded, scanVars
  <2> QED
    BY <2>1, <2>2 DEF ScanNext
<1> QED
  BY <1>1, <1>2, ScanTypeCorrect, PTL DEF ScanSpec

-----------------------------------------------------------------------------
(* The digits of a candidate's number *)

\* n without s units of a place worth p, and a place worth more than another.
Taken(n, s, p) == n - s * p
Above(u, p) == \E q \in Nat \ {0} : u = (7 * q) * p

\* Taking s units of a place from a number whose digit there is no less: the
\* digit there,
LEMMA DigitAt ==
  ASSUME NEW n \in Nat, NEW p \in Nat \ {0}, NEW s \in Nat, s <= (n \div p) % 7
  PROVE  Taken(n, s, p) \in Nat /\ (Taken(n, s, p) \div p) % 7 = ((n \div p) % 7) - s
  <1> DEFINE d == n \div p
             r == n % p
  <1>1. n = p * d + r /\ d \in Nat /\ r \in 0..(p - 1) /\ s <= d % 7
    OBVIOUS
  <1> HIDE DEF d, r
  <1>2. s <= d /\ d - s \in Nat
    BY <1>1
  <1>3. n - s * p = p * (d - s) + r
    BY <1>1
  <1>4. p * (d - s) \in Nat
    BY <1>2
  <1>5. n - s * p \in Nat
    BY <1>1, <1>3, <1>4
  <1>6. (n - s * p) \div p = d - s
    BY <1>1, <1>2, <1>3, <1>5, DivUnique
  <1>7. (d - s) % 7 = (d % 7) - s
    BY <1>1, <1>2
  <1> QED
    BY <1>5, <1>6, <1>7 DEF d, Taken

\* those of lower places,
LEMMA DigitBelow ==
  ASSUME NEW n \in Nat, NEW p \in Nat \ {0}, NEW s \in Nat, Taken(n, s, p) \in Nat,
         NEW u \in Nat \ {0}, Above(p, u)
  PROVE  (Taken(n, s, p) \div u) % 7 = (n \div u) % 7
  <1> DEFINE d == n \div u
             r == n % u
             m == Taken(n, s, p)
  <1>1. n = u * d + r /\ d \in Nat /\ r \in 0..(u - 1)
    OBVIOUS
  <1>2. PICK q \in Nat \ {0} : p = (7 * q) * u
    BY DEF Above
  <1> DEFINE e == q * s
             y == u * (d - 7 * e)
  <1>3. e \in Nat /\ s * p = u * (7 * e)
    <2>1. s * ((7 * q) * u) = u * (7 * (q * s))
      OBVIOUS
    <2> QED
      BY <1>2, <2>1
  <1> HIDE DEF d, r, e
  <1>4. u * d - u * (7 * e) = u * (d - 7 * e) /\ u * d \in Nat /\ u * (7 * e) \in Nat
    BY ONLY <1>1, <1>3, u \in Nat \ {0}
  <1>5. m = y + r /\ m \in Nat /\ y \in Int
    <2>1. m = n - s * p /\ m \in Nat
      BY DEF Taken
    <2> DEFINE ud == u * d
               ue == u * (7 * e)
    <2>2. y = ud - ue /\ ud \in Nat /\ ue \in Nat /\ n = ud + r /\ s * p = ue
      BY <1>1, <1>3, <1>4
    <2> HIDE DEF ud, ue, m, y
    <2> QED
      BY ONLY <2>1, <2>2, <1>1
  <1>6. d - 7 * e \in Nat
    <2>1. CASE d - 7 * e <= -1
      <3>1. y <= u * (-1)
        BY <1>1, <1>3, <2>1
      <3> HIDE DEF y, m
      <3> QED
        BY <1>1, <1>5, <3>1
    <2> QED
      BY <1>1, <1>3, <2>1
  <1>7. m \div u = d - 7 * e
    <2> HIDE DEF m
    <2> QED
      BY <1>1, <1>5, <1>6, DivUnique DEF y
  <1>8. (d - 7 * e) % 7 = d % 7
    BY <1>1, <1>3, <1>6
  <1> QED
    BY <1>7, <1>8 DEF d

\* and those of higher places.
LEMMA DigitAbove ==
  ASSUME NEW n \in Nat, NEW p \in Nat \ {0}, NEW s \in Nat, s <= (n \div p) % 7,
         NEW u \in Nat \ {0}, Above(u, p)
  PROVE  (Taken(n, s, p) \div u) % 7 = (n \div u) % 7
  <1> DEFINE d == n \div p
             r == n % p
             D == n \div u
             R == n % u
  <1>1. n = p * d + r /\ d \in Nat /\ r \in 0..(p - 1) /\ s <= d % 7
    OBVIOUS
  <1>2. n = u * D + R /\ D \in Nat /\ R \in 0..(u - 1)
    OBVIOUS
  <1>0. r \in 0..(p - 1) /\ R \in 0..(u - 1)
    BY <1>1, <1>2
  <1>3. PICK q \in Nat \ {0} : u = (7 * q) * p
    BY DEF Above
  <1> DEFINE k == q * D
             e == d - 7 * k
             y == p * e
  <1> HIDE DEF d, r, D, R
  <1>4. k \in Nat /\ u * D = p * (7 * k)
    <2>1. ((7 * q) * p) * D = p * (7 * (q * D))
      BY ONLY <1>2, q \in Nat \ {0}, p \in Nat \ {0}
    <2> QED
      BY <1>2, <1>3, <2>1
  <1> HIDE DEF k
  <1>5. e \in Int /\ e % 7 = d % 7
    BY <1>1, <1>4
  <1>6. y = p * d - p * (7 * k) /\ y \in Int /\ p * d \in Nat /\ p * (7 * k) \in Nat
    BY ONLY <1>1, <1>4, p \in Nat \ {0} DEF y, e
  <1>7. R = y + r
    <2> DEFINE pd == p * d
               pk == p * (7 * k)
    <2>1. n = pd + r /\ n = pk + R /\ y = pd - pk /\ pd \in Nat /\ pk \in Nat
      BY <1>1, <1>2, <1>4, <1>6
    <2> HIDE DEF pd, pk, y
    <2> QED
      BY ONLY <2>1, <1>1, <1>2, <1>6
  <1>8. e \in Nat
    <2>1. CASE e <= -1
      <3>1. y <= -p
        <4>1. p * e <= p * (-1)
          BY <1>5, <2>1
        <4> QED
          BY <4>1
      <3> HIDE DEF y
      <3> QED
        BY ONLY <1>0, <1>6, <1>7, <3>1, p \in Nat \ {0}, u \in Nat \ {0}
    <2> QED
      BY <1>5, <2>1
  <1>9. e - s \in Nat
    <2> HIDE DEF e
    <2> QED
      BY <1>1, <1>5, <1>8
  <1> DEFINE z == p * (e - s)
  <1>10. z \in Nat /\ y - s * p = z /\ s * p \in Nat
    <2> HIDE DEF e
    <2> QED
      BY ONLY <1>8, <1>9, p \in Nat \ {0}, s \in Nat DEF y, z
  <1>11. R - s * p = z + r /\ R - s * p \in 0..(u - 1)
    <2> DEFINE x == s * p
    <2>1. x \in Nat /\ y - x = z
      BY <1>10
    <2> HIDE DEF x, y, z
    <2>2. R - x = z + r /\ R - x \in 0..(u - 1)
      BY ONLY <1>0, <1>6, <1>7, <1>10, <2>1, u \in Nat \ {0}, p \in Nat \ {0}
    <2> QED
      BY <2>2 DEF x
  <1>12. Taken(n, s, p) = u * D + (R - s * p) /\ Taken(n, s, p) \in Nat
    <2>1. u * D \in Nat
      BY <1>2
    <2> QED
      BY <1>2, <1>10, <1>11, <2>1 DEF Taken
  <1>13. Taken(n, s, p) \div u = D
    BY <1>2, <1>11, <1>12, DivUnique
  <1> QED
    BY <1>13 DEF D

LEMMA SevenWidths ==
  /\ PerBucket = 7 /\ Len(Widths) = 3 /\ Widths[1] = 2 /\ Widths[2] = 4 /\ Widths[3] = 8
  /\ Len(Horizon) \in Nat
  BY BucketAssumption, LenProperties DEF PerBucket, Widths

LEMMA HigherPower ==
  ASSUME NEW m \in Nat
  PROVE  \A k \in Nat : \E q \in Nat \ {0} : Power(7, m + (k + 1)) = (7 * q) * Power(7, m)
  <1> DEFINE X == {k \in Nat : \E q \in Nat \ {0} : Power(7, m + (k + 1)) = (7 * q) * Power(7, m)}
  <1>1. 0 \in X
    <2>1. Power(7, m + 1) = (7 * 1) * Power(7, m)
      BY PowerNext
    <2> QED
      BY <2>1
  <1>2. ASSUME NEW k \in Nat, k \in X PROVE k + 1 \in X
    <2>1. PICK q \in Nat \ {0} : Power(7, m + (k + 1)) = (7 * q) * Power(7, m)
      BY <1>2
    <2>2. Power(7, (m + (k + 1)) + 1) = 7 * Power(7, m + (k + 1)) /\ Power(7, m) \in Int
      BY PowerNext
    <2>3. 7 * ((7 * q) * Power(7, m)) = (7 * (7 * q)) * Power(7, m) /\ 7 * q \in Nat \ {0}
      BY <2>2
    <2>4. m + ((k + 1) + 1) = (m + (k + 1)) + 1
      OBVIOUS
    <2> QED
      BY <2>1, <2>2, <2>3, <2>4
  <1> HIDE DEF X
  <1>3. Nat \subseteq X
    BY <1>1, <1>2, NatSetInduction
  <1> QED
    BY <1>3 DEF X

LEMMA PlaceFacts ==
  /\ \A b \in Bucket : Place(b) \in Nat \ {0}
  /\ \A b, c \in Bucket : b < c => Above(Place(b), Place(c))
  <1>1. ASSUME NEW b \in Bucket PROVE Place(b) \in Nat \ {0}
    <2>1. Len(Horizon) - b \in Nat
      BY SevenWidths DEF Bucket
    <2>2. \A k \in Nat : Power(7, k) \in Nat \ {0}
      BY PowerPositive
    <2> QED
      BY <2>1, <2>2, SevenWidths DEF Place
  <1>2. ASSUME NEW b \in Bucket, NEW c \in Bucket, b < c
        PROVE  Above(Place(b), Place(c))
    <2> DEFINE m == Len(Horizon) - c
               k == (c - b) - 1
    <2>1. m \in Nat /\ k \in Nat /\ Len(Horizon) - b = m + (k + 1)
      BY <1>2, SevenWidths DEF Bucket
    <2> HIDE DEF k
    <2>2. \E q \in Nat \ {0} : Power(7, m + (k + 1)) = (7 * q) * Power(7, m)
      BY <2>1, HigherPower
    <2> QED
      BY <2>1, <2>2, SevenWidths DEF Place, Above
  <1> QED
    BY <1>1, <1>2

\* The candidate with a digit s less at b, and all others the same.
LEMMA OneDigitLess ==
  ASSUME NEW i \in Nat \ {0}, NEW b \in Bucket, NEW s \in Nat, s <= Digit(i, b)
  PROVE  LET j == i - s * Place(b)
         IN /\ j \in Nat \ {0} /\ Digit(j, b) = Digit(i, b) - s
            /\ \A c \in Bucket : c # b => Digit(j, c) = Digit(i, c)
  <1> DEFINE n == i - 1
             p == Place(b)
             j == i - s * p
             m == Taken(n, s, p)
  <1>1. n \in Nat /\ p \in Nat \ {0} /\ j \in Int /\ j - 1 = m
    <2>1. n \in Nat /\ p \in Nat \ {0}
      BY PlaceFacts
    <2>2. s * p \in Nat
      BY <2>1
    <2> QED
      BY <2>1, <2>2 DEF Taken
  <1> HIDE DEF j
  <1>2. \A c \in Bucket : /\ Digit(i, c) = (n \div Place(c)) % 7
                          /\ Digit(j, c) = (m \div Place(c)) % 7
    BY <1>1, SevenWidths DEF Digit
  <1> HIDE DEF n, p
  <1>3. s <= (n \div p) % 7
    BY <1>2 DEF p
  <1>4. m \in Nat /\ (m \div p) % 7 = ((n \div p) % 7) - s
    BY <1>1, <1>3, DigitAt
  <1> HIDE DEF m
  <1>5. ASSUME NEW c \in Bucket, c # b PROVE Digit(j, c) = Digit(i, c)
    <2> DEFINE u == Place(c)
    <2>1. u \in Nat \ {0}
      BY PlaceFacts
    <2>2. CASE b < c
      <3>1. Above(p, u)
        BY <2>2, PlaceFacts DEF p
      <3> HIDE DEF u
      <3>2. (m \div u) % 7 = (n \div u) % 7
        BY <1>1, <1>4, <2>1, <3>1, DigitBelow DEF m
      <3> QED
        BY <1>2, <3>2 DEF u
    <2>3. CASE c < b
      <3>1. Above(u, p)
        BY <2>3, PlaceFacts DEF p
      <3> HIDE DEF u
      <3>2. (m \div u) % 7 = (n \div u) % 7
        BY <1>1, <1>3, <2>1, <3>1, DigitAbove DEF m
      <3> QED
        BY <1>2, <3>2 DEF u
    <2> QED
      BY <1>5, <2>2, <2>3 DEF Bucket
  <1>6. Digit(j, b) = Digit(i, b) - s
    BY <1>2, <1>4 DEF p
  <1>7. j \in Nat \ {0}
    BY <1>1, <1>4
  <1> QED
    BY <1>5, <1>6, <1>7 DEF j, p

-----------------------------------------------------------------------------
(* The width that is kept *)

\* Options of one depth cost the same, whatever their width.
LEMMA OptionsOfOneDepth ==
  ASSUME NEW b, NEW d \in 0..6, Option(b, d).width \notin {1, 2}
  PROVE  \E s \in {1, 2} :
           /\ s <= d /\ Option(b, d - s).depth = Option(b, d).depth
           /\ BucketCost(b, Option(b, d - s)) = BucketCost(b, Option(b, d))
  <1>1. ASSUME NEW e \in 1..6
        PROVE  /\ Option(b, e).depth = Depths[b][((e - 1) \div 3) + 1]
               /\ Option(b, e).width = Widths[((e - 1) % 3) + 1]
    BY SevenWidths DEF Option
  <1>2. d \in {2, 3, 5, 6}
    <2>1. d = 0 => Option(b, d).width = 1
      BY DEF Option, Dense
    <2>2. d = 1 \/ d = 4 => Option(b, d).width = 2
      <3>1. ((1 - 1) % 3) + 1 = 1 /\ ((4 - 1) % 3) + 1 = 1
        OBVIOUS
      <3> QED
        BY <1>1, <3>1, SevenWidths
    <2> QED
      BY <2>1, <2>2
  <1> DEFINE s == (d - 1) % 3
             e == d - s
  <1>3. /\ s \in {1, 2} /\ s <= d /\ e \in 1..6 /\ d \in 1..6
        /\ (e - 1) \div 3 = (d - 1) \div 3 /\ (e - 1) % 3 = 0
    BY <1>2
  <1> HIDE DEF s
  <1>4. Option(b, e).depth = Option(b, d).depth
    BY <1>1, <1>3
  <1>5. Option(b, e).width = 2 /\ Option(b, d).width # 1
    <2>1. 0 + 1 = 1
      OBVIOUS
    <2> QED
      BY <1>1, <1>3, <2>1, SevenWidths
  <1>6. BucketCost(b, Option(b, e)) = BucketCost(b, Option(b, d))
    BY <1>4, <1>5 DEF BucketCost
  <1> QED
    BY <1>3, <1>4, <1>6

\* A candidate with a wider branched bucket has an earlier twin: the same
\* depths, so the same moments, and the same cost.
LEMMA EarlierTwin ==
  ASSUME NEW i \in Nat \ {0}, NEW b \in Bucket, Combo(i)[b].width \notin {1, 2}
  PROVE  \E j \in Nat \ {0} : j < i /\ ShapeOf(j) = ShapeOf(i) /\ CycleCost(j) = CycleCost(i)
  <1> DEFINE d == Digit(i, b)
  <1>1. \A k, c : c \in Bucket => Combo(k)[c] = Option(c, Digit(k, c))
    BY DEF Combo
  <1>2. d \in 0..6
    <2>1. Place(b) \in Nat \ {0} /\ i - 1 \in Nat
      BY PlaceFacts
    <2>2. (i - 1) \div Place(b) \in Nat
      BY <2>1
    <2> QED
      BY <2>2, SevenWidths DEF Digit
  <1>3. PICK s \in {1, 2} : /\ s <= d /\ Option(b, d - s).depth = Option(b, d).depth
                            /\ BucketCost(b, Option(b, d - s)) = BucketCost(b, Option(b, d))
    BY <1>1, <1>2, OptionsOfOneDepth
  <1> DEFINE j == i - s * Place(b)
  <1>4. /\ j \in Nat \ {0} /\ Digit(j, b) = d - s
        /\ \A c \in Bucket : c # b => Digit(j, c) = Digit(i, c)
    BY <1>3, OneDigitLess
  <1>5. j < i
    <2>1. Place(b) \in Nat \ {0}
      BY PlaceFacts
    <2>2. s = 1 \/ s = 2
      OBVIOUS
    <2> QED
      BY <2>1, <2>2
  <1> HIDE DEF j, d
  <1>6. \A c \in Bucket : /\ Combo(j)[c].depth = Combo(i)[c].depth
                          /\ BucketCost(c, Combo(j)[c]) = BucketCost(c, Combo(i)[c])
    BY <1>1, <1>3, <1>4 DEF d
  <1>7. ShapeOf(j) = ShapeOf(i)
    BY <1>6 DEF ShapeOf
  <1>8. [c \in Bucket |-> BucketCost(c, Combo(j)[c])] = [c \in Bucket |-> BucketCost(c, Combo(i)[c])]
    BY <1>6
  <1>9. CycleCost(j) = CycleCost(i)
    BY <1>8 DEF CycleCost
  <1> QED
    BY <1>4, <1>5, <1>7, <1>9

\* Candidates of one shape have one objective, whatever it is.
SameShape == \A i, j \in Candidate : Shape[i] = Shape[j] => objective[i] = objective[j]

\* Scanning the mappings of D002, with any number of buckets, any horizons and
\* any depths: the scan never keeps a branched bucket at a width above 2
\* (d002.py, the order of _bucket_options and the strict comparisons).
THEOREM KeepsNarrowestWidth ==
  ASSUME Count = MCCount, Shape = MCShape, Cost = MCCost
  PROVE  ScanSpec => []NarrowestWidth
<1>1. ScanInit => SameShape
  <2> SUFFICES ASSUME ScanInit PROVE SameShape
    OBVIOUS
  <2>1. PICK f \in [{Shape[i] : i \in Candidate} -> Objectives] :
          objective = [i \in Candidate |-> f[Shape[i]]]
    BY DEF ScanInit
  <2> QED
    BY <2>1 DEF SameShape
<1>2. SameShape /\ [ScanNext]_scanVars => SameShape'
  BY DEF SameShape, ScanNext, Consider, scanVars
<1>3. ScanTypeOK /\ DeclaredTieBreak /\ SameShape => NarrowestWidth
  <2> SUFFICES ASSUME ScanTypeOK, DeclaredTieBreak, SameShape, best # NoBest, Separated,
                      NEW b \in Bucket, Branched(b)
               PROVE  Selected[b].width = 2
    BY DEF NarrowestWidth
  <2>1. best \in Nat \ {0} /\ best < next /\ next \in 1..(Count + 1) /\ Count \in Nat
    BY ScanAssumption DEF ScanTypeOK, NoBest
  <2> SUFFICES ASSUME Combo(best)[b].width \notin {1, 2} PROVE FALSE
    BY DEF Branched, Selected
  <2>2. PICK j \in Nat \ {0} : /\ j < best
                               /\ ShapeOf(j) = ShapeOf(best) /\ CycleCost(j) = CycleCost(best)
    BY <2>1, EarlierTwin
  <2>3. j \in Candidate /\ best \in Candidate /\ j \in 1..(next - 1) /\ Candidate = 1..Candidates
    BY <2>1, <2>2 DEF Candidate, MCCount
  <2>4. Shape[j] = Shape[best] /\ Cost[j] = Cost[best]
    BY <2>2, <2>3 DEF MCShape, MCCost
  <2>5. objective[j] = objective[best] /\ objective[j] \in Int /\ Cost[j] \in Int
    BY <2>3, <2>4, ScanAssumption DEF SameShape, ScanTypeOK, Candidate
  <2>6. Before(best, j)
    BY <2>3 DEF DeclaredTieBreak
  <2> QED
    BY <2>1, <2>2, <2>4, <2>5, <2>6 DEF Before
<1> QED
  BY <1>1, <1>2, <1>3, ScanTypeCorrect, SelectsByDeclaredTieBreak, PTL DEF ScanSpec

-----------------------------------------------------------------------------
(* From calibration to test *)

\* A selection as it was hashed, by a calibration that published it or by
\* hand, or none.
Unedited(s) == s = NoSelection \/ (HashMatches(s) /\ (s.byHand \/ s \in frozen))

\* A package tells of an unedited selection and of its widths, and of an
\* oracle that agreed wherever a claim passes.
Sound(k) ==
  /\ Unedited(k.used)
  /\ k.used # NoSelection => /\ k.parent = k.used.mapping
                             /\ k.verdict.adaptivity = "pass" => k.used.mapping \notin Collapsed
  /\ "pass" \in {k.verdict.efficiency, k.verdict.adaptivity} => k.mismatches = 0

FrozenInv == \A s \in frozen : HashMatches(s)

FileInv ==
  \A p \in Path :
    LET s == package[p].selection
    IN s # NoSelection => s.byHand \/ [s EXCEPT !.mapping = s.sha256] \in frozen

HeldInv == \A r \in Invocation : Unedited(held[r])

ScoredInv ==
  \A r \in Invocation :
    /\ scored[r].mismatches <= scored[r].problems
    /\ scored[r].oracleOk => scored[r].mismatches = 0

ResultInv ==
  \A r \in Invocation :
    Sound(outcome[r]) /\ (outcome[r].selection # NoSelection => HashMatches(outcome[r].selection))

PackageInv == \A p \in Path : Sound(package[p])

SplitInv ==
  /\ \A r \in Invocation : ~SplitOverlaps(call[r].seeds)
  /\ \A p \in Path : ~SplitOverlaps(package[p].seeds)

LineageInv ==
  /\ FrozenInv /\ FileInv /\ HeldInv /\ ScoredInv /\ ResultInv /\ PackageInv /\ SplitInv

TypeInv == LineageTypeOK /\ ScoredInv

IInv == LineageTypeOK /\ LineageInv

-----------------------------------------------------------------------------
(* What the operators of the model return *)

LEMMA NoSelectionType == NoSelection \in AnySelection
BY DEF AnySelection

LEMMA SeedRowsType ==
  ASSUME NEW seeds \in SeedList, NEW kind
  PROVE  Rows(kind, seeds) \in SUBSET Int
<1>1. \A k \in DOMAIN seeds : seeds[k].rows \subseteq Int
  BY LineageAssumption DEF SeedList
<1> QED
  BY <1>1 DEF Rows, FirstNamed, Named

LEMMA NoSeedsDisjoint == ~SplitOverlaps(<<>>)
BY DEF SplitOverlaps, Rows, FirstNamed, Named

LEMMA FrozenOnType ==
  ASSUME NEW m \in Mapping, NEW rows \in SUBSET Int
  PROVE  /\ FrozenOn(m, rows) \in Selection
         /\ FrozenOn(m, rows) \in AnySelection
         /\ FrozenOn(m, rows) # NoSelection
         /\ HashMatches(FrozenOn(m, rows))
BY LineageAssumption DEF FrozenOn, Selection, AnySelection, NoSelection, HashMatches

LEMMA DecisionType ==
  ASSUME NEW ok \in BOOLEAN, NEW utility \in BOOLEAN, NEW m
  PROVE  /\ Decision(ok, utility, m) \in
              [efficiency : Claim, adaptivity : Claim, retained : BOOLEAN]
         /\ "pass" \in {Decision(ok, utility, m).efficiency,
                        Decision(ok, utility, m).adaptivity} => ok
BY DEF Decision, Claim

LEMMA NoVerdictType ==
  /\ NoVerdict \in [efficiency : Claim, adaptivity : Claim, retained : BOOLEAN]
  /\ "pass" \notin {NoVerdict.efficiency, NoVerdict.adaptivity}
BY DEF NoVerdict, Claim

LEMMA PackageType ==
  ASSUME NEW status \in {"absent", "ok", "driver_failed", "invalid"},
         NEW selection \in AnySelection, NEW used \in AnySelection,
         NEW verdict \in [efficiency : Claim, adaptivity : Claim, retained : BOOLEAN],
         NEW mismatches \in 0..Problems
  PROVE  Package(status, selection, used, verdict, mismatches) \in AnyPackage
<1>1. used.sha256 \in Mapping \cup {NoMapping}
  BY DEF AnySelection, Selection, NoSelection
<1>2. <<>> \in SeedList
  BY DEF SeedList
<1> QED
  BY <1>1, <1>2 DEF Package, AnyPackage

LEMMA EmptyPackageType ==
  /\ Absent \in AnyPackage /\ DriverFailed \in AnyPackage /\ Invalid \in AnyPackage
  /\ 0 \in 0..Problems
<1>1. 0 \in 0..Problems
  BY LineageAssumption
<1> QED
  BY <1>1, PackageType, NoSelectionType, NoVerdictType DEF Absent, DriverFailed, Invalid

-----------------------------------------------------------------------------
(* Types *)

LEMMA InitTypeInv == LineageInit => TypeInv
<1> SUFFICES ASSUME LineageInit PROVE TypeInv
  OBVIOUS
<1>1. Absent \in AnyPackage /\ 0 \in 0..Problems
  BY EmptyPackageType
<1>2. <<>> \in SeedList
  BY DEF SeedList
<1>3. \A r \in Invocation : NoCall \in [phase : {"calibration", "test", "none"}, seeds : SeedList,
                                 from : Path \cup {NoPath}, out : Path \cup {NoPath}]
  BY <1>2 DEF NoCall
<1>4. LineageTypeOK
  BY <1>1, <1>3, NoSelectionType DEF LineageInit, LineageTypeOK, NotScored
<1>5. ScoredInv
  BY DEF LineageInit, ScoredInv, NotScored
<1> QED
  BY <1>4, <1>5 DEF TypeInv

\* What Deliver(r, p) does to the types.
LEMMA DeliverType ==
  ASSUME LineageTypeOK, NEW r \in Invocation, NEW k \in AnyPackage, Deliver(r, k)
  PROVE  /\ outcome' \in [Invocation -> AnyPackage]
         /\ pc' \in [Invocation -> {"new", "calibrate", "load", "score", "publish", "ended"}]
BY DEF LineageTypeOK, Deliver, Goto

\* What an edit leaves: other widths under the old hash, or a whole selection
\* written by hand.
LEMMA EditedFile ==
  ASSUME LineageTypeOK, NEW p \in Path, EditSelection(p)
  PROVE  \E k \in Selection :
           /\ package' = [package EXCEPT ![p].selection = k]
           /\ \/ \E m \in Mapping : k = [package[p].selection EXCEPT !.mapping = m]
              \/ k.byHand
<1>1. package[p].selection \in Selection /\ package[p] \in AnyPackage
  BY DEF EditSelection, LineageTypeOK, AnyPackage, AnySelection
<1>2. PICK m \in Mapping :
        \/ package' = [package EXCEPT ![p].selection.mapping = m]
        \/ package' = [package EXCEPT ![p].selection =
                         [mapping |-> m, sha256 |-> m, origin |-> {}, byHand |-> TRUE]]
  BY DEF EditSelection
<1>3. CASE package' = [package EXCEPT ![p].selection.mapping = m]
  <2>1. [package[p].selection EXCEPT !.mapping = m] \in Selection
    BY <1>1 DEF Selection
  <2>2. package' = [package EXCEPT ![p].selection = [package[p].selection EXCEPT !.mapping = m]]
    BY <1>3
  <2> QED
    BY <2>1, <2>2
<1>4. CASE package' = [package EXCEPT ![p].selection =
                         [mapping |-> m, sha256 |-> m, origin |-> {}, byHand |-> TRUE]]
  <2>1. [mapping |-> m, sha256 |-> m, origin |-> {}, byHand |-> TRUE] \in Selection
    BY DEF Selection
  <2> QED
    BY <1>4, <2>1
<1> QED
  BY <1>2, <1>3, <1>4

LEMMA NextTypeInv == TypeInv /\ [LineageNext]_lineageVars => TypeInv'
<1> SUFFICES ASSUME TypeInv, [LineageNext]_lineageVars PROVE TypeInv'
  OBVIOUS
<1> USE DEF TypeInv
<1>1. ASSUME NEW r \in Invocation, Start(r) PROVE TypeInv'
  <2>1. PICK c \in Calls, p \in Path :
          IF package[p] # Absent \/ SplitOverlaps(c.seeds)
            THEN Goto(r, "ended") /\ UNCHANGED call
            ELSE /\ Goto(r, IF c.phase = "test" THEN "load" ELSE "calibrate")
                 /\ call' = [call EXCEPT ![r] = [phase |-> c.phase, seeds |-> c.seeds,
                                                 from |-> c.from, out |-> p]]
    BY <1>1 DEF Start
  <2>2. [phase |-> c.phase, seeds |-> c.seeds, from |-> c.from, out |-> p] \in
          [phase : {"calibration", "test", "none"}, seeds : SeedList,
           from : Path \cup {NoPath}, out : Path \cup {NoPath}]
    BY LineageAssumption DEF SeedList
  <2>3. UNCHANGED <<held, scored, outcome, package, frozen>>
    BY <1>1 DEF Start
  <2>4. /\ call' \in [Invocation -> [phase : {"calibration", "test", "none"}, seeds : SeedList,
                              from : Path \cup {NoPath}, out : Path \cup {NoPath}]]
        /\ \E l \in {"load", "calibrate", "ended"} : pc' = [pc EXCEPT ![r] = l]
    <3>1. CASE package[p] # Absent \/ SplitOverlaps(c.seeds)
      BY <2>1, <3>1 DEF LineageTypeOK, Goto
    <3>2. CASE ~(package[p] # Absent \/ SplitOverlaps(c.seeds))
      BY <2>1, <2>2, <3>2 DEF LineageTypeOK, Goto
    <3> QED
      BY <3>1, <3>2
  <2> QED
    BY <2>3, <2>4 DEF LineageTypeOK, ScoredInv
<1>2. ASSUME NEW r \in Invocation, Calibrate(r) PROVE TypeInv'
  <2>1. Rows("calibration", call[r].seeds) \in SUBSET Int
    BY SeedRowsType DEF LineageTypeOK
  <2>2. PICK k \in AnyPackage : Deliver(r, k)
    <3>1. ASSUME NEW m \in Mapping
          PROVE  Package("ok", FrozenOn(m, Rows("calibration", call[r].seeds)),
                         NoSelection, NoVerdict, 0) \in AnyPackage
      BY <2>1, PackageType, FrozenOnType, NoSelectionType, NoVerdictType, EmptyPackageType
    <3> QED
      BY <1>2, <3>1, EmptyPackageType DEF Calibrate
  <2> QED
    BY <1>2, <2>2, DeliverType DEF Calibrate, LineageTypeOK, ScoredInv
<1>3. ASSUME NEW r \in Invocation, LoadSelection(r) PROVE TypeInv'
  <2>1. UNCHANGED <<call, scored, package, frozen>>
    BY <1>3 DEF LoadSelection
  <2>2. CASE Deliver(r, DriverFailed) /\ UNCHANGED held
    BY <2>1, <2>2, DeliverType, EmptyPackageType DEF LineageTypeOK, ScoredInv
  <2>3. CASE \E file \in AnySelection :
               held' = [held EXCEPT ![r] = file] /\ Goto(r, "score") /\ UNCHANGED outcome
    BY <2>1, <2>3 DEF LineageTypeOK, ScoredInv, Goto
  <2>4. call[r].from \in Path \cup {NoPath}
    BY DEF LineageTypeOK
  <2>5. call[r].from # NoPath => package[call[r].from].selection \in AnySelection
    BY <2>4 DEF LineageTypeOK, AnyPackage
  <2> QED
    BY <1>3, <2>2, <2>3, <2>5, NoSelectionType DEF LoadSelection
<1>4. ASSUME NEW r \in Invocation, ScoreProblem(r) PROVE TypeInv'
  <2>1. PICK ok \in BOOLEAN :
          scored' = [scored EXCEPT ![r] =
            [problems |-> scored[r].problems + 1, oracleOk |-> scored[r].oracleOk /\ ok,
             mismatches |-> IF ok THEN scored[r].mismatches ELSE scored[r].mismatches + 1]]
    BY <1>4 DEF ScoreProblem
  <2>2. /\ scored[r].problems \in 0..Problems /\ scored[r].problems < Problems
        /\ scored[r].mismatches \in 0..Problems
        /\ scored[r].mismatches <= scored[r].problems
        /\ scored[r].oracleOk \in BOOLEAN
        /\ scored[r].oracleOk => scored[r].mismatches = 0
        /\ Problems \in Nat
    BY <1>4, LineageAssumption DEF LineageTypeOK, ScoredInv, ScoreProblem
  <2>3. DEFINE new == [problems |-> scored[r].problems + 1, oracleOk |-> scored[r].oracleOk /\ ok,
                       mismatches |-> IF ok THEN scored[r].mismatches ELSE scored[r].mismatches + 1]
  <2>4. /\ new \in [problems : 0..Problems, oracleOk : BOOLEAN, mismatches : 0..Problems]
        /\ new.mismatches <= new.problems
        /\ new.oracleOk => new.mismatches = 0
    BY <2>2
  <2> HIDE DEF new
  <2>5. scored' = [scored EXCEPT ![r] = new]
    BY <2>1 DEF new
  <2> QED
    BY <1>4, <2>4, <2>5 DEF ScoreProblem, LineageTypeOK, ScoredInv
<1>5. ASSUME NEW r \in Invocation, OracleFails(r) PROVE TypeInv'
  <2>1. PICK k \in AnyPackage : Deliver(r, k)
    BY <1>5, EmptyPackageType DEF OracleFails
  <2> QED
    BY <1>5, <2>1, DeliverType DEF OracleFails, LineageTypeOK, ScoredInv
<1>6. ASSUME NEW r \in Invocation, Decide(r) PROVE TypeInv'
  <2>1. PICK utilityPass \in BOOLEAN :
          Deliver(r, Package("ok", NoSelection, held[r],
                             Decision(scored[r].oracleOk, utilityPass, held[r].mapping),
                             scored[r].mismatches))
    BY <1>6 DEF Decide
  <2>2. held[r] \in AnySelection /\ scored[r].oracleOk \in BOOLEAN
        /\ scored[r].mismatches \in 0..Problems
    BY DEF LineageTypeOK
  <2>3. Package("ok", NoSelection, held[r],
                Decision(scored[r].oracleOk, utilityPass, held[r].mapping),
                scored[r].mismatches) \in AnyPackage
    BY <2>2, PackageType, DecisionType, NoSelectionType
  <2> QED
    BY <1>6, <2>1, <2>3, DeliverType DEF Decide, LineageTypeOK, ScoredInv
<1>7. ASSUME NEW r \in Invocation, AppearAtPath(r) PROVE TypeInv'
  <2>1. /\ [outcome[r] EXCEPT !.seeds = call[r].seeds] \in AnyPackage
        /\ {outcome[r].selection} \ {NoSelection} \subseteq Selection
    <3>1. outcome[r] \in AnyPackage /\ call[r].seeds \in SeedList
      BY DEF LineageTypeOK
    <3>2. [outcome[r] EXCEPT !.seeds = call[r].seeds] \in AnyPackage
      BY <3>1 DEF AnyPackage
    <3>3. outcome[r].selection \in AnySelection
      BY <3>1 DEF AnyPackage
    <3> QED
      BY <3>2, <3>3 DEF AnySelection
  <2>2. package' \in [Path -> AnyPackage] /\ frozen' \subseteq Selection
    BY <1>7, <2>1 DEF AppearAtPath, LineageTypeOK
  <2>3. outcome' \in [Invocation -> AnyPackage]
    BY <1>7, EmptyPackageType DEF AppearAtPath, LineageTypeOK
  <2>4. call' \in [Invocation -> [phase : {"calibration", "test", "none"}, seeds : SeedList,
                           from : Path \cup {NoPath}, out : Path \cup {NoPath}]]
    BY <1>7 DEF AppearAtPath, LineageTypeOK, NoCall, SeedList
  <2>5. /\ scored' \in [Invocation -> [problems : 0..Problems, oracleOk : BOOLEAN,
                                mismatches : 0..Problems]]
        /\ ScoredInv'
    BY <1>7, EmptyPackageType DEF AppearAtPath, LineageTypeOK, NotScored, ScoredInv
  <2> QED
    BY <1>7, <2>2, <2>3, <2>4, <2>5, NoSelectionType DEF AppearAtPath, LineageTypeOK, Goto
<1>8. ASSUME NEW p \in Path, EditSelection(p) PROVE TypeInv'
  <2>1. PICK k \in Selection : package' = [package EXCEPT ![p].selection = k]
    BY <1>8, EditedFile
  <2>2. package[p] \in AnyPackage
    BY DEF LineageTypeOK
  <2>3. [package[p] EXCEPT !.selection = k] \in AnyPackage
    BY <2>2 DEF AnyPackage, AnySelection
  <2>4. package' \in [Path -> AnyPackage]
    BY <2>1, <2>3 DEF LineageTypeOK
  <2> QED
    BY <1>8, <2>4 DEF EditSelection, LineageTypeOK, ScoredInv
<1>9. ASSUME NEW p \in Path, Remove(p) PROVE TypeInv'
  BY <1>9, EmptyPackageType DEF Remove, LineageTypeOK, ScoredInv
<1>10. ASSUME UNCHANGED lineageVars PROVE TypeInv'
  BY <1>10 DEF lineageVars, LineageTypeOK, ScoredInv
<1> QED
  BY <1>1, <1>2, <1>3, <1>4, <1>5, <1>6, <1>7, <1>8, <1>9, <1>10 DEF LineageNext

\* Every reachable state of overlapping calibrations and tests (d002.py,
\* _calibration and _test), with packages edited and removed at any moment,
\* is well typed.
THEOREM LineageTypeCorrect == LineageSpec => []LineageTypeOK
<1>1. LineageSpec => []TypeInv
  BY InitTypeInv, NextTypeInv, PTL DEF LineageSpec
<1> QED
  BY <1>1, PTL DEF TypeInv

-----------------------------------------------------------------------------
(* The lineage of a selection *)

\* The fields of a package as a driver builds it.
LEMMA PackageFields ==
  ASSUME NEW status, NEW selection, NEW used, NEW verdict, NEW mismatches
  PROVE  LET k == Package(status, selection, used, verdict, mismatches)
         IN /\ k.selection = selection /\ k.used = used /\ k.parent = used.sha256
            /\ k.verdict = verdict /\ k.mismatches = mismatches /\ k.seeds = <<>>
BY DEF Package

\* A package without a selection and without a verdict says nothing false.
LEMMA SilentPackage ==
  ASSUME NEW k \in {Absent, DriverFailed, Invalid}
  PROVE  Sound(k) /\ k.selection = NoSelection /\ k.seeds = <<>>
<1>1. k.used = NoSelection /\ k.selection = NoSelection /\ k.seeds = <<>> /\ k.verdict = NoVerdict
  BY PackageFields DEF Absent, DriverFailed, Invalid
<1> QED
  BY <1>1, NoVerdictType DEF Sound, Unedited

LEMMA InitLineageInv == LineageInit => LineageInv
<1> SUFFICES ASSUME LineageInit PROVE LineageInv
  OBVIOUS
<1>1. Sound(Absent) /\ Absent.selection = NoSelection /\ Absent.seeds = <<>>
  BY SilentPackage
<1>2. FrozenInv /\ FileInv /\ HeldInv /\ PackageInv /\ ResultInv
  BY <1>1 DEF LineageInit, FrozenInv, FileInv, HeldInv, PackageInv, ResultInv, Unedited
<1>3. SplitInv
  BY <1>1, NoSeedsDisjoint DEF LineageInit, SplitInv, NoCall
<1>4. ScoredInv
  BY InitTypeInv DEF TypeInv
<1> QED
  BY <1>2, <1>3, <1>4 DEF LineageInv

\* A driver that hands over a sound package, and leaves the rest alone,
\* keeps the lineage.
LEMMA DeliverLineage ==
  ASSUME LineageTypeOK, LineageInv, NEW r \in Invocation, NEW k, Deliver(r, k), Sound(k),
         k.selection # NoSelection => HashMatches(k.selection),
         UNCHANGED <<call, scored, package, frozen>>,
         UNCHANGED held
  PROVE  LineageInv'
<1>1. ResultInv'
  <2>1. outcome' = [outcome EXCEPT ![r] = k]
    BY DEF Deliver
  <2> QED
    BY <2>1 DEF LineageInv, ResultInv, LineageTypeOK, Sound, Unedited
<1>2. FrozenInv' /\ FileInv' /\ HeldInv' /\ ScoredInv' /\ PackageInv' /\ SplitInv'
  BY DEF LineageInv, FrozenInv, FileInv, HeldInv, ScoredInv, PackageInv, SplitInv,
         Sound, Unedited
<1> QED
  BY <1>1, <1>2 DEF LineageInv

LEMMA StartLineage ==
  ASSUME LineageTypeOK, LineageInv, NEW r \in Invocation, Start(r)
  PROVE  LineageInv'
<1>1. UNCHANGED <<held, scored, outcome, package, frozen>>
  BY DEF Start
<1>2. \A q \in Invocation : ~SplitOverlaps(call'[q].seeds)
  <2>1. PICK c \in Calls, p \in Path :
          IF package[p] # Absent \/ SplitOverlaps(c.seeds)
            THEN UNCHANGED call
            ELSE call' = [call EXCEPT ![r] = [phase |-> c.phase, seeds |-> c.seeds,
                                              from |-> c.from, out |-> p]]
    BY DEF Start
  <2>2. CASE UNCHANGED call
    BY <2>2 DEF LineageInv, SplitInv
  <2>3. CASE /\ ~SplitOverlaps(c.seeds)
             /\ call' = [call EXCEPT ![r] = [phase |-> c.phase, seeds |-> c.seeds,
                                             from |-> c.from, out |-> p]]
    <3>1. \A q \in Invocation : call'[q].seeds = IF q = r THEN c.seeds ELSE call[q].seeds
      BY <2>3 DEF LineageTypeOK
    <3> QED
      BY <2>3, <3>1 DEF LineageInv, SplitInv
  <2> QED
    BY <2>1, <2>2, <2>3
<1> QED
  BY <1>1, <1>2 DEF LineageInv, FrozenInv, FileInv, HeldInv, ScoredInv, ResultInv, PackageInv,
                    SplitInv, Sound, Unedited

LEMMA CalibrateLineage ==
  ASSUME LineageTypeOK, LineageInv, NEW r \in Invocation, Calibrate(r)
  PROVE  LineageInv'
<1>1. UNCHANGED <<call, scored, package, frozen>> /\ UNCHANGED held
  BY DEF Calibrate
<1>2. CASE Deliver(r, DriverFailed)
  BY <1>1, <1>2, SilentPackage, DeliverLineage
<1>3. CASE \E m \in Mapping :
             Deliver(r, Package("ok", FrozenOn(m, Rows("calibration", call[r].seeds)),
                                NoSelection, NoVerdict, 0))
  <2>1. PICK m \in Mapping :
          Deliver(r, Package("ok", FrozenOn(m, Rows("calibration", call[r].seeds)),
                             NoSelection, NoVerdict, 0))
    BY <1>3
  <2>2. PICK k : k = Package("ok", FrozenOn(m, Rows("calibration", call[r].seeds)),
                             NoSelection, NoVerdict, 0)
    OBVIOUS
  <2>3. /\ k.selection = FrozenOn(m, Rows("calibration", call[r].seeds))
        /\ k.used = NoSelection /\ k.verdict = NoVerdict
    BY <2>2, PackageFields
  <2>4. Sound(k) /\ HashMatches(k.selection)
    BY <2>3, NoVerdictType DEF Sound, Unedited, FrozenOn, HashMatches
  <2> QED
    BY <1>1, <2>1, <2>2, <2>4, DeliverLineage
<1> QED
  BY <1>2, <1>3 DEF Calibrate

\* A file whose hash matches is as it was hashed: nobody edited it since.
LEMMA LoadLineage ==
  ASSUME LineageTypeOK, LineageInv, NEW r \in Invocation, LoadSelection(r)
  PROVE  LineageInv'
<1>1. UNCHANGED <<call, scored, package, frozen>>
  BY DEF LoadSelection
<1>2. CASE Deliver(r, DriverFailed) /\ UNCHANGED held
  BY <1>1, <1>2, SilentPackage, DeliverLineage
<1>3. CASE \E p \in Path : /\ package[p].selection # NoSelection
                           /\ HashMatches(package[p].selection)
                           /\ held' = [held EXCEPT ![r] = package[p].selection]
                           /\ UNCHANGED outcome
  <2>1. PICK p \in Path : /\ package[p].selection # NoSelection
                          /\ HashMatches(package[p].selection)
                          /\ held' = [held EXCEPT ![r] = package[p].selection]
                          /\ UNCHANGED outcome
    BY <1>3
  <2>2. package[p].selection \in Selection
    BY <2>1 DEF LineageTypeOK, AnyPackage, AnySelection
  <2>3. [package[p].selection EXCEPT !.mapping = package[p].selection.sha256]
          = package[p].selection
    BY <2>1, <2>2 DEF Selection, HashMatches
  <2>4. Unedited(package[p].selection)
    BY <2>1, <2>3 DEF LineageInv, FileInv, Unedited
  <2>5. HeldInv'
    BY <1>1, <2>1, <2>4 DEF LineageInv, HeldInv, LineageTypeOK, Unedited
  <2> QED
    BY <1>1, <2>1, <2>5 DEF LineageInv, FrozenInv, FileInv, ScoredInv, ResultInv, PackageInv,
                            SplitInv, Sound, Unedited
<1>4. call[r].from \in Path \cup {NoPath}
  BY DEF LineageTypeOK
<1> QED
  BY <1>2, <1>3, <1>4 DEF LoadSelection

LEMMA DecideLineage ==
  ASSUME LineageTypeOK, LineageInv, NEW r \in Invocation, Decide(r)
  PROVE  LineageInv'
<1>1. UNCHANGED <<call, scored, package, frozen>> /\ UNCHANGED held
  BY DEF Decide
<1>2. PICK utilityPass \in BOOLEAN :
        Deliver(r, Package("ok", NoSelection, held[r],
                           Decision(scored[r].oracleOk, utilityPass, held[r].mapping),
                           scored[r].mismatches))
  BY DEF Decide
<1>3. PICK k : k = Package("ok", NoSelection, held[r],
                           Decision(scored[r].oracleOk, utilityPass, held[r].mapping),
                           scored[r].mismatches)
  OBVIOUS
<1>4. /\ k.selection = NoSelection /\ k.used = held[r] /\ k.parent = held[r].sha256
      /\ k.verdict = Decision(scored[r].oracleOk, utilityPass, held[r].mapping)
      /\ k.mismatches = scored[r].mismatches
  BY <1>3, PackageFields
<1>5. Unedited(held[r]) /\ (held[r] # NoSelection => held[r].sha256 = held[r].mapping)
  BY DEF LineageInv, HeldInv, FrozenInv, Unedited, HashMatches
<1>6. "pass" \in {k.verdict.efficiency, k.verdict.adaptivity} => k.mismatches = 0
  <2>1. scored[r].oracleOk \in BOOLEAN
    BY DEF LineageTypeOK
  <2>2. "pass" \in {k.verdict.efficiency, k.verdict.adaptivity} => scored[r].oracleOk
    BY <1>4, <2>1, DecisionType
  <2> QED
    BY <1>4, <2>2 DEF LineageInv, ScoredInv
<1>7. k.verdict.adaptivity = "pass" => held[r].mapping \notin Collapsed
  <2>1. Decision(scored[r].oracleOk, utilityPass, held[r].mapping).adaptivity = "pass"
          => held[r].mapping \notin Collapsed
    BY DEF Decision
  <2> QED
    BY <1>4, <2>1
<1>8. Sound(k)
  BY <1>4, <1>5, <1>6, <1>7 DEF Sound
<1> QED
  BY <1>1, <1>2, <1>3, <1>4, <1>8, DeliverLineage

LEMMA PublishLineage ==
  ASSUME LineageTypeOK, LineageInv, NEW r \in Invocation, AppearAtPath(r)
  PROVE  LineageInv'
<1>1. frozen \subseteq frozen' /\ frozen' \subseteq frozen \cup ({outcome[r].selection} \ {NoSelection})
  BY DEF AppearAtPath
<1>2. \A s : Unedited(s) => Unedited(s)'
  BY <1>1 DEF Unedited
<1>3. /\ Sound(outcome[r])
      /\ outcome[r].selection # NoSelection => HashMatches(outcome[r].selection)
      /\ outcome[r].selection \in AnySelection
      /\ ~SplitOverlaps(call[r].seeds)
  BY DEF LineageInv, ResultInv, SplitInv, LineageTypeOK, AnyPackage
<1>4. FrozenInv'
  BY <1>1, <1>3 DEF LineageInv, FrozenInv, HashMatches
<1>5. HeldInv'
  BY <1>2 DEF AppearAtPath, LineageInv, HeldInv, LineageTypeOK, Unedited
<1>6. ResultInv'
  <2>1. \A q \in Invocation : outcome'[q] = IF q = r THEN Absent ELSE outcome[q]
    BY DEF AppearAtPath, LineageTypeOK
  <2>2. Sound(Absent) /\ Absent.selection = NoSelection
    BY SilentPackage
  <2>3. \A k : Sound(k) => Sound(k)'
    BY <1>2 DEF Sound
  <2> QED
    BY <2>1, <2>2, <2>3 DEF LineageInv, ResultInv, Sound, Unedited
<1>7. ScoredInv'
  BY DEF AppearAtPath, LineageInv, ScoredInv, NotScored, LineageTypeOK
<1>8. \A q \in Invocation : ~SplitOverlaps(call'[q].seeds)
  <2>1. \A q \in Invocation : call'[q].seeds = IF q = r THEN <<>> ELSE call[q].seeds
    BY DEF AppearAtPath, LineageTypeOK, NoCall
  <2> QED
    BY <2>1, NoSeedsDisjoint DEF LineageInv, SplitInv
<1>9. CASE UNCHANGED package
  <2>1. FileInv'
    BY <1>1, <1>9 DEF LineageInv, FileInv
  <2>2. PackageInv'
    BY <1>2, <1>9 DEF LineageInv, PackageInv, Sound
  <2>3. SplitInv'
    BY <1>8, <1>9 DEF LineageInv, SplitInv
  <2> QED
    BY <1>4, <1>5, <1>6, <1>7, <2>1, <2>2, <2>3 DEF LineageInv
<1>10. CASE \E p \in Path :
              /\ package' = [package EXCEPT ![p] = [outcome[r] EXCEPT !.seeds = call[r].seeds]]
              /\ frozen' = frozen \cup ({outcome[r].selection} \ {NoSelection})
  <2>1. PICK p \in Path :
          /\ package' = [package EXCEPT ![p] = [outcome[r] EXCEPT !.seeds = call[r].seeds]]
          /\ frozen' = frozen \cup ({outcome[r].selection} \ {NoSelection})
    BY <1>10
  <2>2. PICK k : k = [outcome[r] EXCEPT !.seeds = call[r].seeds]
    OBVIOUS
  <2>3. outcome[r] \in AnyPackage
    BY DEF LineageTypeOK
  <2>4. /\ k.selection = outcome[r].selection /\ k.used = outcome[r].used
        /\ k.parent = outcome[r].parent /\ k.verdict = outcome[r].verdict
        /\ k.mismatches = outcome[r].mismatches /\ k.seeds = call[r].seeds
    BY <2>2, <2>3 DEF AnyPackage
  <2>5. \A q \in Path : package'[q] = IF q = p THEN k ELSE package[q]
    BY <2>1, <2>2 DEF LineageTypeOK
  <2>6. FileInv'
    <3>1. k.selection # NoSelection => [k.selection EXCEPT !.mapping = k.selection.sha256] \in frozen'
      <4>1. SUFFICES ASSUME k.selection # NoSelection
                     PROVE  [k.selection EXCEPT !.mapping = k.selection.sha256] = k.selection
        BY <2>1, <2>4
      <4> QED
        BY <1>3, <2>4, <4>1 DEF AnySelection, Selection, HashMatches
    <3>2. ASSUME NEW q \in Path, package'[q].selection # NoSelection
          PROVE  \/ package'[q].selection.byHand
                 \/ [package'[q].selection EXCEPT !.mapping = package'[q].selection.sha256] \in frozen'
      BY <1>1, <2>5, <3>1, <3>2 DEF LineageInv, FileInv
    <3> QED
      BY <3>2 DEF FileInv
  <2>7. PackageInv'
    BY <1>2, <1>3, <2>4, <2>5 DEF LineageInv, PackageInv, Sound
  <2>8. SplitInv'
    BY <1>3, <1>8, <2>4, <2>5 DEF LineageInv, SplitInv
  <2> QED
    BY <1>4, <1>5, <1>6, <1>7, <2>6, <2>7, <2>8 DEF LineageInv
<1>11. CASE call[r].out \in Path
  BY <1>9, <1>10, <1>11 DEF AppearAtPath
<1>12. CASE call[r].out \notin Path
  <2>1. UNCHANGED package
    BY <1>12 DEF AppearAtPath, LineageTypeOK
  <2> QED
    BY <1>9, <2>1
<1> QED
  BY <1>11, <1>12

LEMMA EditLineage ==
  ASSUME LineageTypeOK, LineageInv, NEW p \in Path, EditSelection(p)
  PROVE  LineageInv'
<1>1. PICK new \in Selection :
        /\ package' = [package EXCEPT ![p].selection = new]
        /\ \/ \E m \in Mapping : new = [package[p].selection EXCEPT !.mapping = m]
           \/ new.byHand
  BY EditedFile
<1>2. UNCHANGED <<pc, call, held, scored, outcome, frozen>>
  BY DEF EditSelection
<1>3. package[p] \in AnyPackage /\ package[p].selection \in Selection
  BY DEF EditSelection, LineageTypeOK, AnyPackage, AnySelection
<1>4. PICK k : k = [package[p] EXCEPT !.selection = new]
  OBVIOUS
<1>5. /\ k.selection = new
      /\ k.used = package[p].used /\ k.parent = package[p].parent
      /\ k.verdict = package[p].verdict /\ k.mismatches = package[p].mismatches
      /\ k.seeds = package[p].seeds
  BY <1>3, <1>4 DEF AnyPackage
<1>6. \A q \in Path : package'[q] = IF q = p THEN k ELSE package[q]
  BY <1>1, <1>4 DEF LineageTypeOK
<1>7. FileInv'
  <2>1. new.byHand \/ [new EXCEPT !.mapping = new.sha256] \in frozen
    <3>1. ASSUME NEW m \in Mapping, new = [package[p].selection EXCEPT !.mapping = m]
          PROVE  new.byHand \/ [new EXCEPT !.mapping = new.sha256] \in frozen
      <4>1. /\ [new EXCEPT !.mapping = new.sha256]
                 = [package[p].selection EXCEPT !.mapping = package[p].selection.sha256]
            /\ new.byHand = package[p].selection.byHand
        BY <1>3, <3>1 DEF Selection
      <4>2. package[p].selection # NoSelection
        BY DEF EditSelection
      <4> QED
        BY <4>1, <4>2 DEF LineageInv, FileInv
    <3> QED
      BY <1>1, <3>1
  <2> QED
    BY <1>2, <1>5, <1>6, <2>1 DEF LineageInv, FileInv
<1>8. PackageInv'
  BY <1>2, <1>5, <1>6 DEF LineageInv, PackageInv, Sound, Unedited
<1>9. SplitInv'
  BY <1>2, <1>5, <1>6 DEF LineageInv, SplitInv
<1>10. FrozenInv' /\ HeldInv' /\ ScoredInv' /\ ResultInv'
  BY <1>2 DEF LineageInv, FrozenInv, HeldInv, ScoredInv, ResultInv, Sound, Unedited
<1> QED
  BY <1>7, <1>8, <1>9, <1>10 DEF LineageInv

LEMMA RemoveLineage ==
  ASSUME LineageTypeOK, LineageInv, NEW p \in Path, Remove(p)
  PROVE  LineageInv'
<1>1. package' = [package EXCEPT ![p] = Absent] /\ UNCHANGED <<pc, call, held, scored, outcome, frozen>>
  BY DEF Remove
<1>2. \A q \in Path : package'[q] = IF q = p THEN Absent ELSE package[q]
  BY <1>1 DEF LineageTypeOK
<1>3. Sound(Absent) /\ Absent.selection = NoSelection /\ Absent.seeds = <<>>
  BY SilentPackage
<1>4. FileInv' /\ PackageInv'
  BY <1>1, <1>2, <1>3 DEF LineageInv, FileInv, PackageInv, Sound, Unedited
<1>5. SplitInv'
  BY <1>1, <1>2, <1>3, NoSeedsDisjoint DEF LineageInv, SplitInv
<1>6. FrozenInv' /\ HeldInv' /\ ScoredInv' /\ ResultInv'
  BY <1>1 DEF LineageInv, FrozenInv, HeldInv, ScoredInv, ResultInv, Sound, Unedited
<1> QED
  BY <1>4, <1>5, <1>6 DEF LineageInv

LEMMA NextLineageInv == IInv /\ [LineageNext]_lineageVars => IInv'
<1> SUFFICES ASSUME IInv, [LineageNext]_lineageVars PROVE IInv'
  OBVIOUS
<1> USE DEF IInv
<1>1. TypeInv'
  BY NextTypeInv DEF TypeInv, LineageInv
<1>2. LineageInv'
  <2>1. ASSUME NEW r \in Invocation, ScoreProblem(r) PROVE LineageInv'
    BY <1>1, <2>1 DEF ScoreProblem, TypeInv, LineageInv, FrozenInv, FileInv, HeldInv, ResultInv,
                      PackageInv, SplitInv, Sound, Unedited
  <2>2. ASSUME NEW r \in Invocation, OracleFails(r) PROVE LineageInv'
    <3>1. PICK k \in {DriverFailed, Invalid} : Deliver(r, k)
      BY <2>2 DEF OracleFails
    <3> QED
      BY <2>2, <3>1, SilentPackage, DeliverLineage DEF OracleFails
  <2>3. CASE UNCHANGED lineageVars
    BY <2>3 DEF lineageVars, LineageInv, FrozenInv, FileInv, HeldInv, ScoredInv, ResultInv, PackageInv,
                SplitInv, Sound, Unedited
  <2> QED
    BY <2>1, <2>2, <2>3, StartLineage, CalibrateLineage, LoadLineage, DecideLineage,
       PublishLineage, EditLineage, RemoveLineage DEF LineageNext
<1> QED
  BY <1>1, <1>2 DEF TypeInv

LEMMA LineageHolds == LineageSpec => []IInv
<1>1. LineageInit => IInv
  BY InitTypeInv, InitLineageInv DEF TypeInv, IInv
<1> QED
  BY <1>1, NextLineageInv, PTL DEF LineageSpec

\* Every published test scored with a selection as it was hashed last, by the
\* calibration that published it or by hand, records that selection's hash and
\* judges its widths (d002.py _test), whatever edits, rewritings, removals and
\* re-publications happened around it: never with one edited under its hash.
THEOREM ScoresAsHashed == LineageSpec => []ScoredAsHashed
<1>1. IInv => ScoredAsHashed
  BY DEF IInv, LineageInv, PackageInv, Sound, Unedited, ScoredAsHashed
<1> QED
  BY <1>1, LineageHolds, PTL

\* No published claim passes over an oracle that disagreed with the primary
\* target on a problem (d002.py _test, schema.py AuditDecision).
THEOREM PassesOnlyIfOraclesAgreed == LineageSpec => []OraclesAgreed
<1>1. IInv => OraclesAgreed
  BY DEF IInv, LineageInv, PackageInv, Sound, OraclesAgreed
<1> QED
  BY <1>1, LineageHolds, PTL

\* A test whose command line names the manifest its selection was calibrated
\* on scored none of its seeds (runner.py check_split_disjoint).
THEOREM SplitHeldOutIfNamed == LineageSpec => []HeldOutIfNamed
<1>1. IInv => HeldOutIfNamed
  BY DEF IInv, LineageInv, SplitInv, SplitOverlaps, HeldOutIfNamed, SplitDisjoint
<1> QED
  BY <1>1, LineageHolds, PTL
==============================================================================
