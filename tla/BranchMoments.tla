----------------------------- MODULE BranchMoments -----------------------------
(***************************************************************************)
(* The moments the D002 driver ranks its options by                        *)
(* (estimators/branching.py, estimator_moments): bucket by bucket an       *)
(* option is taken, its mean and second moment are computed, and the       *)
(* parts are combined into the moments of the whole estimator.             *)
(*                                                                         *)
(* An option is [depth, width], width 1 the dense one; depths count from 0 *)
(* as in the code.  A moment is [mean, second]: integers, the mean over    *)
(* PathScale and the unit of a reward times a score, the second moment     *)
(* over the square of both and Widest.                                     *)
(***************************************************************************)
EXTENDS SharedLogits

CONSTANTS
  SharedProblems,   \* sequences of buckets: all general, or all focal
  BranchDepths,     \* the depth candidates
  BranchWidths,     \* 2, 4, 8
  Widest

ASSUME BranchAssumption ==
  /\ \A bs \in SharedProblems : bs \in Seq(Range(bs))
  /\ \A bs \in SharedProblems : \A b, c \in Range(bs) : IsBucket(b) /\ (Focal(b) <=> Focal(c))
  /\ BranchWidths \subseteq Nat \ {0, 1}
  /\ \A k \in BranchWidths : Widest % k = 0
  /\ BranchDepths \subseteq Nat \ {0} /\ Widest \in Nat \ {0}

VARIABLES
  problem,    \* the buckets
  parts,      \* the option and the moments of each bucket so far
  combined    \* the moments of the estimator, when every bucket has its part

branchVars == <<problem, parts, combined>>

Outer(u, v) == [jk \in Logit \X Logit |-> u[jk[1]] * v[jk[2]]]
Times3(n, v) == [j \in DOMAIN v |-> n * v[j]]
Plus(u, v) == [j \in DOMAIN u |-> u[j] + v[j]]

-----------------------------------------------------------------------------
(* One bucket *)

DenseOption == [depth |-> 0, width |-> 1]

\* The moments of a function of outcomes [weight, vector].
FirstMoment(out) ==
  [j \in Logit |-> SumFunction([i \in DOMAIN out |-> out[i].weight * out[i].vector[j]])]
SecondMoment(out) ==
  [jk \in Logit \X Logit |->
     SumFunction([i \in DOMAIN out |->
                    out[i].weight * (out[i].vector[jk[1]] * out[i].vector[jk[2]])])]

DenseCycle(b) ==
  [r \in Enumerated(b) |-> [weight |-> r.weight, vector |-> Times3(r.reward, r.scores)]]

DenseMoments(b) ==
  LET out == DenseCycle(b)
  IN [mean |-> FirstMoment(out),
      second |-> Times3(Widest * PathScale(b, b.horizon), SecondMoment(out))]

\* ksample_bucket_moments: K continuations of one prefix of d decisions.
\* mu: the expected value after a prefix; E[mu mu^T] over the prefixes.
MuMu(b, d) ==
  LET v == PolicyValue(b)
      from == [s \in Bit |-> GradientFrom(b, d + 1, s)]
      mu(q) == [j \in Logit |->
                  v[d + 1][q.s[d + 1]] * PathScore(b, d, q, j) + from[q.s[d + 1]][j]]
      out == [c \in PathCodes(d) |->
                LET q == CodedPath(b, d, c) IN [weight |-> PathWeight(b, d, q), vector |-> mu(q)]]
  IN Times3(PathScale(b, d), SecondMoment(out))

KSampleMoments_FaultSwapped(b, d, k) ==     \* the two terms have each other's share
  LET dense == DenseMoments(b)
  IN [mean |-> dense.mean,
      second |-> Plus(Times3(k - 1, [x \in Logit \X Logit |-> dense.second[x] \div k]),
                      Times3(Widest \div k, MuMu(b, d)))]

KSampleMoments(b, d, k) ==
  LET dense == DenseMoments(b)
  IN [mean |-> dense.mean,
      second |-> Plus([x \in Logit \X Logit |-> dense.second[x] \div k],
                      Times3((Widest \div k) * (k - 1), MuMu(b, d)))]

BranchedTimes_FaultFirst(b, d) == ((d + 2)..b.horizon) \ b.noise   \* one too late

\* paired_replay_all_bucket_moments: dense terms before d, and from d on, at
\* every decision without noise, the contrast with its sibling action.
BranchedTimes(b, d) == ((d + 1)..b.horizon) \ b.noise

PairedCycle(b, d) ==
  LET branched == BranchedTimes(b, d)
      score(p, t) == p.a[t] * Unit - ActionProb(b, t, p.s[t])
      draw(p, a) == ProductOf([t \in branched |-> Takes(b, t, p.s[t], a[t])])
      delta(r, a, t) == (r.reward - FocalReward(b, [r.path.a EXCEPT ![t] = a[t]])) * score(r.path, t)
      vector(r, a) ==
        [j \in Logit |->
           LET here(S) == {t \in S : b.map[t][r.path.s[t]] = j}
           IN r.reward * SumFunction([t \in here(1..d) |-> score(r.path, t)])
              + SumFunction([t \in here(branched) |-> delta(r, a, t)])]
  IN [ra \in Enumerated(b) \X [branched -> Bit] |->
        [weight |-> ra[1].weight * draw(ra[1].path, ra[2]), vector |-> vector(ra[1], ra[2])]]

PairedMoments(b, d) ==
  LET out == PairedCycle(b, d)
      unit == Power(Unit, Cardinality(BranchedTimes(b, d)))
  IN [mean |-> [j \in Logit |-> FirstMoment(out)[j] \div unit],
      second |-> Times3((Widest * PathScale(b, b.horizon)) \div unit, SecondMoment(out))]

BucketMoments(b, o) ==
  CASE o.width = 1 -> DenseMoments(b)
    [] o.width > 1 /\ Focal(b) -> PairedMoments(b, o.depth)
    [] o.width > 1 /\ ~Focal(b) -> KSampleMoments(b, o.depth, o.width)

\* The envelope's estimators.  c_j = num_j / den_j; the mean of (R - c_j) s_j,
\* times den_j.  Root-RLOO's second moment is four times as large.
OptimalConstantMean(b) ==
  LET e == Enumerated(b)
      square(r, j) == r.weight * (r.scores[j] * r.scores[j])
      den == [j \in Logit |-> SumFunction([r \in e |-> square(r, j)])]
      num == [j \in Logit |-> SumFunction([r \in e |-> square(r, j) * r.reward])]
      mean(j) == SumFunction([r \in e |-> r.weight * ((r.reward * den[j] - num[j]) * r.scores[j])])
  IN [j \in Logit |-> [over |-> den[j], mean |-> mean(j)]]

RlooSecond(b) ==
  LET e == Enumerated(b)
      expected(f) == SumFunction([r \in e |-> r.weight * f[r]])
      reward == [r \in e |-> r.reward]
      reward2 == [r \in e |-> r.reward * r.reward]
      squares(f) == [jk \in Logit \X Logit |->
                       expected([r \in e |-> f[r] * r.scores[jk[1]] * r.scores[jk[2]]])]
      ess == squares([r \in e |-> 1])
      a1 == squares(reward)
      a2 == squares(reward2)
      root == Outer(SharedGradient(b), SharedGradient(b))
  IN [x \in Logit \X Logit |->
        2 * PathScale(b, b.horizon) * a2[x] + 2 * expected(reward2) * ess[x]
          - 4 * expected(reward) * a1[x] - 4 * root[x]]

-----------------------------------------------------------------------------
(* The estimator of a mapping *)

\* What brings the mean of a bucket to the scale of the longest one.
Lift(bs, i) == PathScale(bs[i], Max({bs[k].horizon : k \in DOMAIN bs}) - bs[i].horizon)

\* Means and second moments add, and the buckets are independent of each other.
Combine(bs, ms) ==
  LET mean == [i \in DOMAIN bs |-> Times3(Lift(bs, i), ms[i].mean)]
      own == [i \in DOMAIN bs |-> Times3(Lift(bs, i) * Lift(bs, i), ms[i].second)]
      cross == [ik \in {x \in (DOMAIN bs) \X (DOMAIN bs) : x[1] # x[2]} |->
                  Outer(mean[ik[1]], mean[ik[2]])]
  IN [mean |-> [j \in Logit |-> SumFunction([i \in DOMAIN bs |-> mean[i][j]])],
      second |-> [jk \in Logit \X Logit |->
                    SumFunction([i \in DOMAIN bs |-> own[i][jk]])
                    + Widest * SumFunction([ik \in DOMAIN cross |-> cross[ik][jk]])]]

Options(b) ==
  {DenseOption} \cup [depth : {d \in BranchDepths : d < b.horizon}, width : BranchWidths]

NoMoments == [mean |-> <<>>, second |-> <<>>]

BranchInit ==
  /\ problem \in SharedProblems
  /\ parts = <<>>
  /\ combined = NoMoments

TakeOption ==
  /\ Len(parts) < Len(problem)
  /\ LET b == problem[Len(parts) + 1]
     IN \E o \in Options(b) :
          parts' = Append(parts, [option |-> o, moments |-> BucketMoments(b, o)])
  /\ UNCHANGED <<problem, combined>>

EstimatorMoments ==
  /\ Len(parts) = Len(problem) /\ combined = NoMoments
  /\ combined' = Combine(problem, [i \in DOMAIN parts |-> parts[i].moments])
  /\ UNCHANGED <<problem, parts>>

BranchNext == TakeOption \/ EstimatorMoments
BranchSpec == BranchInit /\ [][BranchNext]_branchVars

-----------------------------------------------------------------------------
(* References: the estimators drawn out, outcome by outcome *)

\* Pairs of paths that share a prefix: two continuations of a single draw.
\* The continuations of a prefix are independent: its weight counts once.
TwoSampleCycle(b, d) ==
  LET e == Enumerated(b)
      cut(p) == [a |-> [t \in 1..d |-> p.a[t]], s |-> [t \in 1..(d + 1) |-> p.s[t]]]
  IN [xy \in {z \in e \X e : cut(z[1].path) = cut(z[2].path)} |->
        [weight |-> (xy[1].weight \div PathWeight(b, d, xy[1].path)) * xy[2].weight,
         vector |-> Plus(Times3(xy[1].reward, xy[1].scores), Times3(xy[2].reward, xy[2].scores))]]

\* Root-RLOO over two independent paths: (R1 - R2) (s1 - s2) / 2, four times.
RlooReference(b) ==
  SecondMoment([xy \in Enumerated(b) \X Enumerated(b) |->
    [weight |-> xy[1].weight * xy[2].weight,
     vector |-> Times3(xy[1].reward - xy[2].reward, Plus(xy[1].scores, Times3(-1, xy[2].scores)))]])

\* The sum of two independent vectors.
JointCycle(one, two) ==
  [xy \in (DOMAIN one) \X (DOMAIN two) |->
     [weight |-> one[xy[1]].weight * two[xy[2]].weight,
      vector |-> Plus(one[xy[1]].vector, two[xy[2]].vector)]]

-----------------------------------------------------------------------------
(* Properties *)

Latest == parts[Len(parts)]
LatestBucket == problem[Len(parts)]

\* Enumerating bit patterns, dynamic programming and enumerating paths give one
\* gradient, for focal buckets too, where the Bellman oracle has only a formula.
SharedOraclesAgree ==
  parts = <<>> => \A i \in DOMAIN problem :
    LET g == SharedGradient(problem[i])
    IN SharedEnumeration(problem[i]) = g /\ SharedBellman(problem[i]) = g

\* Every option of every bucket is unbiased, and so are the envelope's: no
\* depth, width or baseline moves the target.
OptionsUnbiased ==
  parts # <<>> =>
    LET g == SharedGradient(LatestBucket)
        opt == OptimalConstantMean(LatestBucket)
    IN /\ Latest.moments.mean = g
       /\ \A j \in Logit : opt[j].mean = g[j] * opt[j].over

\* "Exact moments are computed WITHOUT enumerating continuation pairs": the
\* closed form for K continuations is what enumerating two of them gives, more
\* continuations never raise the variance, and the moments of a mapping are
\* those of its independent buckets drawn jointly.
MomentsExact ==
  /\ parts # <<>> /\ ~Focal(LatestBucket) /\ Latest.option.width = 2 =>
       LET b == LatestBucket
           d == Latest.option.depth
           drawn == SecondMoment(TwoSampleCycle(b, d))
       IN \A x \in DOMAIN drawn :
            4 * Latest.moments.second[x] * PathScale(b, b.horizon - d)
              = drawn[x] * Widest * PathScale(b, b.horizon)
  /\ parts # <<>> /\ ~Focal(LatestBucket) =>
       \A o \in Options(LatestBucket), j \in Logit :
         o.width > Latest.option.width /\ Latest.option \in {DenseOption, [o EXCEPT !.width = 2]} =>
           BucketMoments(LatestBucket, o).second[<<j, j>>] <= Latest.moments.second[<<j, j>>]
  /\ combined # NoMoments /\ Len(problem) = 2 =>
       /\ \A j \in Logit :
            combined.mean[j] = Lift(problem, 1) * SharedGradient(problem[1])[j]
                               + Lift(problem, 2) * SharedGradient(problem[2])[j]
       /\ (\A i \in DOMAIN parts : parts[i].option = DenseOption) =>
            combined.second = Times3(Widest * Lift(problem, 1) * Lift(problem, 2),
              SecondMoment(JointCycle(DenseCycle(problem[1]), DenseCycle(problem[2]))))

\* root_rloo_moments: "exact moments via single-trajectory statistics".
RlooExact ==
  \A i \in DOMAIN problem : RlooSecond(problem[i]) = RlooReference(problem[i])
=============================================================================
