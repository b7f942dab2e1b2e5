------------------------------ MODULE Estimators ------------------------------
(***************************************************************************)
(* The estimators of the exact layer (estimators/), each as the exact      *)
(* distribution of one cycle, their first moments (stats.py) and the       *)
(* target gate that compares these with a target (audit/target.py).        *)
(*                                                                         *)
(* A distribution is [scale, out]: out[k] is an outcome's weight, not      *)
(* normalised, and its vector, coordinate t in units of 1 / scale[t].      *)
(***************************************************************************)
EXTENDS ExactWorlds

Same(w, n) == [t \in Steps(w) |-> n]

-----------------------------------------------------------------------------
(* dense.py *)

DenseDist(w) ==
  [scale |-> Same(w, Unit),
   out |-> [a \in Actions(w) |->
              [weight |-> Weight(w, a),
               vector |-> [t \in Steps(w) |-> w.reward[a] * Score(w, a, t)]]]]

\* (R - c_t) s_t, with c_t = num[t] / den[t].
OptimalConstantDist(w) ==
  LET square(a, t) == Score(w, a, t) * Score(w, a, t)
      den == [t \in Steps(w) |-> SumFunction([a \in Actions(w) |-> Weight(w, a) * square(a, t)])]
      num == [t \in Steps(w) |->
                SumFunction([a \in Actions(w) |-> Weight(w, a) * w.reward[a] * square(a, t)])]
  IN [scale |-> [t \in Steps(w) |-> Unit * den[t]],
      out |-> [a \in Actions(w) |->
                 [weight |-> Weight(w, a),
                  vector |-> [t \in Steps(w) |->
                                (w.reward[a] * den[t] - num[t]) * Score(w, a, t)]]]]

\* Leave-one-out over two samples.
RlooDist(w) ==
  [scale |-> Same(w, 2 * Unit),
   out |-> [k \in Actions(w) \X Actions(w) |->
              LET a == k[1]
                  b == k[2]
              IN [weight |-> Weight(w, a) * Weight(w, b),
                  vector |-> [t \in Steps(w) |->
                                (w.reward[a] - w.reward[b]) * (Score(w, a, t) - Score(w, b, t))]]]]

-----------------------------------------------------------------------------
(* sibling.py: a trajectory a and an independent sibling vector b *)

\* R(a) less what it is with the sibling's action at t and the same suffix.
Contrast(w, a, b, t) == w.reward[a] - w.reward[[a EXCEPT ![t] = b[t]]]

Pairs(w) == Actions(w) \X Actions(w)

SiblingDist(w, vectors) ==
  [scale |-> Same(w, Unit),
   out |-> [ab \in Pairs(w) |->
              [weight |-> Weight(w, ab[1]) * Weight(w, ab[2]), vector |-> vectors[ab]]]]

LocalDist(w, t) ==
  SiblingDist(w, [ab \in Pairs(w) |->
    [u \in Steps(w) |-> IF u = t THEN Contrast(w, ab[1], ab[2], t) * Score(w, ab[1], t) ELSE 0]])

PropagatedDist(w, t) ==
  SiblingDist(w, [ab \in Pairs(w) |->
    [u \in Steps(w) |-> Contrast(w, ab[1], ab[2], t) * Score(w, ab[1], u)]])

PairedDist(w, skip) ==
  SiblingDist(w, [ab \in Pairs(w) |->
    [t \in Steps(w) |->
       IF t \in skip THEN 0 ELSE Contrast(w, ab[1], ab[2], t) * Score(w, ab[1], t)]])

\* The control: after the sibling's action comes a fresh suffix, whose s-th
\* action is drawn with the probability of step s + 1 wherever it ends up.
UncoupledDist(w, skip) ==
  LET H == Decisions(w)
      Suffix == [1..(H - 1) -> Bit]
      weight(f) == ProductOf([s \in 1..(H - 1) |-> Chance(w, s + 1, f[s])])
      fresh(a, b, f, t) ==
        [u \in Steps(w) |-> IF u < t THEN a[u] ELSE IF u = t THEN b[t] ELSE f[u - t]]
  IN [scale |-> Same(w, Unit),
      out |-> [k \in Actions(w) \X Actions(w) \X Suffix |->
                 [weight |-> Weight(w, k[1]) * Weight(w, k[2]) * weight(k[3]),
                  vector |-> [t \in Steps(w) |->
                    IF t \in skip THEN 0
                    ELSE (w.reward[k[1]] - w.reward[fresh(k[1], k[2], k[3], t)])
                           * Score(w, k[1], t)]]]]

-----------------------------------------------------------------------------
(* Sampled decisions: q_t is odds[t] out of their sum *)

Total(odds) == SumFunction(odds)
\* A common multiple of the odds in use.
Common(odds) == ProductOf([t \in DOMAIN odds |-> IF odds[t] > 0 THEN odds[t] ELSE 1])
\* Common / q_t
Inverted(odds, t) == (Common(odds) \div odds[t]) * Total(odds)

UniformOdds(w) == Same(w, 1)

\* hh_ht.py
HansenHurwitzDist(w, odds) ==
  [scale |-> Same(w, Unit * Common(odds)),
   out |-> [k \in Steps(w) \X Actions(w) |->
              [weight |-> Weight(w, k[2]) * odds[k[1]],
               vector |-> [t \in Steps(w) |->
                 IF t = k[1] /\ odds[t] > 0
                   THEN w.reward[k[2]] * Score(w, k[2], t) * Inverted(odds, t) ELSE 0]]]]

\* pc_rsg.py: the dense vector, and at the sampled decision the residual
\* between a score-weighted contrast and the dense term, over q_t.
PcRsgDist(w, odds) ==
  LET vector(t, a, x) ==
        LET contrast == (w.reward[a] - w.reward[[a EXCEPT ![t] = x]]) * Score(w, a, t)
            dense(u) == w.reward[a] * Score(w, a, u)
        IN [u \in Steps(w) |->
              dense(u) * Common(odds)
              + (IF u = t /\ odds[t] > 0 THEN (contrast - dense(t)) * Inverted(odds, t) ELSE 0)]
  IN [scale |-> Same(w, Unit * Common(odds)),
      out |-> [k \in Steps(w) \X Actions(w) \X Bit |->
                 [weight |-> Weight(w, k[2]) * odds[k[1]] * Chance(w, k[1], k[3]),
                  vector |-> vector(k[1], k[2], k[3])]]]

\* bpo_like.py: the first of the most entropic decisions, with 9/10 and an even
\* share of the rest; its contrast goes to every coordinate, uncorrected.
MostEntropic(w) ==
  LET distance(t) == LET d == 2 * w.chance[t] - Unit IN IF d < 0 THEN -d ELSE d
  IN Min({t \in Steps(w) : \A u \in Steps(w) : distance(t) <= distance(u)})

BpoOdds(w) ==
  [t \in Steps(w) |-> IF t = MostEntropic(w) THEN 1 + 9 * Decisions(w) ELSE 1]

BpoLikeDist(w) ==
  [scale |-> Same(w, Unit),
   out |-> [k \in Steps(w) \X Actions(w) \X Actions(w) |->
              [weight |-> Weight(w, k[2]) * Weight(w, k[3]) * BpoOdds(w)[k[1]],
               vector |-> [u \in Steps(w) |->
                             Contrast(w, k[2], k[3], k[1]) * Score(w, k[2], u)]]]]

-----------------------------------------------------------------------------
(* Moments and the target gate *)

Mass(d) == SumFunction([k \in DOMAIN d.out |-> d.out[k].weight])
Mean(d, t) == SumFunction([k \in DOMAIN d.out |-> d.out[k].weight * d.out[k].vector[t]])

\* The target is in the units of Gradient.
Unbiased(w, d, target) ==
  LET mass == Mass(d)
  IN \A t \in Steps(w) :
       Mean(d, t) * Power(Unit, Decisions(w) + 1) = target[t] * mass * d.scale[t]

\* floor(budget / cost) cycles; below one, the moments have no MSE.
Cycles(budget, cost) == budget \div cost
Feasible(budget, cost) == Cycles(budget, cost) >= 1

\* The mechanism a row declares: where its contrast comes from, what it updates.
Mechanism(contrast, updated) == [contrast |-> contrast, updated |-> updated]

TargetGate_FaultCode(unbiased, claimed, estimand, m) ==   \* propagation is plain bias
  IF unbiased /\ claimed = estimand THEN "pass" ELSE "T002"

\* The reason of a failure is what the mechanism declares, not what it does.
TargetGate(unbiased, claimed, estimand, m) ==
  CASE claimed # estimand -> "T001"
    [] claimed = estimand /\ unbiased -> "pass"
    [] claimed = estimand /\ ~unbiased ->
         CASE m.updated = "all_including_prefix"
                /\ m.contrast \in {"local_sibling", "selected_contrast"} -> "T003"
           [] m.contrast = "truncated_continuation" -> "T004"
           [] m.contrast = "partial_retention" -> "T005"
           [] OTHER -> "T002"

\* retention_gate: partial outcomes change the target.
RetentionGate(unbiased) == IF unbiased THEN "pass" ELSE "T005"
=============================================================================
