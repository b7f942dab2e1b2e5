----------------------------- MODULE SharedLogits -----------------------------
(***************************************************************************)
(* The D002 world (worlds/d002_shared_logits.py): decisions of a bucket    *)
(* share three action probabilities, and the gradient is taken with        *)
(* respect to these.  Beside it the two oracles' copies of the world.      *)
(*                                                                         *)
(* A bucket is [horizon, initial, logit, map, base, offset, effect,        *)
(* terminal, noise]: map[t][s] is the logit of the decision at step t in   *)
(* state s, noise the noise times of a focal bucket and {} of a general    *)
(* one.  Logits, transitions and scores are in units of 1 / Unit, but a    *)
(* focal bucket's states follow its actions and have no unit.              *)
(***************************************************************************)
EXTENDS ExactWorlds

CONSTANT NoiseWeight      \* the noise of a focal reward over the weight of an effect

ASSUME NoiseAssumption == NoiseWeight \in Nat

Logit == 1..3

Times(b) == 1..b.horizon
Focal(b) == b.noise # {}

\* Both states of a focal step share one logit.  A single noise time would have
\* a target of its own: the code has pairs of them.
IsBucket(b) ==
  /\ b.horizon \in Nat \ {0} /\ b.initial \in Bit
  /\ b.logit \in [Logit -> 1..(Unit - 1)]
  /\ b.map \in [Times(b) -> [Bit -> Logit]]
  /\ {b.base, b.offset, b.effect} \subseteq [Times(b) -> [Bit -> Int]]
  /\ b.terminal \in [Bit \X Bit \X Bit -> Int]
  /\ b.noise \subseteq Times(b) /\ Cardinality(b.noise) # 1
  /\ Focal(b) => \A t \in Times(b) : b.map[t][0] = b.map[t][1]

\* The clip at 0.05 and 0.95.
Clip(x) == IF x < 1 THEN 1 ELSE IF x > Unit - 1 THEN Unit - 1 ELSE x

\* transition_prob: in a focal bucket the next state is the action.
ToOne(b, t, s, a) ==
  IF Focal(b) THEN a ELSE Clip(b.base[t][s] + b.offset[t][s] + (2 * a - 1) * b.effect[t][s])
MoveUnit(b) == IF Focal(b) THEN 1 ELSE Unit
Moves(b, t, s, a, n) == IF n = 1 THEN ToOne(b, t, s, a) ELSE MoveUnit(b) - ToOne(b, t, s, a)

ActionProb(b, t, s) == b.logit[b.map[t][s]]
Takes(b, t, s, a) == IF a = 1 THEN ActionProb(b, t, s) ELSE Unit - ActionProb(b, t, s)

-----------------------------------------------------------------------------
(* Generated buckets *)

\* generate_problem_focal: one logit for both states of a step, every logit
\* drawn at no step written over the draw of the step it numbers.
FocalMap(h, draws) ==
  LET unused == Logit \ {draws[t] : t \in 1..h}
      placed(t) == {j \in unused : ((j - 1) % h) + 1 = t}
      at(t) == IF placed(t) = {} THEN draws[t] ELSE Max(placed(t))
  IN [t \in 1..h |-> [s \in Bit |-> at(t)]]

\* generate_problem: a shuffle of the three logits and 2h - 3 draws.
GeneralMaps(h) ==
  {[t \in 1..h |-> [s \in Bit |-> m[2 * t - 1 + s]]] :
     m \in {f \in [1..(2 * h) -> Logit] : \A j \in Logit : \E k \in 1..(2 * h) : f[k] = j}}

\* The terminal rewards are 0 or 1, and not all the same.
TerminalTables == {r \in [Bit \X Bit \X Bit -> Bit] : \E k, l \in DOMAIN r : r[k] # r[l]}

-----------------------------------------------------------------------------
(* Paths *)

\* A path is its actions and its states, one more than actions.  The weight and
\* the scores of its first n decisions.
PathWeight(b, n, p) ==
  ProductOf([t \in 1..n |-> Takes(b, t, p.s[t], p.a[t]) * Moves(b, t, p.s[t], p.a[t], p.s[t + 1])])

PathScore(b, n, p, j) ==
  SumFunction([t \in {t \in 1..n : b.map[t][p.s[t]] = j} |-> p.a[t] * Unit - b.logit[j]])

\* The unit of PathWeight.  A reward times a score has Unit for its own, and one
\* more for each noise time.
PathScale(b, n) == Power(Unit * MoveUnit(b), n)

\* focal_reward, in effects / Unit ^ 2: centered noise, and a small effect of
\* every other action.  The states it needs are those the actions lead to.
NoiseUnit(b) == Power(Unit, Cardinality(b.noise))

FocalReward(b, a) ==
  LET state(t) == IF t = 1 THEN b.initial ELSE a[t - 1]
  IN NoiseWeight * ProductOf([t \in b.noise |-> a[t] * Unit - ActionProb(b, t, state(t))])
       + NoiseUnit(b) * SumFunction([t \in Times(b) \ b.noise |-> 2 * a[t] - 1])

Terminal(b, p) == b.terminal[<<p.s[b.horizon], p.a[b.horizon], p.s[b.horizon + 1]>>]
PathReward(b, p) == IF Focal(b) THEN FocalReward(b, p.a) ELSE Terminal(b, p)

\* The paths of n decisions by bit patterns: 2 n bits are free, the actions' first.
PathCodes(n) == 0..(Power(2, 2 * n) - 1)
CodedPath(b, n, c) ==
  LET bits == PathOf(2 * n, c)
  IN [a |-> [t \in 1..n |-> bits[t]],
      s |-> [t \in 1..(n + 1) |-> IF t = 1 THEN b.initial ELSE bits[n + t - 1]]]

\* enumerate_bucket, with the scores that every reader of it builds: a row for
\* the code of every path that can happen.
Enumerated(b) ==
  LET h == b.horizon
      row(c, p) == [code |-> c, path |-> p, weight |-> PathWeight(b, h, p),
                    reward |-> PathReward(b, p), scores |-> [j \in Logit |-> PathScore(b, h, p, j)]]
  IN {r \in {row(c, CodedPath(b, h, c)) : c \in PathCodes(h)} : r.weight > 0}

\* true_gradient, the part of one bucket: over PathScale and the unit
\* of a reward times a score.
SharedGradient(b) ==
  LET e == Enumerated(b)
  IN [j \in Logit |-> SumFunction([r \in e |-> r.weight * r.reward * r.scores[j]])]

-----------------------------------------------------------------------------
(* Values: _dp, and the copy in the Bellman oracle *)

\* The value of an action from the values of the next step.
ActionValue(b, next, t, s, a) ==
  SumFunction([n \in Bit |-> Moves(b, t, s, a, n)
                               * (IF t = b.horizon THEN b.terminal[<<s, a, n>>] ELSE next[n])])

\* Expected reward by step and state under the policy, in Unit ^ (2 (h - t + 1)).
PolicyValue(b) ==
  LET v[t \in 1..(b.horizon + 1)] ==
        IF t > b.horizon THEN [s \in Bit |-> 0]
        ELSE [s \in Bit |->
                SumFunction([a \in Bit |-> Takes(b, t, s, a) * ActionValue(b, v[t + 1], t, s, a)])]
  IN v

\* reach[t][s]: the probability of s at step t >= from, from state start.
Reach(b, from, start) ==
  LET r[t \in from..b.horizon] ==
        IF t = from THEN [s \in Bit |-> IF s = start THEN 1 ELSE 0]
        ELSE [n \in Bit |->
                SumFunction([sa \in Bit \X Bit |-> r[t - 1][sa[1]] * Takes(b, t - 1, sa[1], sa[2])
                                                     * Moves(b, t - 1, sa[1], sa[2], n)])]
  IN r

\* p (1 - p) (Q1 - Q0) at a decision, in Unit ^ (2 (h - t) + 3).
Contribution(b, v, t, s) ==
  Takes(b, t, s, 1) * Takes(b, t, s, 0)
    * (ActionValue(b, v[t + 1], t, s, 1) - ActionValue(b, v[t + 1], t, s, 0))

\* The decisions from step d on that share logit j.
Sharing(b, d, j) == {ts \in (d..b.horizon) \X Bit : b.map[ts[1]][ts[2]] = j}

\* The gradient of the decisions from step d on, from state start.
GradientFrom(b, d, start) ==
  LET v == PolicyValue(b)
      r == Reach(b, d, start)
  IN [j \in Logit |->
        SumFunction([ts \in Sharing(b, d, j) |-> r[ts[1]][ts[2]] * Contribution(b, v, ts[1], ts[2])])]

FocalEffect_FaultHalf(b, t) ==       \* the effect of one action, not of the two
  IF t \in b.noise THEN 0 ELSE NoiseUnit(b)

\* The Bellman oracle's _d002_bellman.  For a focal bucket it does no dynamic
\* programming: it takes w (2 a - 1) for the value of every action.
FocalEffect(b, t) == IF t \in b.noise THEN 0 ELSE 2 * NoiseUnit(b)

SharedBellman(b) ==
  LET r == Reach(b, 1, b.initial)
      focal(t, s) == r[t][s] * Takes(b, t, s, 1) * Takes(b, t, s, 0) * FocalEffect(b, t)
                       * Power(Unit, b.horizon - t)
  IN IF Focal(b)
       THEN [j \in Logit |-> SumFunction([ts \in Sharing(b, 1, j) |-> focal(ts[1], ts[2])])]
       ELSE GradientFrom(b, 1, b.initial)

\* The enumeration oracle's _d002: all paths, those of the other initial state
\* left out, and the reward from the states of the path.
SharedEnumeration(b) ==
  LET h == b.horizon
      started == {p \in [a : [1..h -> Bit], s : [1..(h + 1) -> Bit]] : p.s[1] = b.initial}
      noise(p) == NoiseWeight
                    * ProductOf([t \in b.noise |-> p.a[t] * Unit - b.logit[b.map[t][p.s[t]]]])
      reward(p) == IF Focal(b)
                     THEN noise(p)
                            + NoiseUnit(b) * SumFunction([t \in Times(b) \ b.noise |-> 2 * p.a[t] - 1])
                     ELSE Terminal(b, p)
      weighted == [p \in started |-> PathWeight(b, h, p) * reward(p)]
  IN [j \in Logit |->
        SumFunction([p \in {p \in started : weighted[p] # 0} |->
                       weighted[p] * PathScore(b, h, p, j)])]
=============================================================================
