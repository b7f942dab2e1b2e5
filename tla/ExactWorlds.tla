------------------------------ MODULE ExactWorlds ------------------------------
(***************************************************************************)
(* The Bernoulli worlds every exact check of the auditor starts from       *)
(* (worlds/bernoulli_sequence.py), the gradients they define (estimands/), *)
(* the two independent oracles that recompute them (oracles/) and the gate *)
(* that refuses degenerate worlds (audit/environment.py).                  *)
(*                                                                         *)
(* A probability p is the integer p * Unit and a reward an integer, so the *)
(* float and the Fraction copies of the code are one definition here, and  *)
(* its tolerances are equality.  Steps are numbered from 1.                *)
(***************************************************************************)
EXTENDS Integers, Sequences, FiniteSets, FiniteSetsExt, Functions, Products

CONSTANT Unit

ASSUME UnitAssumption == Unit \in Nat \ {0, 1}

Bit == {0, 1}

\* A world is [chance, reward]: chance[t] is the probability of a_t = 1.
Decisions(w) == Len(w.chance)
Steps(w) == 1..Decisions(w)
Actions(w) == [Steps(w) -> Bit]
Histories(w, t) == [1..(t - 1) -> Bit]      \* the prefixes a decision at t can have

\* __post_init__: a reward for every action sequence; only the Fraction world
\* looks at the probabilities.
IsWorld(w) == w.chance \in Seq(Int) /\ w.reward \in [Actions(w) -> Int]
IsFractionWorld(w) ==
  IsWorld(w) /\ \A t \in Steps(w) : w.chance[t] > 0 /\ w.chance[t] < Unit

-----------------------------------------------------------------------------
(* The primary side *)

Chance(w, t, x) == IF x = 1 THEN w.chance[t] ELSE Unit - w.chance[t]

\* The probability of a path or of a prefix of one.
Weight(w, a) ==
  ProductOf([t \in DOMAIN a |-> Chance(w, t, a[t])])

Score(w, a, t) == a[t] * Unit - w.chance[t]

\* true_gradient, in units of 1 / Power(Unit, Decisions + 1).
Gradient(w) ==
  [t \in Steps(w) |->
     SumFunction([a \in Actions(w) |-> Weight(w, a) * w.reward[a] * Score(w, a, t)])]

\* q_values: the expected reward from a prefix.
QValues(w) ==
  LET q[h \in UNION {Histories(w, t) : t \in 1..(Decisions(w) + 1)}] ==
        IF Len(h) = Decisions(w) THEN w.reward[h]
        ELSE SumFunction([x \in Bit |-> Chance(w, Len(h) + 1, x) * q[Append(h, x)]])
  IN q

Effect(q, h) == q[Append(h, 1)] - q[Append(h, 0)]

\* LOCAL_DECISION_GRADIENT(t): the effect of a_t, zero elsewhere.
LocalTarget(w, t) ==
  LET q == QValues(w)
  IN [u \in Steps(w) |->
        IF u # t THEN 0
        ELSE SumFunction([h \in Histories(w, t) |->
               Weight(w, h) * Chance(w, t, 1) * Chance(w, t, 0) * Effect(q, h)])]

\* root_marginal_gradient and flat_leaf_average (times their denominator).
RootMarginal(w, shared) == [t \in shared |-> Gradient(w)[t]]
FlatAverage(w, shared) == [t \in shared |-> Gradient(w)[t]]
FlatDenominator(shared) == Cardinality(shared)

-----------------------------------------------------------------------------
(* The oracles: each is a process of its own that imports nothing of this *)

\* The bits of a number, most significant first.
PathOf(n, bits) == [t \in 1..n |-> (bits \div Power(2, n - t)) % 2]

EnumerationGradient(w) ==
  LET H == Decisions(w)
      term(bits, t) == LET a == PathOf(H, bits)
                       IN Weight(w, a) * w.reward[a] * (Unit * a[t] - w.chance[t])
  IN [t \in 1..H |-> SumFunction([bits \in 0..(Power(2, H) - 1) |-> term(bits, t)])]

BellmanGradient_FaultLevel(w) ==     \* the value of the next level is one step off
  LET H == Decisions(w)
      level[t \in 0..H] ==
        IF t = H THEN w.reward
        ELSE [h \in [1..t -> Bit] |->
                w.chance[IF t = 0 THEN 1 ELSE t] * level[t + 1][Append(h, 1)]
                + (Unit - w.chance[IF t = 0 THEN 1 ELSE t]) * level[t + 1][Append(h, 0)]]
      term(t, h) == Weight(w, h) * w.chance[t] * (Unit - w.chance[t])
                      * (level[t][Append(h, 1)] - level[t][Append(h, 0)])
  IN [t \in 1..H |-> SumFunction([h \in [1..(t - 1) -> Bit] |-> term(t, h)])]

\* Backwards by levels, then the effects weighted by their prefixes.
BellmanGradient(w) ==
  LET H == Decisions(w)
      level[t \in 0..H] ==
        IF t = H THEN w.reward
        ELSE [h \in [1..t -> Bit] |->
                w.chance[t + 1] * level[t + 1][Append(h, 1)]
                + (Unit - w.chance[t + 1]) * level[t + 1][Append(h, 0)]]
      term(t, h) == Weight(w, h) * w.chance[t] * (Unit - w.chance[t])
                      * (level[t][Append(h, 1)] - level[t][Append(h, 0)])
  IN [t \in 1..H |-> SumFunction([h \in [1..(t - 1) -> Bit] |-> term(t, h)])]

-----------------------------------------------------------------------------
(* The environment gate *)

\* E001: changing a_t never changes the reward.
Noop(w, t) == \A a \in Actions(w) : w.reward[a] = w.reward[[a EXCEPT ![t] = 1 - a[t]]]

\* E003: the effect of a_t is the same after every prefix, and there are several.
FlatEffect(w, t) ==
  /\ t > 1
  /\ LET q == QValues(w) IN Cardinality({Effect(q, h) : h \in Histories(w, t)}) = 1

EnvironmentPasses(w) == \A t \in Steps(w) : ~Noop(w, t) /\ ~FlatEffect(w, t)
=============================================================================
