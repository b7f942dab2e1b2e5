------------------------------ MODULE CostModel ------------------------------
(***************************************************************************)
(* What a cycle of an estimator costs, in environment transitions: the     *)
(* registered calculators (schema.py), the cost gate (audit/cost.py) and   *)
(* the formulas the drivers carry beside them.  Unit costs are 1, as in    *)
(* every protocol; decisions count from 0, as the depths do.               *)
(***************************************************************************)
EXTENDS Integers, FiniteSets, Functions

-----------------------------------------------------------------------------
(* The calculators: an id, its parameters, the terms it breaks a cost into *)

\* Outside its domain a calculator raises.
InDomain(spec) ==
  CASE spec.id = "dense_horizon_v1" -> spec.horizon > 0
    [] spec.id = "d002_branching_v1" ->
         spec.horizon > 0 /\ 0 < spec.depth /\ spec.depth < spec.horizon /\ spec.width >= 1
    [] spec.id = "paired_replay_all_v1" ->
         spec.horizon > 0 /\ 0 <= spec.depth /\ spec.depth < spec.horizon
    [] OTHER -> FALSE

Breakdown(spec) ==
  CASE spec.id = "dense_horizon_v1" -> [full_rollout |-> spec.horizon]
    [] spec.id = "d002_branching_v1" ->
         [prefix |-> spec.depth,
          suffixes |-> spec.width * (spec.horizon - spec.depth),
          restores |-> spec.width - 1]
    [] spec.id = "paired_replay_all_v1" ->
         [full_rollout |-> spec.horizon,
          sibling_continuations |->
            SumFunction([t \in spec.depth..(spec.horizon - 1) |-> spec.horizon - t]),
          restores |-> spec.horizon - spec.depth]

\* CostBreakdown refuses a total that is not the sum of its terms.
CycleTotal(spec) == SumFunction(Breakdown(spec))

DenseSpec(h) == [id |-> "dense_horizon_v1", horizon |-> h]
BranchingSpec(h, d, k) == [id |-> "d002_branching_v1", horizon |-> h, depth |-> d, width |-> k]
PairedSpec(h, d) == [id |-> "paired_replay_all_v1", horizon |-> h, depth |-> d]

\* n_complete_cycles: how many fit the budget, and what is left.
CompleteCycles(spec, budget) ==
  LET cycle == CycleTotal(spec)
  IN IF budget < cycle THEN [n |-> 0, unused |-> budget]
     ELSE [n |-> budget \div cycle, unused |-> budget - (budget \div cycle) * cycle]

-----------------------------------------------------------------------------
(* The formulas in the drivers *)

\* run_m0's cost of a paired cycle: every decision replays its own prefix.
PairedCycleInM0(h) == SumFunction([t \in 0..(h - 1) |-> t + 2 * (h - t) + 1])

\* pc_rsg's expected cost with even odds, times the horizon.
PcRsgCycle_FaultNoRestore(h) == h * h + SumFunction([t \in 0..(h - 1) |-> t + 2 * (h - t)])

PcRsgCycle(h) == h * h + SumFunction([t \in 0..(h - 1) |-> t + 2 * (h - t) + 1])

\* mapping_cycle_cost, one bucket: dense, focal or sampled branching.
BucketCycle(h, focal, d, k) ==
  IF k = 1 THEN h
  ELSE IF focal THEN h + SumFunction([t \in d..(h - 1) |-> (h - t) + 1])
  ELSE d + k * (h - d) + (k - 1)

-----------------------------------------------------------------------------
(* The cost gate *)

\* Costs are cost / over each.  terms: what the candidate's mechanism needs, if
\* its caller says so; the specification must have a term for each.
CostGate(spec, terms, candidate, candidateOver, baseline, baselineOver, budget) ==
  IF \/ ~(terms \subseteq DOMAIN Breakdown(spec))
     \/ (budget * candidateOver) \div candidate < 1
     \/ (budget * baselineOver) \div baseline < 1
    THEN "C001" ELSE "pass"
=============================================================================
