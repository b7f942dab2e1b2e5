----------------------------- MODULE ExactDrivers -----------------------------
(***************************************************************************)
(* The drivers of the exact layer: the M0 target regression                *)
(* (experiments/m0.py) and the V001 utility failure (experiments/v001.py). *)
(* Each runs its estimators and gates on one drawn world after another,    *)
(* asks oracle processes about every world, and turns what it recorded     *)
(* into claims that the runner publishes.                                  *)
(*                                                                         *)
(* Mean squared errors and the bootstrap are not computed: what the        *)
(* drivers conclude from them is a choice.                                 *)
(***************************************************************************)
EXTENDS Estimators, CostModel

CONSTANTS
  Worlds,        \* what deterministic_world can draw
  ManifestRows,  \* the rows of a problem manifest
  FocalSteps,    \* the horizon of M0's focal world
  FocalNoise,    \* its noise times
  CycleBudget    \* V001's primary budget

\* The worlds have several decisions, and a product over one time alone is no
\* noise (the focal world's is over two).
ASSUME DriverAssumption ==
  /\ \A w \in Worlds : IsFractionWorld(w) /\ Decisions(w) >= 2
  /\ Unit % 2 = 0
  /\ ManifestRows \in Nat \ {0} /\ CycleBudget \in Nat \ {0}
  /\ FocalSteps \in Nat /\ FocalNoise \subseteq 1..FocalSteps
  /\ Cardinality(FocalNoise) # 1

VARIABLES
  study,       \* the driver: m0 or v001
  phase,       \* how far it is
  drawn,       \* the world of the row recorded last
  recorded,    \* the rows so far
  designed,    \* M0's designed cases; V001's calibration
  exactly,     \* all_exact of M0's Fraction check
  verdict      \* the decision and whether it was published

driverVars == <<study, phase, drawn, recorded, designed, exactly, verdict>>

-----------------------------------------------------------------------------
(* Oracle answers *)

\* What a process prints: the gradient, other numbers, or NaN.
Answers == {"right", "wrong", "nan"}

\* compare_oracle: no mismatch above the tolerance; a NaN is not above it.
Matches(correct, answer) == answer = "nan" \/ (answer = "right" /\ correct)

-----------------------------------------------------------------------------
(* M0 *)

Full == "full_score_gradient"

\* _moment_rows: the verdict of the target gate for each estimator.
MomentRows(w) ==
  LET g == Gradient(w)
      mid == (Decisions(w) \div 2) + 1
      onFull(d, m) == TargetGate(Unbiased(w, d, g), Full, Full, m)
      dense == Mechanism("none", "all")
      local == Mechanism("local_sibling", "single_branch")
  IN [dense |-> onFull(DenseDist(w), dense),
      dense_optimal_constant |-> onFull(OptimalConstantDist(w), dense),
      uniform_hh |-> onFull(HansenHurwitzDist(w, UniformOdds(w)),
                            Mechanism("none", "single_sampled")),
      local_sibling_local_estimand |->
        TargetGate(Unbiased(w, LocalDist(w, mid), LocalTarget(w, mid)),
                   "local_decision_gradient", "local_decision_gradient", local),
      local_sibling_as_full |-> onFull(LocalDist(w, mid), local),
      propagated_sibling |-> onFull(PropagatedDist(w, mid),
                                    Mechanism("local_sibling", "all_including_prefix")),
      bpo_like |-> onFull(BpoLikeDist(w),
                          Mechanism("selected_contrast", "all_including_prefix"))]

\* What M0 finds in each world: computed once.
Measured ==
  [w \in Worlds |->
     [gates |-> MomentRows(w), environment |-> EnvironmentPasses(w),
      pairs |-> /\ Unbiased(w, RlooDist(w), Gradient(w))
                /\ Unbiased(w, PairedDist(w, {}), Gradient(w)),
      enumeration |-> EnumerationGradient(w) = Gradient(w),
      bellman |-> BellmanGradient(w) = Gradient(w)]]

\* The frozen world of the matched-cost positive, its rewards times 20.
FocalWorld ==
  LET sign(x) == 2 * x - 1
      steps == 1..FocalSteps
  IN [chance |-> [t \in steps |-> Unit \div 2],
      reward |-> [a \in [steps -> Bit] |->
        20 * ProductOf([t \in FocalNoise |-> sign(a[t])])
        + SumFunction([t \in steps \ FocalNoise |-> sign(a[t])])]]

FocalSound == EnvironmentPasses(FocalWorld)

\* The two estimators of the positive, which leave the noise times out.
FocalUnbiased ==
  /\ Unbiased(FocalWorld, PairedDist(FocalWorld, FocalNoise), Gradient(FocalWorld))
  /\ Unbiased(FocalWorld, UncoupledDist(FocalWorld, FocalNoise), Gradient(FocalWorld))

\* outcome_retention and completion_deadline: the world an estimator is run in.
RetainedWorld(w) ==
  [w EXCEPT !.reward = [a \in Actions(w) |->
     IF SumFunction(a) <= 2 THEN w.reward[a] ELSE 0]]

TruncatedWorld(w) ==
  [w EXCEPT !.reward = [a \in Actions(w) |->
     w.reward[[t \in Steps(w) |-> IF t <= 2 THEN a[t] ELSE 0]]]]

\* One drawn world stands for those of the four seeds.
DesignedCases(w) ==
  LET shared == Steps(w)
      flat == [scale |-> Same(w, FlatDenominator(shared)),
               out |-> [k \in {1} |-> [weight |-> 1, vector |-> FlatAverage(w, shared)]]]
      aggregated == \A t \in shared :
                      Mean(flat, t) = RootMarginal(w, shared)[t] * flat.scale[t]
      retained == Unbiased(w, DenseDist(RetainedWorld(w)), Gradient(w))
      truncated == Unbiased(w, DenseDist(TruncatedWorld(w)), Gradient(w))
  IN [bpo_prefix_propagation |-> Measured[w].gates.propagated_sibling,
      shared_logit |-> TargetGate(aggregated, "root_marginal_gradient",
                                  "root_marginal_gradient", Mechanism("none", "leaf")),
      outcome_retention |-> RetentionGate(retained),
      completion_deadline |-> TargetGate(truncated, Full, Full,
                                         Mechanism("truncated_continuation", "all"))]

CaseTable == {DesignedCases(w) : w \in Worlds}

NoWorld == [chance |-> <<>>, reward |-> <<>>]
\* unbiased: V001's correction in its calibration, M0's focal estimators.
NoCases == [focalEnvironment |-> TRUE, focalAnswers |-> {}, cases |-> <<>>, unbiased |-> TRUE]
NoDecision == [claims |-> <<>>, published |-> FALSE]

DriverInit ==
  /\ study \in {"m0", "v001"}
  /\ phase = IF study = "m0" THEN "problems" ELSE "calibrate"
  /\ drawn = NoWorld
  /\ recorded = <<>>
  /\ designed = NoCases
  /\ exactly = TRUE
  /\ verdict = NoDecision

\* An oracle process exits with an error, times out or prints no JSON: the
\* exception leaves the driver, and the package of a failed run has no claims.
OracleDies ==
  /\ phase \in {"problems", "designed", "fraction"}
  /\ phase' = "ended"
  /\ UNCHANGED <<study, drawn, recorded, designed, exactly, verdict>>

RecordedRows == Range(recorded)

Row(environment, answers, matches, gates) ==
  [environment |-> environment, answers |-> answers, matches |-> matches, gates |-> gates]

AfterRow_FaultOneMore(rows, then) == IF Len(rows) > ManifestRows THEN then ELSE "problems"

\* The loop over the rows of the manifest, and what comes after it.
AfterRow(rows, then) == IF Len(rows) = ManifestRows THEN then ELSE "problems"

M0Problem ==
  /\ study = "m0" /\ phase = "problems"
  /\ \E w \in Worlds, e, b \in Answers :
       LET m == Measured[w] IN
       /\ drawn' = w
       /\ recorded' = Append(recorded,
            Row(m.environment, {e, b}, Matches(m.enumeration, e) /\ Matches(m.bellman, b), m.gates))
  /\ phase' = AfterRow(recorded', "designed")
  /\ UNCHANGED <<study, designed, exactly, verdict>>

\* The designed cases; the focal world is gated and given to the oracles too.
M0Designed ==
  /\ study = "m0" /\ phase = "designed"
  /\ \E c \in CaseTable, e, b \in Answers :
       designed' = [focalEnvironment |-> FocalSound,
                    focalAnswers |-> {e, b}, cases |-> c, unbiased |-> FocalUnbiased]
  /\ phase' = "fraction"
  /\ drawn' = NoWorld
  /\ UNCHANGED <<study, recorded, exactly, verdict>>

\* _fraction_exact_check: every problem again, as fractions, where a mismatch
\* is compared with 0.
M0Fraction ==
  /\ study = "m0" /\ phase = "fraction"
  /\ exactly' \in BOOLEAN
  /\ phase' = "decide"
  /\ UNCHANGED <<study, drawn, recorded, designed, verdict>>

\* _integrity_dominates: an invalid run has no other claims than invalid ones.
Decided(integrity, claims) ==
  IF integrity THEN claims ELSE [c \in DOMAIN claims |-> "invalid"]

PassIf(b) == IF b THEN "pass" ELSE "fail"

M0Claims_FaultLastRow(narrow) ==     \* the claims of the last problem only
  LET last == recorded[Len(recorded)]
      denseOk == last.gates.dense = "pass"
  IN Decided(denseOk /\ last.matches /\ last.environment /\ exactly,
             [dense_unbiased |-> PassIf(denseOk), propagated_rejected |-> "pass",
              paired_positive |-> PassIf(narrow), fraction_exact |-> PassIf(exactly)])

M0Claims(narrow) ==
  LET denseOk == \A r \in RecordedRows : r.gates.dense = "pass"
      integrity == denseOk /\ exactly /\ \A r \in RecordedRows : r.matches /\ r.environment
  IN Decided(integrity,
             [dense_unbiased |-> PassIf(denseOk), propagated_rejected |-> "pass",
              paired_positive |-> PassIf(narrow), fraction_exact |-> PassIf(exactly)])

\* The rows go into the archive as they are; the designed cases go into the
\* manifest, where a NaN is refused.
M0Decide ==
  /\ study = "m0" /\ phase = "decide"
  /\ \E narrow \in BOOLEAN :
       verdict' = [claims |-> M0Claims(narrow), published |-> "nan" \notin designed.focalAnswers]
  /\ phase' = "ended"
  /\ UNCHANGED <<study, drawn, recorded, designed, exactly>>

-----------------------------------------------------------------------------
(* V001 *)

\* The expectation of pc_rsg against the target, with q uniform.
Calibrated == [w \in Worlds |-> Unbiased(w, PcRsgDist(w, UniformOdds(w)), Gradient(w))]

\* One calibration world, of one or more.
V001Calibrate ==
  /\ study = "v001" /\ phase = "calibrate"
  /\ \E w \in Worlds :
       /\ drawn' = w
       /\ designed' = [designed EXCEPT !.unbiased = @ /\ Calibrated[w]]
  /\ phase' \in {"calibrate", "problems"}
  /\ UNCHANGED <<study, recorded, exactly, verdict>>

\* The budget must hold a cycle of each estimator; the gate that says so too
\* gets the specification of a dense cycle and no terms.
V001Problem ==
  /\ study = "v001" /\ phase = "problems"
  /\ \E w \in Worlds, e \in Answers :
       LET H == Decisions(w)
           matches == Matches(Measured[w].enumeration, e)
           cost == CostGate(DenseSpec(6), {}, PcRsgCycle(H), H, H, 1, CycleBudget)
           fits == Feasible(CycleBudget, H) /\ Feasible(CycleBudget * H, PcRsgCycle(H))
       IN /\ drawn' = w
          /\ recorded' = IF fits THEN Append(recorded, Row(TRUE, {e}, matches, [cost |-> cost]))
                         ELSE recorded
          /\ phase' = IF fits THEN AfterRow(recorded', "decide") ELSE "ended"
  /\ UNCHANGED <<study, designed, exactly, verdict>>

V001Claims ==
  Decided(\A r \in RecordedRows : r.matches /\ r.gates.cost = "pass",
          [utility_failure |-> "fail", calibration_accurate |-> PassIf(designed.unbiased)])

\* The rows are part of result.json.
V001Publishes == \A r \in RecordedRows : "nan" \notin r.answers

V001Decide ==
  /\ study = "v001" /\ phase = "decide"
  /\ verdict' = [claims |-> V001Claims, published |-> V001Publishes]
  /\ phase' = "ended"
  /\ UNCHANGED <<study, drawn, recorded, designed, exactly>>

DriverNext ==
  \/ M0Problem \/ M0Designed \/ M0Fraction \/ M0Decide
  \/ V001Calibrate \/ V001Problem \/ V001Decide
  \/ OracleDies

DriverSpec == DriverInit /\ [][DriverNext]_driverVars

-----------------------------------------------------------------------------
(* Properties *)

Codes == {"pass", "T001", "T002", "T003", "T004", "T005", "C001"}

DriverTypeOK ==
  /\ study \in {"m0", "v001"}
  /\ phase \in {"calibrate", "problems", "designed", "fraction", "decide", "ended"}
  /\ drawn \in Worlds \cup {NoWorld}
  /\ Len(recorded) <= ManifestRows
  /\ \A r \in RecordedRows : /\ r.environment \in BOOLEAN /\ r.matches \in BOOLEAN
                    /\ r.answers \subseteq Answers
                    /\ \A e \in DOMAIN r.gates : r.gates[e] \in Codes
  /\ exactly \in BOOLEAN
  /\ \A c \in DOMAIN verdict.claims : verdict.claims[c] \in {"pass", "fail", "invalid"}

\* The two oracles and the primary side compute one gradient, by enumerating
\* bit patterns, by backward values and by enumerating paths; and each of its
\* coordinates is the local target of that decision.
OraclesAgree ==
  drawn # NoWorld =>
    /\ Measured[drawn].enumeration /\ Measured[drawn].bellman
    /\ \A t \in Steps(drawn) : LocalTarget(drawn, t)[t] = Gradient(drawn)[t]

\* What a row of M0 says of a world, in terms of its gradient alone: the dense
\* estimators, uniform HH and the local claim always pass; a local contrast
\* passes for the full gradient only if no other coordinate has one, and fails
\* as propagation if it is propagated; the BPO-like one passes only if there
\* is no gradient at all.  Pairs of samples and of siblings are unbiased in every
\* world, and leaving its noise out so in the focal one, where the uncoupled
\* control is too; V001's residual correction is always unbiased.
RowsTell ==
  /\ study = "m0" /\ drawn # NoWorld =>
       LET g == Gradient(drawn)
           gates == recorded[Len(recorded)].gates
           mid == (Decisions(drawn) \div 2) + 1
           alone == \A t \in Steps(drawn) \ {mid} : g[t] = 0
       IN /\ Measured[drawn].pairs
          /\ \A e \in {"dense", "dense_optimal_constant", "uniform_hh",
                       "local_sibling_local_estimand"} : gates[e] = "pass"
          /\ gates.local_sibling_as_full = IF alone THEN "pass" ELSE "T002"
          /\ gates.propagated_sibling = IF alone THEN "pass" ELSE "T003"
          /\ gates.bpo_like = IF alone /\ g[mid] = 0 THEN "pass" ELSE "T003"
  /\ designed.unbiased

Passing == verdict.published /\ \E c \in DOMAIN verdict.claims : verdict.claims[c] = "pass"

\* Nothing is claimed of a run in which one problem of several was degenerate,
\* or an oracle disagreed about it.  compare_oracle takes a NaN for agreement:
\* V001 is saved by result.json, which holds no NaN, M0's archive of rows is not.
NothingPassesOnFailure ==
  Passing =>
    /\ \A r \in RecordedRows : r.environment /\ "wrong" \notin r.answers
    /\ study = "v001" => \A r \in RecordedRows : "nan" \notin r.answers
    /\ study = "m0" => "nan" \notin designed.focalAnswers

\* V001: the "declared cost covers" prefix, suffixes and restores, "evaluated
\* via the same formula".  No driver charges a cycle less than the calculator of
\* its mechanism counts (branching has none at depth 0: two full rollouts), and
\* fixed_budget_mse and the specification find room for as many cycles.
CostsCovered ==
  phase = "calibrate" => \A h \in 1..6 :
    /\ PcRsgCycle(h) = h * CycleTotal(DenseSpec(h)) + (2 * h + 1)
                       + SumFunction([t \in 1..(h - 1) |-> CycleTotal(BranchingSpec(h, t, 2))])
    /\ PairedCycleInM0(h) >= CycleTotal(PairedSpec(h, 0))
    /\ Cycles(CycleBudget, h) = CompleteCycles(DenseSpec(h), CycleBudget).n
    /\ \A d \in 0..(h - 1) :
         /\ InDomain(PairedSpec(h, d))
         /\ BucketCycle(h, TRUE, d, 2) = CycleTotal(PairedSpec(h, d))
         /\ \A k \in {2, 4, 8} :
              InDomain(BranchingSpec(h, d, k)) =>
                BucketCycle(h, FALSE, d, k) = CycleTotal(BranchingSpec(h, d, k))
=============================================================================
