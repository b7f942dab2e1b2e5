---------------------------- MODULE CalibrationScan ----------------------------
(***************************************************************************)
(* The scan that picks the D002 mapping (experiments/d002.py): one pass    *)
(* over the candidates that keeps the best so far, where an objective      *)
(* within Tolerance of the best counts as a tie and the cheaper wins it.   *)
(*                                                                         *)
(* Objectives are integers, in units finer than Tolerance; candidates of   *)
(* one shape have the same.                                                *)
(***************************************************************************)
EXTENDS Integers

CONSTANTS
  Count,       \* the number of candidates
  Shape,       \* Shape[i]: what candidate i's moments are computed from
  Cost,        \* Cost[i]: candidate i's mean cycle cost
  Objectives,  \* the values an objective can have
  Tolerance    \* the 1e-15 of the code

ASSUME ScanAssumption ==
  /\ Count \in Nat \ {0}
  /\ Cost \in [1..Count -> Int]
  /\ Objectives \subseteq Int
  /\ Tolerance \in Nat

VARIABLES
  objective,   \* objective[i]: candidate i's mean log MSE over the problems
  next,        \* the candidate the loop looks at next
  best         \* best_combo, NoBest before the first

scanVars == <<objective, next, best>>

Candidate == 1..Count
NoBest == 0

ScanInit ==
  /\ \E f \in [{Shape[i] : i \in Candidate} -> Objectives] :
       objective = [i \in Candidate |-> f[Shape[i]]]
  /\ next = 1
  /\ best = NoBest

Tied(i, j) == objective[i] - objective[j] \in (-Tolerance)..Tolerance

Improves_FaultLastTie(i) ==          \* <= where the code has <
  \/ best = NoBest
  \/ objective[i] < objective[best] - Tolerance
  \/ Tied(i, best) /\ Cost[i] <= Cost[best]

Improves_FaultBoth(i) ==             \* better and cheaper, where the code has or
  \/ best = NoBest
  \/ objective[i] < objective[best] - Tolerance /\ Cost[i] < Cost[best]
  \/ Tied(i, best) /\ Cost[i] < Cost[best]

Improves(i) ==
  \/ best = NoBest
  \/ objective[i] < objective[best] - Tolerance
  \/ Tied(i, best) /\ Cost[i] < Cost[best]

Consider_FaultCountsFirst ==         \* the index taken after it was advanced
  /\ next \in Candidate
  /\ next' = next + 1
  /\ best' = IF Improves(next) THEN next' ELSE best
  /\ UNCHANGED objective

Consider ==
  /\ next \in Candidate
  /\ best' = IF Improves(next) THEN next ELSE best
  /\ next' = next + 1
  /\ UNCHANGED objective

ScanNext == Consider

ScanSpec == ScanInit /\ [][ScanNext]_scanVars

Done == next > Count

-----------------------------------------------------------------------------
(* Properties *)

ScanTypeOK ==
  /\ objective \in [Candidate -> Objectives]
  /\ next \in 1..(Count + 1)
  /\ best \in 0..(next - 1)
  /\ best = NoBest => next = 1

\* Objectives that differ, differ by more than a tie.
Separated ==
  \A x, y \in {objective[i] : i \in Candidate} : x < y => y - x > Tolerance

\* i is before j in the declared order: objective, cycle cost, index.
Before(i, j) ==
  \/ objective[i] < objective[j]
  \/ objective[i] = objective[j] /\ Cost[i] < Cost[j]
  \/ objective[i] = objective[j] /\ Cost[i] = Cost[j] /\ i <= j

\* "tie_break": ["objective", "cycle_cost", "candidate_index"].  When no two
\* objectives are closer than the tolerance, the selected candidate is the
\* first in that order of all those looked at.
DeclaredTieBreak ==
  best # NoBest /\ Separated => \A j \in 1..(next - 1) : Before(best, j)

\* Ties are not transitive: a chain of ties, each cheaper than the last, may
\* carry the best away from the least objective seen, but never by more than
\* one tolerance for each candidate looked at since.
DriftBounded ==
  best # NoBest =>
    \A j \in 1..(next - 1) : objective[best] - objective[j] <= Tolerance * (next - j)
=============================================================================
