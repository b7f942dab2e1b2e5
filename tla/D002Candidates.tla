---------------------------- MODULE D002Candidates ----------------------------
(***************************************************************************)
(* The mapping space of the D002 calibration (experiments/d002.py): one    *)
(* (depth, width) option per bucket, numbered in the order in which        *)
(* itertools.product hands them to the scan.                               *)
(***************************************************************************)
EXTENDS Integers, Sequences, Products

CONSTANTS
  Horizon,     \* Horizon[b]: decisions in bucket b, in BUCKET_ORDER
  Depths       \* Depths[b]: the two branching depths the protocol allows in b

ASSUME BucketAssumption ==
  /\ Horizon \in Seq(Nat \ {0}) /\ Len(Horizon) = Len(Depths)
  /\ \A b \in 1..Len(Horizon) :
       /\ Len(Depths[b]) = 2
       /\ \A k \in 1..2 : Depths[b][k] \in 0..(Horizon[b] - 1)

Bucket == 1..Len(Horizon)
Widths == <<2, 4, 8>>

Dense == [depth |-> -1, width |-> 1]      \* (None, 1)

\* _bucket_options: dense first, then by depth, then by width.
PerBucket == 1 + 2 * Len(Widths)
Option(b, i) ==
  IF i = 0 THEN Dense
  ELSE [depth |-> Depths[b][((i - 1) \div Len(Widths)) + 1],
        width |-> Widths[((i - 1) % Len(Widths)) + 1]]

\* The position of a combo in itertools.product, counted from 1.
Candidates == Power(PerBucket, Len(Horizon))
Place(b) == Power(PerBucket, Len(Horizon) - b)
Digit(i, b) == ((i - 1) \div Place(b)) % PerBucket
Combo(i) == [b \in Bucket |-> Option(b, Digit(i, b))]

(***************************************************************************)
(* What the moments are computed from.  The calibration calls              *)
(* paired_replay_all_bucket_moments(problem, b, d): the width is not one   *)
(* of its arguments, and mapping_cycle_cost only asks whether it is 1.     *)
(***************************************************************************)
ShapeOf(i) == [b \in Bucket |-> Combo(i)[b].depth]

\* Per bucket: horizon for dense, else horizon + sum of (horizon - t) + 1.
BucketCost(b, o) ==
  IF o.width = 1 THEN Horizon[b]
  ELSE LET n == Horizon[b] - o.depth IN Horizon[b] + ((n * (n + 1)) \div 2) + n

CycleCost(i) == SumFunction([b \in Bucket |-> BucketCost(b, Combo(i)[b])])
=============================================================================
