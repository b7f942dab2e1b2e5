--------------------------- MODULE MCCalibrationScan ---------------------------
(* CalibrationScan over the mappings of two D002 buckets, for TLC. *)
EXTENDS D002Candidates, CalibrationScan

MCHorizon == <<3, 5>>                \* short_mixed and medium_mixed
MCDepths == << <<0, 1>>, <<0, 3>> >>
MCCount == Candidates
MCShape == [i \in 1..Candidates |-> ShapeOf(i)]
MCCost == [i \in 1..Candidates |-> CycleCost(i)]
MCObjectives == 0..2

Selected == Combo(best)
Branched(b) == Selected[b].width # 1

\* Decision log D9: the width is "cost- and variance-neutral".  So the scan
\* meets every branched depth at width 2 first and never leaves it for a wider
\* one: the mechanism gate is asked about widths the calibration cannot vary.
NarrowestWidth ==
  best # NoBest /\ Separated =>
    \A b \in Bucket : Branched(b) => Selected[b].width = 2
=============================================================================
