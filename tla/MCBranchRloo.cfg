\* Root-RLOO in every bucket.
SPECIFICATION BranchSpec
CONSTANTS
  Unit = 4
  NoiseWeight = 2
  SharedProblems <- MCShortProblems
  BranchDepths = {1, 2}
  BranchWidths = {2, 4}
  Widest = 4
INVARIANT RlooExact
CHECK_DEADLOCK FALSE
