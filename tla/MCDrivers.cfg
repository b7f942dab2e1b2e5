SPECIFICATION DriversSpec
CONSTANTS
  \* Two rows of a manifest; the third decision makes V001's cycles too dear.
  Unit = 4
  Worlds <- MCWorlds
  ManifestRows = 2
  FocalSteps = 3
  FocalNoise <- MCNoise
  CycleBudget = 8
  \* One or two buckets.
  NoiseWeight = 2
  SharedProblems <- MCSharedProblems
  BranchDepths = {1, 2}
  BranchWidths = {2, 4}
  Widest = 4
  \* Two buckets, 49 candidates of 9 shapes, every choice of objectives.
  Horizon <- MCHorizon
  Depths <- MCDepths
  Count <- MCCount
  Shape <- MCShape
  Cost <- MCCost
  Objectives <- MCObjectives
  Tolerance = 1
  \* Three overlapping invocations, edits and removals at any moment.
  A = A
  B = B
  Narrow = Narrow
  Mixed = Mixed
  Path <- MCPath
  Mapping <- MCMapping
  Collapsed <- MCCollapsed
  Calls <- MCCalls
  Problems = 2
  MaxRuns = 3
INVARIANTS
  DriverTypeOK OraclesAgree RowsTell NothingPassesOnFailure CostsCovered
  SharedOraclesAgree OptionsUnbiased MomentsExact
  ScanTypeOK DeclaredTieBreak DriftBounded NarrowestWidth
  LineageTypeOK ScoredAsHashed OraclesAgreed HeldOutIfNamed
\* The drivers end.
CHECK_DEADLOCK FALSE
