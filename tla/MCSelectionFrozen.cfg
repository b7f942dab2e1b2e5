\* What the self-hash of a selection leaves open.
SPECIFICATION LineageSpec
CONSTANTS
  A = A
  B = B
  Narrow = Narrow
  Mixed = Mixed
  Path <- MCPath
  Mapping <- MCMapping
  Collapsed <- MCCollapsed
  Calls <- MCCalls
  Problems = 2
  MaxRuns = 3
INVARIANT FrozenSelection
\* Every invocation ends.
CHECK_DEADLOCK FALSE
