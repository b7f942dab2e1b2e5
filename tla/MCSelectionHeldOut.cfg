\* What the split check of run() leaves open.
SPECIFICATION LineageSpec
CONSTANTS
  A = A
  B = B
  Narrow = Narrow
  Mixed = Mixed
  Path <- MCPath
  Mapping <- MCMapping
  Collapsed <- MCCollapsed
  Calls <- MCCalls
  Problems = 2
  MaxRuns = 3
INVARIANT HeldOut
\* Every invocation ends.
CHECK_DEADLOCK FALSE
