\* One launcher: a run on two cards, two attempts, nothing dies.
SPECIFICATION Spec
CONSTANTS
  Launcher = {l1}
  NRuns = 1
  Attempts = 2
  Card <- MCCard
  MaxDeaths = 0
  MaxJobs = 1
  MaxSweeps = 0
INVARIANT WaitsAreNoAttempts
\* Launchers end.
CHECK_DEADLOCK FALSE
