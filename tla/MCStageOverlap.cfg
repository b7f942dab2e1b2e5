\* Two launchers: two runs on two cards, nothing dies.
SPECIFICATION Spec
CONSTANTS
  Launcher = {l1, l2}
  NRuns = 2
  Attempts = 2
  Card <- MCCard
  MaxDeaths = 0
  MaxJobs = 1
  MaxSweeps = 0
INVARIANT OneTrainerPerCard
\* Launchers end.
CHECK_DEADLOCK FALSE
