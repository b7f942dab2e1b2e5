\* What the index says of a damaged package.
SPECIFICATION IndexSpec
CONSTANTS
  Dir <- MCDir
  MaxBuilds = 1
  MaxChanges = 1
INVARIANT IndexedPassIsIntact
CHECK_DEADLOCK FALSE
