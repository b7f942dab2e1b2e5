\* Two prompts, two generations each, one epoch: credit against its description.
SPECIFICATION TrainingSpec
CONSTANTS
  Kinds <- MCTau
  Estimators <- MCEstimators
  TaskId <- MCTaskId
  Known <- MCKnown
  Criteria <- MCCriteria
  Call <- MCCall
  Required <- MCRequired
  MaxFaults = 0
  Completion <- MCCompletion
  NPrompts = 2
  NEval = 1
  Gens = 2
  Chunk = 8
  Epochs = 1
  PromptLen <- MCPromptLen
  CtsUtility <- MCCtsUtility
INVARIANT CreditAsDescribed
\* The trainer ends.
CHECK_DEADLOCK FALSE
