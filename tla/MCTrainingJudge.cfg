\* Two prompts, two generations each, one epoch: who judges what.
SPECIFICATION TrainingSpec
CONSTANTS
  Kinds <- MCTau
  Estimators <- MCLocal
  TaskId <- MCTaskId
  Known <- MCKnown
  Criteria <- MCCriteria
  Call <- MCCall
  Required <- MCRequired
  MaxFaults = 1
  Completion <- MCCompletion
  NPrompts = 2
  NEval = 1
  Gens = 2
  Chunk = 8
  Epochs = 1
  PromptLen <- MCPromptLen
  CtsUtility <- MCCtsUtility
INVARIANT JudgedByOwnTask
\* The trainer ends.
CHECK_DEADLOCK FALSE
