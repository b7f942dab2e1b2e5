SPECIFICATION ScriptsSpec
CONSTANTS
  \* Two packages: two builds of the report and one change, or the gate and two.
  Dir <- MCDir
  MaxBuilds = 2
  MaxChanges = 2
  \* One launcher: two runs with two attempts each on two cards, three deaths.
  Launcher = {l1}
  NRuns = 2
  Attempts = 2
  Card <- MCCard
  MaxDeaths = 3
  MaxJobs = 1
  MaxSweeps = 1
  \* A prompt of two generations and two to evaluate, two epochs, one fault of
  \* the server.
  Kinds <- MCKinds
  Estimators <- MCLocal
  TaskId <- MCTaskId
  Known <- MCKnown
  Criteria <- MCCriteria
  Call <- MCCall
  Required <- MCRequired
  MaxFaults = 1
  Completion <- MCCompletion
  NPrompts = 1
  NEval = 2
  Gens = 2
  Chunk = 8
  Epochs = 2
  PromptLen <- MCOnePrompt
  CtsUtility <- MCCtsUtility
INVARIANTS
  IndexTypeOK SealedIndexHonest SealedIndexComplete GateTypeOK GateSound
  TypeOK ExportsMatch GatedTriesAll
  TrainingTypeOK UpdatesAccounted RewardRepeatable ConsistentIfOneEpoch
PROPERTIES ReadsBeforeWriting FinishedStays GatedEnds Ends
\* Builds, the gate, changes, launchers and trainers end.
CHECK_DEADLOCK FALSE
