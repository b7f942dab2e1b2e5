---------------------------- MODULE MCTrainingRun ----------------------------
(* TrainingRun for TLC: one prompt of a chunk longer than the other, an id   *)
(* the server does not have, a completion whose last token is a decision.    *)
EXTENDS TrainingRun

MCKinds == {"cts_order", "tau2_retail"}
MCTau == {"tau2_retail"}
MCEstimators == {"dense", "local", "paired"}
MCLocal == {"local"}
MCTaskId == {"t1", "t2", "t3"}
MCKnown == {"t1", "t2"}
MCCriteria == {"t1"}
MCCall == {"a"}
MCRequired == [t \in MCCriteria |-> {"a"}]
MCCompletion == {[len |-> 1, pos |-> {}, calls |-> {}], [len |-> 3, pos |-> {0, 2}, calls |-> {"a"}]}
MCPromptLen == <<1, 2>>
MCOnePrompt == <<1>>
MCCtsUtility == [c \in SUBSET MCCall |-> IF c = {} THEN 0 ELSE 50]
=============================================================================
