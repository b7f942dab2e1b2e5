------------------------------ MODULE MCScripts ------------------------------
(* The scripts, one at a time, for TLC: the release report or the release    *)
(* gate over two package directories while packages change, the launchers of  *)
(* the stage-3 matrix on two cards, or one of its trainers.  The others'      *)
(* variables rest.                                                            *)
EXTENDS MCReleaseIndex, ReleaseGate, MCStageMatrix, MCTrainingRun

VARIABLE script

reportVars == <<builds, doing, todo, entry, index, hashes, root>>
scriptVars == <<packVars, reportVars, gate, vars, trainingVars, script>>

NoPackages == pack = [d \in Dir |-> NoPack]
NoLaunch == kind = "picking" /\ foreign = {} /\ \A l \in Launcher : at[l] = "done"

\* A trainer that was killed before it did anything.
NoTraining ==
  /\ ServerInit /\ taskKind = "cts_order" /\ estimator = "local" /\ phase = "dead"
  /\ i = 1 /\ request = "reset" /\ epoch = 0 /\ asked = [list \in {"prompts", "evals"} |-> <<>>]
  /\ rows = <<>> /\ log = [e \in 0..(Epochs - 1) |-> NoEvents] /\ manifest = BaseManifest
  /\ records = <<>> /\ scores = <<>> /\ export = NoExport /\ judged = {}

ScriptsInit ==
  /\ IndexInit /\ GateInit /\ Init
  /\ \/ script \in {"report", "gate"} /\ NoLaunch /\ NoTraining
     \/ script = "launchers" /\ NoPackages /\ NoTraining
     \/ script = "training" /\ NoPackages /\ NoLaunch /\ TrainingInit

\* One change beside the report: two take TLC minutes.
ScriptsNext ==
  /\ UNCHANGED script
  /\ \/ /\ script = "report" /\ IndexNext /\ changes' <= 1
        /\ UNCHANGED <<gate, vars, trainingVars>>
     \/ script = "gate" /\ GateNext /\ UNCHANGED <<reportVars, vars, trainingVars>>
     \/ script = "launchers" /\ Next /\ UNCHANGED <<packVars, reportVars, gate, trainingVars>>
     \/ script = "training" /\ TrainingNext /\ UNCHANGED <<packVars, reportVars, gate, vars>>

\* The fairness of StageMatrix and of TrainingRun, when it is they that run.
Launching ==
  script = "launchers" /\ UNCHANGED <<packVars, reportVars, gate, trainingVars, script>>
Training == script = "training" /\ UNCHANGED <<packVars, reportVars, gate, vars, script>>

ScriptsSpec ==
  /\ ScriptsInit /\ [][ScriptsNext]_scriptVars
  /\ \A l \in Launcher : /\ WF_scriptVars(Launching /\ Script(l))
                          /\ WF_scriptVars(Launching /\ Train(l))
  /\ WF_scriptVars(Launching /\ JobEnds)
  /\ WF_scriptVars(Training /\ TrainStep)
  /\ WF_scriptVars(Training /\ ServeLate /\ UNCHANGED trainerVars)
=============================================================================
