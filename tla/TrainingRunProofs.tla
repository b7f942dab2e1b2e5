-------------------------- MODULE TrainingRunProofs --------------------------
(***************************************************************************)
(* What holds of every training run: for any tasks, calls, completions,    *)
(* numbers of prompts, generations and epochs, and any number of timeouts  *)
(* and crashes of the server.                                              *)
(***************************************************************************)
EXTENDS TrainingRun, FiniteSetTheorems, SequenceTheorems, WellFoundedInduction, NaturalsInduction,
        TLAPS

Requests ==
  [op : {"init", "reset", "exec", "eval"}, task : TaskId \cup {NoTask}, calls : SUBSET Call]

RowType == [len : Nat \ {0}, pos : SUBSET Nat, calls : SUBSET Call, u : 0..100]

\* Where main holds the rows of an epoch, and where it holds completions of
\* the evaluation.
InEpoch == {"identity", "reward", "records", "preupdate", "update"}
AfterEpochs == {"complete", "evaluate", "export", "done"}
Before == {"prompts", "evals", "rollout"}

-----------------------------------------------------------------------------
(* Arithmetic of pass_pct *)

LEMMA Percent ==
  ASSUME NEW a \in Nat, NEW b \in Nat \ {0}, a <= b
  PROVE  (100 * a) \div b \in 0..100
  <1> DEFINE q == (100 * a) \div b
  <1>1. q \in Int /\ b * q <= 100 * a /\ 100 * a < b * (q + 1)
    BY Z3
  <1>2. q >= 0
    BY <1>1, Z3
  <1>3. q <= 100
    BY <1>1, Z3
  <1> QED
    BY <1>1, <1>2, <1>3

\* What the judge says is a function of the task and the calls it has seen.
Judged(task, calls) == EvalTask([task |-> task, history |-> calls])

LEMMA EvalIsPercent ==
  ASSUME NEW s, s.history \in SUBSET Call
  PROVE  EvalTask(s) \in 0..100
  <1>1. CASE s.task \notin Criteria \/ Required[s.task] = {}
    BY <1>1 DEF EvalTask
  <1>2. CASE s.task \in Criteria /\ Required[s.task] # {}
    <2> DEFINE R == Required[s.task]
               M == R \cap s.history
    <2>1. IsFiniteSet(R)
      BY <1>2, ServerAssumption
    <2>2. IsFiniteSet(M) /\ Cardinality(M) <= Cardinality(R)
      BY <2>1, FS_Subset
    <2>3. Cardinality(R) \in Nat \ {0} /\ Cardinality(M) \in Nat
      BY <1>2, <2>1, <2>2, FS_CardinalityType, FS_EmptySet
    <2>4. (100 * Cardinality(M)) \div Cardinality(R) \in 0..100
      BY <2>2, <2>3, Percent
    <2> QED
      BY <1>2, <2>4 DEF EvalTask
  <1> QED
    BY <1>1, <1>2

-----------------------------------------------------------------------------
(* The server, whoever moves it *)

LEMMA HandleType ==
  ASSUME ServerTypeOK, NEW q \in Requests
  PROVE  Handle(server, q) \in [up : BOOLEAN, task : TaskId \cup {NoTask}, history : SUBSET Call,
                                env : {"none", "loaded", "changed"}]
  BY ServerAssumption DEF ServerTypeOK, Requests, Handle, InitWorld, Reset, ExecCode

LEMMA AnsweredType ==
  ASSUME ServerTypeOK, NEW q \in Requests, Answered(q)
  PROVE  ServerTypeOK'
  BY HandleType DEF Answered, ServerTypeOK

LEMMA FailsType ==
  ASSUME ServerTypeOK, NEW q \in Requests, Fails(q)
  PROVE  ServerTypeOK' /\ server' = server /\ late' \in {late, Append(late, q)}
  <1>1. CASE Refused(q)
    BY <1>1 DEF Refused, serverVars, ServerTypeOK
  <1>2. CASE TimesOut(q)
    <2>1. late' \in Seq(Requests)
      BY <1>2 DEF TimesOut, ServerTypeOK, Requests
    <2> QED
      BY <1>2, <2>1, ServerAssumption DEF TimesOut, ServerTypeOK, Requests
  <1> QED
    BY <1>1, <1>2 DEF Fails

LEMMA AloneType ==
  ASSUME ServerTypeOK, ServerAlone
  PROVE  ServerTypeOK'
  <1>1. late \in Seq(Requests)
    BY DEF ServerTypeOK, Requests
  <1>2. CASE ServeLate
    <2>1. late # <<>>
      BY <1>2 DEF ServeLate
    <2>2. Head(late) \in Requests /\ Tail(late) \in Seq(Requests)
      BY <1>1, <2>1
    <2> QED
      BY <1>2, <2>2, HandleType DEF ServeLate, ServerTypeOK, Requests
  <1>3. CASE ServerCrashes \/ ServerRestarts
    <2>1. Fresh \in [up : BOOLEAN, task : TaskId \cup {NoTask}, history : SUBSET Call,
                     env : {"none", "loaded", "changed"}]
      BY DEF Fresh
    <2>2. faults' \in 0..MaxFaults
      BY <1>3, ServerAssumption DEF ServerCrashes, ServerRestarts, ServerTypeOK
    <2>3. late' \in Seq(Requests)
      BY <1>1, <1>3, EmptySeq DEF ServerCrashes, ServerRestarts
    <2> QED
      BY <1>3, <2>1, <2>2, <2>3 DEF ServerCrashes, ServerRestarts, ServerTypeOK, Requests
  <1> QED
    BY <1>2, <1>3 DEF ServerAlone

-----------------------------------------------------------------------------
(* Type correctness, with the rows and the events counted row by row *)

Entry == [DOMAIN NoEvents -> 0..N]

\* The events of the epoch main is in.
EpochEvents ==
  LET first == IF phase \in Before THEN 0 ELSE IF phase = "identity" THEN i - 1 ELSE N
      second == IF phase \in Before \cup {"identity", "reward", "records"} THEN 0
                ELSE IF phase = "preupdate" THEN i - 1 ELSE N
      last == IF phase \in AfterEpochs THEN 1 ELSE 0
  IN [gen |-> first, scoring |-> first, identity |-> first, reward |-> second,
      preupdate |-> second, input |-> second, update |-> last]

Manifests == [policy_version : Nat, parent : Int, adapters : SUBSET Nat, checkpoint : {"base"}]

Full == [gen |-> N, scoring |-> N, identity |-> N, reward |-> N, preupdate |-> N,
         input |-> N, update |-> 1]

RowsInv == phase \in InEpoch => rows \in [EpochRow -> RowType]

ScoresInv ==
  phase = "evaluate" => scores \in [1..NEval -> [calls : SUBSET Call, u : 0..100]] /\ i \in 1..NEval

LoopInv ==
  /\ phase \in {"identity", "reward", "preupdate"} => i \in EpochRow
  /\ phase \in {"rollout", "records", "update", "complete"} => i = 1
  /\ phase \in Before \cup InEpoch => manifest.policy_version = epoch
  /\ phase \in AfterEpochs => manifest.policy_version = Epochs /\ epoch = Epochs - 1

LogInv ==
  /\ \A e \in DOMAIN log : e < epoch => log[e] = Full
  /\ \A e \in DOMAIN log : e > epoch => log[e] = NoEvents
  /\ phase # "dead" => log[epoch] = EpochEvents
  /\ log[epoch].update = 0 \/ log[epoch] = Full
  /\ manifest \in Manifests
  /\ manifest.policy_version = epoch + log[epoch].update
  /\ manifest.adapters = 1..manifest.policy_version

IInv == TrainingTypeOK /\ RowsInv /\ ScoresInv /\ LoopInv /\ LogInv

LEMMA Sizes ==
  /\ NPrompts \in Nat \ {0} /\ Gens \in Nat \ {0} /\ NEval \in Nat \ {0} /\ Epochs \in Nat \ {0}
  /\ N \in Nat \ {0} /\ 1 \in EpochRow /\ 0 \in 0..(Epochs - 1)
  <1>1. /\ NPrompts \in Nat \ {0} /\ Gens \in Nat \ {0} /\ NEval \in Nat \ {0}
        /\ Epochs \in Nat \ {0} /\ N \in Nat
    BY TrainingAssumption
  <1>2. N # 0
    BY <1>1, Z3 DEF N
  <1> QED
    BY <1>1, <1>2 DEF EpochRow

LEMMA InitInv == TrainingInit => IInv
  <1> SUFFICES ASSUME TrainingInit PROVE IInv
    OBVIOUS
  <1>1. ServerTypeOK
    BY ServerAssumption, EmptySeq DEF TrainingInit, ServerInit, Fresh, ServerTypeOK
  <1>2. log \in [0..(Epochs - 1) -> [DOMAIN NoEvents -> 0..N]]
    BY Sizes DEF TrainingInit, NoEvents
  <1>3. asked \in [{"prompts", "evals"} -> Seq(Known)]
    <2>1. <<>> \in Seq(Known)
      BY EmptySeq
    <2> QED
      BY <2>1 DEF TrainingInit
  <1>4. TrainingTypeOK
    BY <1>1, <1>2, <1>3, Sizes DEF TrainingInit, TrainingTypeOK, NextRequest
  <1>5. LogInv
    BY Sizes DEF TrainingInit, LogInv, EpochEvents, NoEvents, Before, AfterEpochs, BaseManifest, Manifests
  <1> QED
    BY <1>4, <1>5, Sizes DEF TrainingInit, IInv, RowsInv, ScoresInv, LoopInv, InEpoch, AfterEpochs, Before, BaseManifest

-----------------------------------------------------------------------------
(* One lemma per action of main *)

LEMMA PrepareKeepsInv == ASSUME IInv, PrepareTask PROVE IInv'
  <1>1. ServerTypeOK'
    <2>1. PICK task \in TaskId : Answered(AskFor(task)) \/ Fails(AskFor(task))
      BY DEF PrepareTask
    <2>2. AskFor(task) \in Requests
      BY DEF AskFor, Request, Requests
    <2> QED
      BY <2>1, <2>2, AnsweredType, FailsType DEF IInv, TrainingTypeOK
  <1>2. /\ phase' \in {"prompts", "evals", "rollout", "dead"} /\ phase \in {"prompts", "evals"}
        /\ i' \in Nat \ {0} /\ (phase' = "rollout" => i' = 1)
        /\ asked' \in [{"prompts", "evals"} -> Seq(Known)]
    <2>1. phase \in {"prompts", "evals"} /\ i \in Nat \ {0} /\ asked \in [{"prompts", "evals"} -> Seq(Known)]
      BY DEF PrepareTask, IInv, TrainingTypeOK
    <2>2. \A task \in Known : Append(asked[phase], task) \in Seq(Known)
      BY <2>1, AppendProperties
    <2>3. asked' \in [{"prompts", "evals"} -> Seq(Known)]
      BY <2>1, <2>2 DEF PrepareTask
    <2> QED
      BY <2>1, <2>3 DEF PrepareTask, Dead
  <1>3. UNCHANGED <<taskKind, estimator, request, epoch, rows, log, manifest, judged>>
    BY DEF PrepareTask
  <1>4. phase' # "dead" => EpochEvents' = EpochEvents
    BY <1>2, <1>3 DEF EpochEvents, Before, AfterEpochs
  <1>5. TrainingTypeOK'
    BY <1>1, <1>2, <1>3 DEF IInv, TrainingTypeOK
  <1>6. RowsInv' /\ ScoresInv' /\ LoopInv'
    BY <1>2, <1>3 DEF IInv, RowsInv, ScoresInv, LoopInv, InEpoch, AfterEpochs, Before
  <1> QED
    BY <1>2, <1>3, <1>4, <1>5, <1>6 DEF IInv, LogInv

LEMMA RolloutKeepsInv == ASSUME IInv, Rollout PROVE IInv'
  <1>1. rows' \in [EpochRow -> RowType]
    BY TrainingAssumption DEF Rollout, RowType
  <1>2. /\ phase = "rollout" /\ phase' = "identity"
        /\ UNCHANGED <<serverVars, taskKind, estimator, i, request, asked, epoch, log, manifest, judged>>
    BY DEF Rollout
  <1>3. i = 1 /\ i' \in EpochRow
    BY <1>2, Sizes DEF IInv, LoopInv
  <1>4. EpochEvents' = EpochEvents
    BY <1>2, <1>3 DEF EpochEvents, Before, AfterEpochs
  <1>5. TrainingTypeOK'
    BY <1>1, <1>2 DEF IInv, TrainingTypeOK, ServerTypeOK, serverVars, RowType
  <1> QED
    BY <1>1, <1>2, <1>3, <1>4, <1>5
    DEF IInv, RowsInv, ScoresInv, LoopInv, LogInv, InEpoch, AfterEpochs, Before

\* What an emission does to the log.
LEMMA EmitsFacts ==
  ASSUME IInv, NEW types, Emits(types)
  PROVE  /\ log' \in [0..(Epochs - 1) -> [DOMAIN NoEvents -> 0..(N + 1)]]
         /\ \A e \in 0..(Epochs - 1) : e # epoch => log'[e] = log[e]
         /\ log'[epoch] = [y \in DOMAIN NoEvents |-> log[epoch][y] + IF y \in types THEN 1 ELSE 0]
  <1>1. log \in [0..(Epochs - 1) -> [DOMAIN NoEvents -> 0..N]] /\ epoch \in 0..(Epochs - 1)
    BY DEF IInv, TrainingTypeOK
  <1>2. [y \in DOMAIN NoEvents |-> log[epoch][y] + IF y \in types THEN 1 ELSE 0]
          \in [DOMAIN NoEvents -> 0..(N + 1)]
    BY <1>1, Sizes
  <1>3. log' = [log EXCEPT ![epoch] =
                  [y \in DOMAIN NoEvents |-> log[epoch][y] + IF y \in types THEN 1 ELSE 0]]
    BY <1>1 DEF Emits
  <1>4. [DOMAIN NoEvents -> 0..N] \subseteq [DOMAIN NoEvents -> 0..(N + 1)]
    BY Sizes
  <1> QED
    BY <1>1, <1>2, <1>3, <1>4

\* A step of main that emits, or not, and stays in the epoch.
LEMMA EmittedKeepsInv ==
  ASSUME IInv, NEW types, Emits(types), UNCHANGED serverVars,
         UNCHANGED <<taskKind, estimator, asked, epoch, request, rows, manifest, judged>>,
         phase \in InEpoch, phase' \in InEpoch \cup {"dead"}, "update" \notin types, i' \in Nat \ {0},
         log'[epoch] \in [DOMAIN NoEvents -> 0..N],
         phase' \in {"identity", "reward", "preupdate"} => i' \in EpochRow,
         phase' \in {"records", "update"} => i' = 1,
         phase' # "dead" => log'[epoch] = EpochEvents'
  PROVE  IInv'
  <1>1. log' \in [0..(Epochs - 1) -> [DOMAIN NoEvents -> 0..N]]
    BY EmitsFacts DEF IInv, TrainingTypeOK
  <1>2. TrainingTypeOK'
    BY <1>1 DEF IInv, TrainingTypeOK, RowsInv, RowType, InEpoch, ServerTypeOK, serverVars
  <1>3. log[epoch].update = 0
    BY DEF IInv, LogInv, InEpoch, EpochEvents, AfterEpochs
  <1>4. log'[epoch].update = 0
    <2>1. log'[epoch] = [y \in DOMAIN NoEvents |-> log[epoch][y] + IF y \in types THEN 1 ELSE 0]
      BY EmitsFacts
    <2>2. "update" \in DOMAIN NoEvents
      BY DEF NoEvents
    <2> QED
      BY <1>3, <2>1, <2>2
  <1>5. LogInv'
    <2>1. DOMAIN log' = DOMAIN log /\ epoch \in DOMAIN log
      BY <1>1 DEF IInv, TrainingTypeOK
    <2>2. \A e \in DOMAIN log : e # epoch => log'[e] = log[e]
      BY EmitsFacts DEF IInv, TrainingTypeOK
    <2>3. epoch \in 0..(Epochs - 1)
      BY DEF IInv, TrainingTypeOK
    <2> QED
      BY <1>3, <1>4, <2>1, <2>2, <2>3 DEF IInv, TrainingTypeOK, LogInv
  <1> QED
    BY <1>2, <1>5 DEF IInv, RowsInv, ScoresInv, LoopInv, InEpoch, AfterEpochs, Before

LEMMA EmitAndValidateKeepsInv == ASSUME IInv, EmitAndValidate PROVE IInv'
  <1>1. phase = "identity" /\ i \in EpochRow /\ log[epoch] = EpochEvents
    BY DEF EmitAndValidate, IInv, LoopInv, LogInv
  <1>2. UNCHANGED <<serverVars, taskKind, estimator, asked, epoch, request, rows, manifest, judged>>
    BY DEF EmitAndValidate
  <1>3. CASE Emits({"gen", "scoring", "identity"}) /\ Loops("reward")
    <2>1. /\ IF i < N THEN i' = i + 1 /\ phase' = phase ELSE i' = 1 /\ phase' = "reward"
      BY <1>3 DEF Loops
    <2>2. log'[epoch] = [y \in DOMAIN NoEvents |->
                           log[epoch][y] + IF y \in {"gen", "scoring", "identity"} THEN 1 ELSE 0]
      BY <1>3, EmitsFacts
    <2>3. log'[epoch] = EpochEvents'
      BY <1>1, <1>2, <2>1, <2>2, Sizes DEF EpochEvents, NoEvents, EpochRow, Before, AfterEpochs
    <2>4. i' \in EpochRow /\ phase' \in {"identity", "reward"}
      BY <1>1, <2>1, Sizes DEF EpochRow
    <2>5. log'[epoch] \in [DOMAIN NoEvents -> 0..N]
      BY <1>2, <2>3, <2>4, Sizes DEF EpochEvents, NoEvents, EpochRow, Before, AfterEpochs
    <2> QED
      BY <1>1, <1>2, <1>3, <2>3, <2>4, <2>5, EmittedKeepsInv DEF EpochRow, InEpoch
  <1>4. CASE Emits({"gen", "scoring"}) /\ Dead /\ UNCHANGED i
    <2>1. log'[epoch] = [y \in DOMAIN NoEvents |->
                           log[epoch][y] + IF y \in {"gen", "scoring"} THEN 1 ELSE 0]
      BY <1>4, EmitsFacts
    <2>2. log'[epoch] \in [DOMAIN NoEvents -> 0..N]
      BY <1>1, <2>1, Sizes DEF EpochEvents, NoEvents, EpochRow, Before, AfterEpochs
    <2> QED
      BY <1>1, <1>2, <1>4, <2>2, EmittedKeepsInv DEF EpochRow, InEpoch, Dead
  <1> QED
    BY <1>3, <1>4 DEF EmitAndValidate

LEMMA PreUpdateKeepsInv == ASSUME IInv, PreUpdate PROVE IInv'
  <1>1. phase = "preupdate" /\ i \in EpochRow /\ log[epoch] = EpochEvents
    BY DEF PreUpdate, IInv, LoopInv, LogInv
  <1>2. UNCHANGED <<serverVars, taskKind, estimator, asked, epoch, request, rows, manifest, judged>>
    BY DEF PreUpdate
  <1>3. CASE Emits({"reward", "preupdate", "input"}) /\ Loops("update")
    <2>1. IF i < N THEN i' = i + 1 /\ phase' = phase ELSE i' = 1 /\ phase' = "update"
      BY <1>3 DEF Loops
    <2>2. log'[epoch] = [y \in DOMAIN NoEvents |->
                           log[epoch][y] + IF y \in {"reward", "preupdate", "input"} THEN 1 ELSE 0]
      BY <1>3, EmitsFacts
    <2>3. log'[epoch] = EpochEvents'
      BY <1>1, <1>2, <2>1, <2>2, Sizes DEF EpochEvents, NoEvents, EpochRow, Before, AfterEpochs
    <2>4. i' \in EpochRow /\ phase' \in {"preupdate", "update"} /\ (phase' = "update" => i' = 1)
      BY <1>1, <2>1, Sizes DEF EpochRow
    <2>5. log'[epoch] \in [DOMAIN NoEvents -> 0..N]
      BY <1>2, <2>3, <2>4, Sizes DEF EpochEvents, NoEvents, EpochRow, Before, AfterEpochs
    <2> QED
      BY <1>1, <1>2, <1>3, <2>3, <2>4, <2>5, EmittedKeepsInv DEF EpochRow, InEpoch
  <1>4. CASE Emits({"reward"}) /\ Dead /\ UNCHANGED i
    <2>1. log'[epoch] = [y \in DOMAIN NoEvents |-> log[epoch][y] + IF y \in {"reward"} THEN 1 ELSE 0]
      BY <1>4, EmitsFacts
    <2>2. log'[epoch] \in [DOMAIN NoEvents -> 0..N]
      BY <1>1, <2>1, Sizes DEF EpochEvents, NoEvents, EpochRow, Before, AfterEpochs
    <2> QED
      BY <1>1, <1>2, <1>4, <2>2, EmittedKeepsInv DEF EpochRow, InEpoch, Dead
  <1> QED
    BY <1>3, <1>4 DEF PreUpdate

\* A reward is given to the row main is at.
LEMMA GivesKeepsInv ==
  ASSUME IInv, phase = "reward", ServerTypeOK', NEW u \in 0..100, Gives(u), request' \in DOMAIN NextRequest,
         UNCHANGED <<taskKind, estimator, asked, epoch, log, manifest>>,
         judged' \subseteq (TaskId \cup {NoTask}) \X (SUBSET Call) \X (0..100)
  PROVE  IInv'
  <1>1. i \in EpochRow /\ rows \in [EpochRow -> RowType]
    BY DEF IInv, LoopInv, RowsInv, InEpoch
  <1>2. rows' \in [EpochRow -> RowType]
    BY <1>1 DEF Gives, RowType
  <1>3. i' \in EpochRow /\ phase' \in {"reward", "records"} /\ (phase' = "records" => i' = 1)
    BY <1>1, Sizes DEF Gives, Loops, EpochRow
  <1>4. EpochEvents' = EpochEvents
    BY <1>3 DEF EpochEvents, Before, AfterEpochs
  <1>5. DOMAIN rows' = EpochRow /\ (\A k \in EpochRow : rows'[k].u \in 0..100) /\ i' \in Nat \ {0}
    <2>1. DOMAIN rows' = EpochRow /\ \A k \in EpochRow : rows'[k] \in RowType
      BY <1>2
    <2>2. \A r \in RowType : r.u \in 0..100
      BY DEF RowType
    <2>3. i' \in Nat \ {0}
      BY <1>3 DEF EpochRow
    <2> QED
      BY <2>1, <2>2, <2>3
  <1>6. TrainingTypeOK'
    BY <1>3, <1>5 DEF IInv, TrainingTypeOK
  <1> QED
    BY <1>2, <1>3, <1>4, <1>6 DEF IInv, RowsInv, ScoresInv, LoopInv, LogInv, InEpoch, AfterEpochs, Before

LEMMA RewardCtsKeepsInv == ASSUME IInv, RewardCts PROVE IInv'
  <1>1. rows[i].calls \in SUBSET Call
    BY DEF RewardCts, IInv, LoopInv, RowsInv, InEpoch, RowType
  <1>2. CtsUtility[rows[i].calls] \in 0..100
    BY <1>1, TrainingAssumption
  <1>3. ServerTypeOK' /\ request' \in DOMAIN NextRequest /\ judged' = judged
    BY DEF RewardCts, IInv, TrainingTypeOK, ServerTypeOK, serverVars
  <1>4. judged \subseteq (TaskId \cup {NoTask}) \X (SUBSET Call) \X (0..100)
    BY DEF IInv, TrainingTypeOK
  <1> QED
    BY <1>2, <1>3, <1>4, GivesKeepsInv DEF RewardCts

\* A reward is what the judge says of the completion.
LEMMA JudgesType ==
  ASSUME IInv, Completed.calls \in SUBSET Call, NEW u \in 0..100, Judges(u)
  PROVE  judged' \subseteq (TaskId \cup {NoTask}) \X (SUBSET Call) \X (0..100)
  <1>1. <<server.task, Completed.calls, u>> \in (TaskId \cup {NoTask}) \X (SUBSET Call) \X (0..100)
    BY DEF IInv, TrainingTypeOK, ServerTypeOK
  <1> QED
    BY <1>1 DEF Judges, IInv, TrainingTypeOK

LEMMA RewardTauKeepsInv == ASSUME IInv, RewardTau PROVE IInv'
  <1>1. phase = "reward" /\ i \in EpochRow /\ rows[i].calls \in SUBSET Call
    BY DEF RewardTau, IInv, LoopInv, RowsInv, InEpoch, RowType
  <1> DEFINE q == Request(request, NoTask, IF request = "exec" THEN rows[i].calls ELSE {})
  <1>2. q \in Requests /\ request \in {"reset", "exec", "eval"}
    BY <1>1 DEF Request, Requests, IInv, TrainingTypeOK, NextRequest
  <1>3. UNCHANGED <<taskKind, estimator, asked, epoch, log, manifest>>
    BY DEF RewardTau
  <1>4. NextRequest[request] \in DOMAIN NextRequest
    BY <1>2 DEF NextRequest
  <1>5. CASE Answered(q) /\ request = "eval" /\ request' = NextRequest[request]
               /\ Gives(EvalTask(server)) /\ Judges(EvalTask(server))
    <2>1. EvalTask(server) \in 0..100
      BY EvalIsPercent DEF IInv, TrainingTypeOK, ServerTypeOK
    <2>2. ServerTypeOK'
      BY <1>2, <1>5, AnsweredType DEF IInv, TrainingTypeOK
    <2>3. judged' \subseteq (TaskId \cup {NoTask}) \X (SUBSET Call) \X (0..100)
      BY <1>1, <1>5, <2>1, JudgesType DEF Completed
    <2> QED
      BY <1>1, <1>3, <1>4, <1>5, <2>1, <2>2, <2>3, GivesKeepsInv
  <1>6. CASE Answered(q) /\ request # "eval" /\ request' = NextRequest[request]
               /\ UNCHANGED <<i, phase, rows, judged>>
    <2>1. ServerTypeOK'
      BY <1>2, <1>6, AnsweredType DEF IInv, TrainingTypeOK
    <2>2. EpochEvents' = EpochEvents
      BY <1>6 DEF EpochEvents
    <2>3. TrainingTypeOK'
      BY <1>3, <1>4, <1>6, <2>1 DEF IInv, TrainingTypeOK
    <2> QED
      BY <1>1, <1>3, <1>6, <2>2, <2>3 DEF IInv, RowsInv, ScoresInv, LoopInv, LogInv
  <1>7. CASE Fails(q) /\ request' = "reset" /\ Gives(0) /\ UNCHANGED judged
    <2>1. ServerTypeOK' /\ request' \in DOMAIN NextRequest
      BY <1>2, <1>7, FailsType DEF IInv, TrainingTypeOK, NextRequest
    <2>2. judged' \subseteq (TaskId \cup {NoTask}) \X (SUBSET Call) \X (0..100)
      BY <1>7 DEF IInv, TrainingTypeOK
    <2>3. phase = "reward" /\ 0 \in 0..100 /\ Gives(0)
      BY <1>1, <1>7
    <2> QED
      BY ONLY IInv, <1>3, <2>1, <2>2, <2>3, GivesKeepsInv
  <1> QED
    BY <1>5, <1>6, <1>7 DEF RewardTau

LEMMA ExtendKeepsInv == ASSUME IInv, ExtendRecords PROVE IInv'
  <1>1. /\ phase = "records" /\ phase' = "preupdate"
        /\ UNCHANGED <<serverVars, taskKind, estimator, i, request, asked, epoch, rows, log, manifest,
                       scores, judged>>
    BY DEF ExtendRecords
  <1>2. i = 1
    BY <1>1 DEF IInv, LoopInv
  <1>3. EpochEvents' = EpochEvents
    BY <1>1, <1>2 DEF EpochEvents, Before, AfterEpochs
  <1>4. TrainingTypeOK'
    BY <1>1 DEF IInv, TrainingTypeOK, ServerTypeOK, serverVars
  <1> QED
    BY <1>1, <1>2, <1>3, <1>4, Sizes
    DEF IInv, RowsInv, ScoresInv, LoopInv, LogInv, InEpoch, AfterEpochs, Before

LEMMA LoraFacts ==
  ASSUME NEW m \in Manifests, NEW v \in Nat \ {0}
  PROVE  /\ LoraManifest(m, v) \in Manifests
         /\ LoraManifest(m, v).policy_version = v
         /\ LoraManifest(m, v).adapters = m.adapters \cup {v}
  <1>1. v - 1 \in Int /\ m.adapters \cup {v} \in SUBSET Nat
    BY DEF Manifests
  <1> QED
    BY <1>1 DEF LoraManifest, Manifests

LEMMA CommitKeepsInv == ASSUME IInv, CommitUpdate PROVE IInv'
  <1>1. /\ phase = "update" /\ i = 1 /\ log[epoch] = EpochEvents /\ epoch \in 0..(Epochs - 1)
        /\ manifest.policy_version = epoch
    BY DEF CommitUpdate, IInv, TrainingTypeOK, LoopInv, LogInv, InEpoch
  <1>2. UNCHANGED <<serverVars, taskKind, estimator, i, request, asked, judged>>
    BY DEF CommitUpdate
  <1>3. log'[epoch] = [y \in DOMAIN NoEvents |-> log[epoch][y] + IF y \in {"update"} THEN 1 ELSE 0]
    BY EmitsFacts DEF CommitUpdate
  <1>o. \A e \in 0..(Epochs - 1) : e # epoch => log'[e] = log[e]
    BY EmitsFacts DEF CommitUpdate
  <1>4. log'[epoch] = Full
    BY <1>1, <1>3, Sizes DEF EpochEvents, NoEvents, Full, Before, AfterEpochs
  <1>5. Full \in [DOMAIN NoEvents -> 0..N]
    BY Sizes DEF Full, NoEvents
  <1>6. log' \in [0..(Epochs - 1) -> [DOMAIN NoEvents -> 0..N]] /\ DOMAIN log = DOMAIN log'
    BY <1>4, <1>5, EmitsFacts DEF CommitUpdate, IInv, TrainingTypeOK
  <1>d. /\ DOMAIN log' = 0..(Epochs - 1)
        /\ \A e \in 0..(Epochs - 1) : e < epoch => log[e] = Full
        /\ \A e \in 0..(Epochs - 1) : e > epoch => log[e] = NoEvents
    <2>1. DOMAIN log = 0..(Epochs - 1)
      BY DEF IInv, TrainingTypeOK
    <2> QED
      BY <1>6, <2>1 DEF IInv, LogInv
  <1>7. /\ manifest' \in Manifests
        /\ manifest'.policy_version = epoch + 1 /\ manifest'.adapters = 1..(epoch + 1)
    <2>1. manifest' = LoraManifest(manifest, epoch + 1)
      BY DEF CommitUpdate
    <2>2. /\ manifest \in Manifests
          /\ manifest.adapters = 1..epoch
      BY <1>1 DEF IInv, LogInv
    <2>3. 1..epoch \cup {epoch + 1} = 1..(epoch + 1) /\ epoch + 1 \in Nat \ {0}
      BY <1>1
    <2> QED
      <3>1. /\ manifest' \in Manifests /\ manifest'.policy_version = epoch + 1
            /\ manifest'.adapters = manifest.adapters \cup {epoch + 1}
        BY <2>1, <2>2, <2>3, LoraFacts
      <3> QED
        BY <2>2, <2>3, <3>1
  <1>8. CASE epoch + 1 < Epochs
    <2>1. epoch' = epoch + 1 /\ phase' = "rollout"
      BY <1>8 DEF CommitUpdate
    <2>2. log'[epoch + 1] = NoEvents /\ NoEvents = EpochEvents'
      <3>1. epoch + 1 \in DOMAIN log
        BY <1>1, <1>8, Sizes DEF IInv, TrainingTypeOK
      <3>2. log[epoch + 1] = NoEvents
        BY <1>1, <3>1 DEF IInv, LogInv
      <3>3. log'[epoch + 1] = log[epoch + 1]
        BY <1>1, <1>8, <1>o, Sizes
      <3> QED
        BY <2>1, <3>2, <3>3 DEF EpochEvents, NoEvents, Before, AfterEpochs
    <2>3. LogInv'
      <3>1. \A e \in DOMAIN log' : e < epoch' => log'[e] = Full
        BY <1>1, <1>4, <1>d, <1>o, <2>1, Sizes
      <3>2. \A e \in DOMAIN log' : e > epoch' => log'[e] = NoEvents
        BY <1>1, <1>d, <1>o, <2>1, Sizes
      <3>3. NoEvents.update = 0
        BY DEF NoEvents
      <3> QED
        BY <1>1, <1>7, <2>1, <2>2, <3>1, <3>2, <3>3 DEF LogInv
    <2>4. epoch' \in 0..(Epochs - 1)
      BY <1>1, <1>8, <2>1, Sizes
    <2>5. TrainingTypeOK'
      BY <1>2, <1>6, <2>1, <2>4 DEF IInv, TrainingTypeOK, ServerTypeOK, serverVars
    <2> QED
      BY <1>1, <1>2, <1>7, <2>1, <2>3, <2>5
      DEF IInv, RowsInv, ScoresInv, LoopInv, InEpoch, AfterEpochs, Before
  <1>9. CASE epoch + 1 >= Epochs
    <2>1. epoch' = epoch /\ phase' = "complete" /\ epoch = Epochs - 1
      BY <1>1, <1>9, Sizes DEF CommitUpdate
    <2>2. Full = EpochEvents'
      BY <2>1 DEF EpochEvents, Full, Before, AfterEpochs
    <2>3. Full.update = 1
      BY DEF Full
    <2>4. LogInv'
      <3>1. \A e \in DOMAIN log' : e < epoch' => log'[e] = Full
        BY <1>1, <1>d, <1>o, <2>1, Sizes
      <3>2. \A e \in DOMAIN log' : e > epoch' => log'[e] = NoEvents
        BY <1>1, <1>d, <1>o, <2>1, Sizes
      <3> QED
        BY <1>1, <1>4, <1>7, <2>1, <2>2, <2>3, <3>1, <3>2 DEF LogInv
    <2>5. TrainingTypeOK'
      BY <1>2, <1>6, <2>1 DEF IInv, TrainingTypeOK, ServerTypeOK, serverVars
    <2> QED
      BY <1>1, <1>2, <1>7, <2>1, <2>4, <2>5, Sizes
      DEF IInv, RowsInv, ScoresInv, LoopInv, InEpoch, AfterEpochs, Before
  <1> QED
    BY <1>1, <1>8, <1>9, Sizes

LEMMA CompleteKeepsInv == ASSUME IInv, Complete PROVE IInv'
  <1>1. /\ phase = "complete" /\ i = 1
        /\ UNCHANGED <<serverVars, taskKind, estimator, i, request, asked, epoch, rows, log, manifest,
                       judged>>
    BY DEF Complete, IInv, LoopInv
  <1>2. PICK c \in [1..NEval -> Completion] :
          scores' = [n \in 1..NEval |-> [calls |-> c[n].calls,
                       u |-> IF taskKind = "cts_order" THEN CtsUtility[c[n].calls] ELSE 0]]
    BY DEF Complete
  <1>3. \A n \in 1..NEval : c[n].calls \in SUBSET Call /\ CtsUtility[c[n].calls] \in 0..100
    <2>1. \A x \in Completion : x.calls \in SUBSET Call
      BY TrainingAssumption
    <2>2. \A n \in 1..NEval : c[n] \in Completion
      OBVIOUS
    <2>3. \A x \in SUBSET Call : CtsUtility[x] \in 0..100
      BY TrainingAssumption
    <2> QED
      BY <2>1, <2>2, <2>3
  <1>4. scores' \in [1..NEval -> [calls : SUBSET Call, u : 0..100]]
    <2>1. \A n \in 1..NEval : scores'[n] \in [calls : SUBSET Call, u : 0..100]
      BY <1>2, <1>3
    <2> QED
      BY <1>2, <2>1
  <1>5. phase' \in {"export", "evaluate"}
    BY DEF Complete
  <1>6. TrainingTypeOK'
    BY <1>1, <1>5 DEF IInv, TrainingTypeOK, ServerTypeOK, serverVars
  <1>7. EpochEvents' = EpochEvents
    BY <1>1, <1>5 DEF EpochEvents, Before, AfterEpochs
  <1> QED
    BY <1>1, <1>4, <1>5, <1>6, <1>7, Sizes
    DEF IInv, RowsInv, ScoresInv, LoopInv, LogInv, InEpoch, AfterEpochs, Before

LEMMA EvaluateKeepsInv == ASSUME IInv, Evaluate PROVE IInv'
  <1>1. /\ phase = "evaluate" /\ i \in 1..NEval /\ scores[i].calls \in SUBSET Call
        /\ scores \in [1..NEval -> [calls : SUBSET Call, u : 0..100]]
    BY DEF Evaluate, IInv, ScoresInv
  <1> DEFINE q == Request(request, NoTask, IF request = "exec" THEN scores[i].calls ELSE {})
  <1>2. q \in Requests /\ request \in {"reset", "exec", "eval"}
    BY <1>1 DEF Request, Requests, IInv, TrainingTypeOK, NextRequest
  <1>3. UNCHANGED <<taskKind, estimator, asked, epoch, rows, log, manifest>>
    BY DEF Evaluate
  <1>4. NextRequest[request] \in DOMAIN NextRequest
    BY <1>2 DEF NextRequest
  <1>5. /\ ServerTypeOK' /\ request' \in DOMAIN NextRequest
        /\ phase' \in {"evaluate", "export", "dead"} /\ i' \in Nat \ {0}
        /\ phase' = "evaluate" => i' \in 1..NEval
    BY <1>1, <1>2, <1>4, AnsweredType, FailsType, Sizes DEF Evaluate, Dead, IInv, TrainingTypeOK
  <1>6. EvalTask(server) \in 0..100
    BY EvalIsPercent DEF IInv, TrainingTypeOK, ServerTypeOK
  <1>7. /\ judged' \subseteq (TaskId \cup {NoTask}) \X (SUBSET Call) \X (0..100)
        /\ scores' \in [1..NEval -> [calls : SUBSET Call, u : 0..100]]
    <2>1. Completed.calls \in SUBSET Call
      BY <1>1 DEF Completed
    <2>2. CASE UNCHANGED <<scores, judged>>
      BY <1>1, <2>2 DEF IInv, TrainingTypeOK
    <2>3. CASE scores' = [scores EXCEPT ![i].u = EvalTask(server)] /\ Judges(EvalTask(server))
      <3>1. scores' \in [1..NEval -> [calls : SUBSET Call, u : 0..100]]
        BY ONLY <1>1, <1>6, <2>3
      <3> QED
        BY <1>6, <2>1, <2>3, <3>1, JudgesType
    <2> QED
      BY <2>2, <2>3 DEF Evaluate
  <1>8. TrainingTypeOK'
    BY <1>1, <1>3, <1>5, <1>7 DEF IInv, TrainingTypeOK
  <1>9. phase' # "dead" => EpochEvents' = EpochEvents
    BY <1>1, <1>5 DEF EpochEvents, Before, AfterEpochs
  <1> QED
    BY <1>1, <1>3, <1>5, <1>7, <1>8, <1>9
    DEF IInv, RowsInv, ScoresInv, LoopInv, LogInv, InEpoch, AfterEpochs, Before

LEMMA ExportKeepsInv == ASSUME IInv, WriteExport PROVE IInv'
  <1>1. /\ phase = "export" /\ phase' = "done"
        /\ UNCHANGED <<serverVars, taskKind, estimator, i, request, asked, epoch, rows, log, manifest,
                       records, scores, judged>>
    BY DEF WriteExport
  <1>2. EpochEvents' = EpochEvents
    BY <1>1 DEF EpochEvents, Before, AfterEpochs
  <1>3. TrainingTypeOK'
    BY <1>1 DEF IInv, TrainingTypeOK, ServerTypeOK, serverVars
  <1> QED
    BY <1>1, <1>2, <1>3 DEF IInv, RowsInv, ScoresInv, LoopInv, LogInv, InEpoch, AfterEpochs, Before

LEMMA KilledKeepsInv == ASSUME IInv, Killed PROVE IInv'
  <1>1. /\ phase' = "dead"
        /\ UNCHANGED <<serverVars, taskKind, estimator, i, request, asked, epoch, rows, log, manifest,
                       records, scores, export, judged>>
    BY DEF Killed, Dead
  <1>2. TrainingTypeOK'
    BY <1>1 DEF IInv, TrainingTypeOK, ServerTypeOK, serverVars
  <1> QED
    BY <1>1, <1>2 DEF IInv, RowsInv, ScoresInv, LoopInv, LogInv, InEpoch, AfterEpochs, Before

LEMMA NextKeepsInv == IInv /\ [TrainingNext]_trainingVars => IInv'
  <1> SUFFICES ASSUME IInv, [TrainingNext]_trainingVars PROVE IInv'
    OBVIOUS
  <1>1. CASE TrainStep
    BY <1>1, PrepareKeepsInv, RolloutKeepsInv, EmitAndValidateKeepsInv, RewardCtsKeepsInv,
       RewardTauKeepsInv, ExtendKeepsInv, PreUpdateKeepsInv, CommitKeepsInv, CompleteKeepsInv,
       EvaluateKeepsInv, ExportKeepsInv
    DEF TrainStep
  <1>2. CASE Killed
    BY <1>2, KilledKeepsInv
  <1>3. CASE ServerTypeOK' /\ UNCHANGED trainerVars
    <2>1. TrainingTypeOK'
      BY <1>3 DEF trainerVars, IInv, TrainingTypeOK
    <2>2. RowsInv' /\ ScoresInv' /\ LoopInv'
      BY <1>3 DEF trainerVars, IInv, RowsInv, ScoresInv, LoopInv
    <2>3. EpochEvents' = EpochEvents
      BY <1>3 DEF trainerVars, EpochEvents
    <2>4. LogInv'
      BY <1>3, <2>3 DEF trainerVars, IInv, LogInv
    <2> QED
      BY <2>1, <2>2, <2>4 DEF IInv
  <1>4. CASE ServerAlone /\ UNCHANGED trainerVars
    BY <1>3, <1>4, AloneType DEF IInv, TrainingTypeOK
  <1>5. CASE UNCHANGED trainingVars
    BY <1>3, <1>5 DEF trainingVars, serverVars, IInv, TrainingTypeOK, ServerTypeOK
  <1> QED
    BY <1>1, <1>2, <1>4, <1>5 DEF TrainingNext

LEMMA Inductive == TrainingSpec => []IInv
  BY InitInv, NextKeepsInv, PTL DEF TrainingSpec

\* Every reachable state is well typed: no loop of main leaves its rows.
THEOREM TypeCorrect == TrainingSpec => []TrainingTypeOK
  <1>1. IInv => TrainingTypeOK
    BY DEF IInv
  <1> QED
    BY <1>1, Inductive, PTL

-----------------------------------------------------------------------------
(* The records of an epoch: no token list is empty, and all lists agree *)

\* Finitely many prompts have a longest one: by the least number of prompts
\* that has none.
LEMMA Bounded ==
  \E b \in Nat : \A p \in 1..NPrompts : PromptLen[p] <= b
  <1> DEFINE Unbounded == {n \in Nat : ~\E b \in Nat : \A p \in (1..n) \cap (1..NPrompts) : PromptLen[p] <= b}
  <1>1. ASSUME Unbounded # {} PROVE FALSE
    <2>1. PICK x \in Unbounded : \A y \in Unbounded : ~(<<y, x>> \in OpToRel(<, Nat))
      BY <1>1, NatLessThanWellFounded, WFMin, Zenon
    <2>2. x # 0
      <3>1. \A p \in (1..0) \cap (1..NPrompts) : PromptLen[p] <= 0
        OBVIOUS
      <3> QED
        BY <3>1
    <2>3. x - 1 \in Nat /\ x - 1 \notin Unbounded
      <3>1. x \in Nat /\ x - 1 \in Nat /\ x - 1 < x
        BY <2>2
      <3>2. <<x - 1, x>> \in OpToRel(<, Nat)
        BY <3>1, Zenon DEF OpToRel
      <3> QED
        BY <2>1, <3>1, <3>2
    <2>4. PICK b \in Nat : \A p \in (1..(x - 1)) \cap (1..NPrompts) : PromptLen[p] <= b
      BY <2>3
    <2>5. PICK c \in Nat : b <= c /\ (x \in 1..NPrompts => PromptLen[x] <= c)
      <3>1. CASE x \notin 1..NPrompts \/ PromptLen[x] <= b
        BY <3>1
      <3>2. CASE x \in 1..NPrompts /\ ~(PromptLen[x] <= b)
        <4>1. PromptLen[x] \in Nat
          BY <3>2, TrainingAssumption
        <4>2. b <= PromptLen[x]
          BY <3>2, <4>1
        <4> QED
          BY <4>1, <4>2
      <3> QED
        BY <3>1, <3>2
    <2>6. \A p \in (1..x) \cap (1..NPrompts) : PromptLen[p] <= c
      <3> SUFFICES ASSUME NEW p \in (1..x) \cap (1..NPrompts) PROVE PromptLen[p] <= c
        OBVIOUS
      <3>1. PromptLen[p] \in Nat
        BY TrainingAssumption
      <3>2. CASE p = x
        BY <2>5, <3>2
      <3>3. CASE p # x
        BY <2>4, <2>5, <3>1, <3>3
      <3> QED
        BY <3>2, <3>3
    <2> QED
      BY <2>6
  <1>2. NPrompts \in Nat /\ NPrompts \notin Unbounded
    BY <1>1, Sizes
  <1> QED
    BY <1>2

LEMMA Longest ==
  ASSUME NEW S \in SUBSET Nat, S # {}, NEW b \in Nat, \A m \in S : m <= b
  PROVE  \E n \in S : \A m \in S : m <= n
  <1> DEFINE Upper == {u \in Nat : \A m \in S : m <= u}
  <1>1. Upper # {} /\ Upper \subseteq Nat
    OBVIOUS
  <1>2. PICK u \in Upper : \A y \in Upper : ~(<<y, u>> \in OpToRel(<, Nat))
    BY <1>1, NatLessThanWellFounded, WFMin, Zenon
  <1>3. CASE u = 0
    <2>1. \A m \in S : m = 0
      BY <1>3
    <2>2. PICK m \in S : TRUE
      OBVIOUS
    <2> QED
      BY <2>1, <2>2
  <1>4. CASE u # 0
    <2>1. u - 1 \in Nat /\ u - 1 < u /\ u \in Nat
      BY <1>4
    <2>2. <<u - 1, u>> \in OpToRel(<, Nat)
      BY <2>1, Zenon DEF OpToRel
    <2>3. u - 1 \notin Upper
      BY <1>2, <2>2, Zenon
    <2>4. PICK m \in S : ~(m <= u - 1)
      BY <2>1, <2>3
    <2>5. m = u
      BY <2>1, <2>4
    <2> QED
      BY <2>5
  <1> QED
    BY <1>3, <1>4

\* A row's chunk begins within the prompts and has one prompt at least.
LEMMA ChunkBegins ==
  ASSUME NEW k \in EpochRow
  PROVE  /\ ChunkOf(k) \in Nat /\ ChunkOf(k) * Chunk \in Nat /\ ChunkOf(k) * Chunk < NPrompts
         /\ Offset(k) \in Nat
  <1>1. Chunk \in Nat \ {0} /\ Gens \in Nat \ {0} /\ NPrompts \in Nat \ {0} /\ k \in 1..(NPrompts * Gens)
    BY TrainingAssumption DEF EpochRow, N
  <1> DEFINE g == Chunk * Gens
             c == (k - 1) \div g
  <1>2. g \in Nat \ {0}
    BY <1>1, Z3
  <1>3. k - 1 \in Nat /\ k - 1 < NPrompts * Gens
    BY <1>1, Z3
  <1> HIDE DEF g
  <1>4. c \in Nat /\ g * c <= k - 1 /\ (k - 1) % g \in Nat
    BY <1>2, <1>3, Z3
  <1> HIDE DEF c
  <1>5. (c * Chunk) * Gens <= k - 1
    BY <1>1, <1>4, Z3 DEF g
  <1>6. c * Chunk \in Nat /\ c * Chunk < NPrompts
    BY <1>1, <1>3, <1>4, <1>5, Z3
  <1> QED
    BY <1>4, <1>6 DEF ChunkOf, Offset, c, g

LEMMA LeadNat == ASSUME NEW k \in EpochRow PROVE Lead(k) \in Nat
  <1> DEFINE first == ChunkOf(k) * Chunk
             size == ChunkSize(ChunkOf(k))
             prompts == (first + 1)..(first + size)
             lens == {Tokens(p) : p \in prompts}
  <1>1. first \in Nat /\ first < NPrompts /\ Offset(k) \in Nat
    BY ChunkBegins
  <1>2. size \in Nat \ {0} /\ first + size <= NPrompts
    <2>1. Chunk \in Nat \ {0} /\ NPrompts \in Nat
      BY TrainingAssumption
    <2>2. (ChunkOf(k) + 1) * Chunk = first + Chunk
      BY <2>1, ChunkBegins, Z3
    <2>3. size = IF first + Chunk <= NPrompts THEN Chunk ELSE NPrompts - first
      BY <2>2 DEF ChunkSize
    <2> HIDE DEF first, size
    <2> QED
      BY <1>1, <2>1, <2>3
  <1>3. PromptOf(k) \in prompts
    <2>1. PromptOf(k) = first + (Offset(k) % size) + 1
      BY DEF PromptOf
    <2> HIDE DEF first, size
    <2>2. Offset(k) % size \in 0..(size - 1)
      BY <1>1, <1>2, Z3
    <2> QED
      BY <1>1, <1>2, <2>1, <2>2
  <1> HIDE DEF first, size
  <1>4. prompts \subseteq 1..NPrompts /\ 1 \in 1..NPrompts
    BY <1>1, <1>2, Sizes
  <1>5. \A p \in 1..NPrompts : Tokens(p) \in Nat
    BY <1>4, TrainingAssumption DEF Tokens
  <1>6. PICK b \in Nat : \A p \in 1..NPrompts : PromptLen[p] <= b
    BY Bounded
  <1>7. \A p \in 1..NPrompts : Tokens(p) <= b
    BY <1>4, <1>6 DEF Tokens
  <1>8. lens \in SUBSET Nat /\ Tokens(PromptOf(k)) \in lens /\ \A m \in lens : m <= b
    BY <1>3, <1>4, <1>5, <1>7
  <1>9. \E n \in lens : \A m \in lens : m <= n
    <2> HIDE DEF lens
    <2> QED
      BY <1>8, Longest
  <1> DEFINE longest == CHOOSE n \in lens : \A m \in lens : m <= n
  <1>10. longest \in lens /\ \A m \in lens : m <= longest
    <2> HIDE DEF lens
    <2> QED
      BY <1>9
  <1>11. Lead(k) = longest - Tokens(PromptOf(k))
    BY DEF Lead, first, size
  <1> HIDE DEF lens, longest
  <1>12. longest \in Nat /\ Tokens(PromptOf(k)) \in Nat /\ Tokens(PromptOf(k)) <= longest
    BY <1>8, <1>10
  <1> QED
    BY <1>11, <1>12

Lists == [len : Nat \ {0}, good : {TRUE}]
Rec == [trajectory_id : {PromptOf(k) : k \in EpochRow}, policy_version : 0..(Epochs - 1),
        generated_tokens : Lists, action_mask : Lists, old_logprobs : Lists,
        rewards : [finite : {TRUE}]]

Agree(r) == r.generated_tokens = r.action_mask /\ r.generated_tokens = r.old_logprobs

\* The versions whose rows are among the records.
Versions == IF phase \in Before \cup {"identity", "reward", "records"} THEN 0..(epoch - 1) ELSE 0..epoch

RecordsInv ==
  phase # "dead" =>
    /\ records \in Seq(Rec) /\ (\A n \in DOMAIN records : Agree(records[n]))
    /\ Len(records) = Cardinality(Versions) * N
    /\ \A n \in DOMAIN records : records[n].policy_version \in Versions
    /\ \A v \in Versions : \E n \in DOMAIN records : records[n].policy_version = v

ExportInv == phase = "done" => export = AuditTrajectories(records)

LEMMA VersionsCounted ==
  ASSUME IInv
  PROVE  /\ epoch \in 0..(Epochs - 1)
         /\ Cardinality(0..(epoch - 1)) = epoch /\ Cardinality(0..epoch) = epoch + 1
  <1>1. epoch \in 0..(Epochs - 1)
    BY DEF IInv, TrainingTypeOK
  <1>2. \A a, b \in Int : Cardinality(a..b) = IF a <= b THEN b - a + 1 ELSE 0
    BY FS_Interval
  <1> QED
    BY <1>1, <1>2, Sizes

LEMMA StepsKeepVersions ==
  ASSUME IInv, [TrainingNext]_trainingVars, ~ExtendRecords, phase' # "dead"
  PROVE  phase # "dead" /\ records' = records /\ Versions' = Versions
  <1>1. epoch \in 0..(Epochs - 1)
    BY DEF IInv, TrainingTypeOK
  <1>2. CASE PrepareTask \/ Rollout \/ EmitAndValidate \/ RewardCts \/ RewardTau
    BY <1>2 DEF PrepareTask, Rollout, EmitAndValidate, RewardCts, RewardTau, Gives, Loops, Dead,
                Versions, Before
  <1>3. CASE PreUpdate \/ Complete \/ Evaluate \/ WriteExport
    BY <1>3 DEF PreUpdate, Complete, Evaluate, WriteExport, Loops, Dead, Versions, Before
  <1>4. CASE CommitUpdate
    <2>1. 0..(epoch + 1 - 1) = 0..epoch
      BY <1>1
    <2>2. Versions = 0..epoch /\ phase # "dead" /\ records' = records
      BY <1>4 DEF CommitUpdate, Versions, Before
    <2>3. (phase' = "rollout" /\ epoch' = epoch + 1) \/ (phase' = "complete" /\ epoch' = epoch)
      BY <1>4 DEF CommitUpdate
    <2>4. Versions' = 0..epoch
      BY <1>1, <2>1, <2>3 DEF Versions, Before
    <2> QED
      BY <2>2, <2>4
  <1>5. CASE UNCHANGED trainerVars
    BY <1>5 DEF trainerVars, Versions
  <1>6. CASE Killed
    BY <1>6 DEF Killed, Dead
  <1> QED
    BY <1>2, <1>3, <1>4, <1>5, <1>6 DEF TrainingNext, TrainStep, trainingVars

LEMMA ExtendKeepsRecords == ASSUME IInv, RecordsInv, ExtendRecords PROVE RecordsInv'
  <1> DEFINE more == [k \in EpochRow |->
       [trajectory_id |-> PromptOf(k), policy_version |-> epoch,
        generated_tokens |-> ListOf(Length(k), TRUE), action_mask |-> ListOf(Length(k), TRUE),
        old_logprobs |-> ListOf(Length(k), TRUE), rewards |-> [finite |-> TRUE]]]
  <1>1. /\ records' = records \o more /\ UNCHANGED epoch
        /\ Versions = 0..(epoch - 1) /\ Versions' = 0..epoch
    BY DEF ExtendRecords, Versions, Before
  <1>2. ASSUME NEW k \in EpochRow PROVE Length(k) \in Nat \ {0}
    <2>1. rows[k].len \in Nat \ {0}
      BY DEF IInv, RowsInv, RowType, InEpoch, ExtendRecords
    <2> QED
      BY <2>1, LeadNat DEF Length
  <1>3. \A k \in EpochRow : more[k] \in Rec /\ Agree(more[k]) /\ more[k].policy_version = epoch
    BY <1>2, VersionsCounted DEF Rec, Lists, ListOf, Agree
  <1> HIDE DEF more
  <1>4. more \in Seq(Rec) /\ Len(more) = N
    <2>1. more \in [1..N -> Rec]
      BY <1>3 DEF more, EpochRow
    <2> QED
      BY <2>1, Sizes
  <1>5. /\ records \in Seq(Rec) /\ (\A n \in DOMAIN records : Agree(records[n]))
        /\ Len(records) = Cardinality(Versions) * N
        /\ \A n \in DOMAIN records : records[n].policy_version \in Versions
        /\ \A v \in Versions : \E n \in DOMAIN records : records[n].policy_version = v
    BY DEF RecordsInv, ExtendRecords
  <1>6. /\ records' \in Seq(Rec) /\ Len(records') = Len(records) + N
        /\ \A n \in 1..Len(records) : records'[n] = records[n]
        /\ \A k \in EpochRow : Len(records) + k \in DOMAIN records' /\ records'[Len(records) + k] = more[k]
        /\ \A n \in DOMAIN records' : n \in DOMAIN records \/ \E k \in EpochRow : n = Len(records) + k
    <2> DEFINE s == records
    <2>1. s \in Seq(Rec) /\ Len(s) \in Nat /\ DOMAIN s = 1..Len(s)
      BY <1>5, LenProperties
    <2>2. /\ s \o more \in Seq(Rec) /\ Len(s \o more) = Len(s) + N
          /\ \A n \in 1..(Len(s) + N) : (s \o more)[n] = IF n <= Len(s) THEN s[n] ELSE more[n - Len(s)]
      BY <1>4, <2>1, ConcatProperties
    <2>3. DOMAIN records' = 1..(Len(s) + N)
      BY <1>1, <2>2, LenProperties
    <2>4. \A k \in EpochRow : Len(s) + k \in 1..(Len(s) + N) /\ ~(Len(s) + k <= Len(s))
                         /\ (Len(s) + k) - Len(s) = k
      BY <2>1, Sizes DEF EpochRow
    <2>5. \A n \in 1..(Len(s) + N) : n \in 1..Len(s) \/ (n - Len(s) \in EpochRow /\ n = Len(s) + (n - Len(s)))
      BY <2>1, Sizes DEF EpochRow
    <2>6. \A n \in 1..Len(s) : n \in 1..(Len(s) + N) /\ n <= Len(s)
      BY <2>1, Sizes
    <2>7. \A n \in 1..Len(s) : records'[n] = s[n]
      BY <1>1, <2>2, <2>6
    <2>8. \A k \in EpochRow : records'[Len(s) + k] = more[k]
      <3> SUFFICES ASSUME NEW k \in EpochRow PROVE records'[Len(s) + k] = more[k]
        OBVIOUS
      <3>1. records'[Len(s) + k] = more[(Len(s) + k) - Len(s)]
        BY <1>1, <2>2, <2>4
      <3> QED
        BY <2>4, <3>1
    <2> QED
      BY <1>1, <2>1, <2>2, <2>3, <2>4, <2>5, <2>7, <2>8
  <1>7. DOMAIN records = 1..Len(records)
    BY <1>5, LenProperties
  <1>8. Len(records') = Cardinality(Versions') * N
    <2>1. Cardinality(Versions) = epoch /\ Cardinality(Versions') = epoch + 1 /\ epoch \in Nat
      BY <1>1, VersionsCounted
    <2>2. epoch * N + N = (epoch + 1) * N
      BY <2>1, Sizes, Z3
    <2> QED
      BY <1>5, <1>6, <2>1, <2>2
  <1>9. Versions' = Versions \cup {epoch}
    BY <1>1, VersionsCounted
  <1>10. \A n \in DOMAIN records' : Agree(records'[n]) /\ records'[n].policy_version \in Versions'
    BY <1>3, <1>5, <1>6, <1>7, <1>9
  <1>11. \A v \in Versions' : \E n \in DOMAIN records' : records'[n].policy_version = v
    <2> SUFFICES ASSUME NEW v \in Versions'
                 PROVE  \E n \in DOMAIN records' : records'[n].policy_version = v
      OBVIOUS
    <2>1. CASE v = epoch
      BY <1>3, <1>6, <2>1, Sizes
    <2>2. CASE v \in Versions
      <3>1. DOMAIN records \subseteq DOMAIN records'
        BY <1>5, <1>6, <1>7, LenProperties, Sizes
      <3> QED
        BY <1>5, <1>6, <1>7, <2>2, <3>1
    <2> QED
      BY <1>9, <2>1, <2>2
  <1> QED
    BY <1>6, <1>8, <1>10, <1>11 DEF RecordsInv

LEMMA RecordsInductive == TrainingSpec => []RecordsInv
  <1>1. TrainingInit => RecordsInv
    <2> SUFFICES ASSUME TrainingInit PROVE RecordsInv
      OBVIOUS
    <2>1. IInv /\ epoch = 0 /\ records = <<>> /\ Versions = {} /\ 0..(epoch - 1) = {}
      BY InitInv DEF TrainingInit, Versions, Before
    <2>2. Cardinality(Versions) = 0 /\ records \in Seq(Rec) /\ Len(records) = 0 /\ DOMAIN records = {}
      BY <2>1, FS_EmptySet, EmptySeq
    <2>3. 0 * N = 0
      BY Sizes
    <2> QED
      BY <2>1, <2>2, <2>3 DEF RecordsInv
  <1>2. IInv /\ RecordsInv /\ [TrainingNext]_trainingVars => RecordsInv'
    <2> SUFFICES ASSUME IInv, RecordsInv, [TrainingNext]_trainingVars PROVE RecordsInv'
      OBVIOUS
    <2>1. CASE ExtendRecords
      BY <2>1, ExtendKeepsRecords
    <2>2. CASE phase' = "dead"
      BY <2>2 DEF RecordsInv
    <2>3. CASE ~ExtendRecords /\ phase' # "dead"
      BY <2>3, StepsKeepVersions DEF RecordsInv
    <2> QED
      BY <2>1, <2>2, <2>3
  <1> QED
    BY <1>1, <1>2, Inductive, PTL DEF TrainingSpec

LEMMA ExportInductive == TrainingSpec => []ExportInv
  <1>1. TrainingInit => ExportInv
    BY DEF TrainingInit, ExportInv
  <1>2. IInv /\ ExportInv /\ [TrainingNext]_trainingVars => ExportInv'
    <2> SUFFICES ASSUME IInv, ExportInv, [TrainingNext]_trainingVars, phase' = "done" PROVE export' = AuditTrajectories(records)'
      BY DEF ExportInv
    <2>1. CASE WriteExport
      BY <2>1 DEF WriteExport
    <2>2. CASE UNCHANGED trainerVars
      BY <2>2 DEF trainerVars, ExportInv
    <2>3. CASE TrainingNext /\ ~WriteExport /\ ~UNCHANGED trainerVars
      BY <2>3 DEF TrainingNext, TrainStep, PrepareTask, Rollout, EmitAndValidate, RewardCts, RewardTau, Gives, Loops,
                  Dead, ExtendRecords, PreUpdate, CommitUpdate, Complete, Evaluate, Killed
    <2> QED
      BY <2>1, <2>2, <2>3 DEF trainingVars
  <1> QED
    BY <1>1, <1>2, Inductive, PTL DEF TrainingSpec

\* Updates are committed only over epochs that went through Guard row by row;
\* manifest, adapters, log and the number of exported records agree.
THEOREM UpdatesAreAccounted == TrainingSpec => []UpdatesAccounted
  <1>1. IInv /\ RecordsInv /\ ExportInv => UpdatesAccounted
    <2> SUFFICES ASSUME IInv, RecordsInv, ExportInv PROVE UpdatesAccounted
      OBVIOUS
    <2>1. /\ DOMAIN log = 0..(Epochs - 1) /\ epoch \in 0..(Epochs - 1)
          /\ manifest.policy_version = epoch + log[epoch].update
          /\ log[epoch].update = 0 \/ log[epoch] = Full
      BY DEF IInv, TrainingTypeOK, LogInv
    <2>2. Full.update = 1 /\ NoEvents.update = 0 /\ \A y \in DOMAIN NoEvents \ {"update"} : Full[y] = N
      BY DEF Full, NoEvents
    <2>3. ASSUME NEW e \in DOMAIN log
          PROVE  /\ log[e].update = 1 => log[e] = Full
                 /\ log[e].update = 1 <=> manifest.policy_version > e
                 /\ log[e].update = 0 => e >= epoch
      <3>1. CASE e < epoch
        <4>1. log[e] = Full
          BY <3>1 DEF IInv, LogInv
        <4> QED
          BY <2>1, <2>2, <3>1, <4>1
      <3>2. CASE e = epoch
        BY <2>1, <2>2, <3>2
      <3>3. CASE e > epoch
        <4>1. log[e] = NoEvents
          BY <3>3 DEF IInv, LogInv
        <4> QED
          BY <2>1, <2>2, <3>3, <4>1
      <3> QED
        BY <2>1, <3>1, <3>2, <3>3
    <2>4. ASSUME NEW e \in DOMAIN log, log[e].update = 0, NEW later \in DOMAIN log, later > e
          PROVE  log[later] = NoEvents
      <3>1. e >= epoch /\ later > epoch
        BY <2>1, <2>3, <2>4
      <3> QED
        BY <3>1 DEF IInv, LogInv
    <2>5. manifest.adapters = 1..manifest.policy_version
      BY DEF IInv, LogInv
    <2>6. ASSUME phase = "done"
          PROVE  (\A e \in DOMAIN log : log[e].update = 1) /\ export.records = Epochs * N
      <3>1. manifest.policy_version = Epochs /\ epoch = Epochs - 1
        BY <2>6 DEF IInv, LoopInv, AfterEpochs
      <3>2. \A e \in DOMAIN log : Epochs > e
        BY <2>1, Sizes
      <3>3. \A e \in DOMAIN log : log[e].update = 1
        BY <2>3, <3>1, <3>2
      <3>4. Versions = 0..epoch /\ epoch + 1 = Epochs
        BY <2>6, <3>1, Sizes DEF Versions, Before
      <3>5. Len(records) = Epochs * N
        BY <2>6, <3>4, VersionsCounted DEF RecordsInv
      <3>6. export.records = Len(records)
        BY <2>6 DEF ExportInv, AuditTrajectories
      <3> QED
        BY <3>3, <3>5, <3>6
    <2> QED
      BY <2>2, <2>3, <2>4, <2>5, <2>6 DEF UpdatesAccounted
  <1> QED
    BY <1>1, Inductive, RecordsInductive, ExportInductive, PTL

LEMMA CleanRecord ==
  ASSUME NEW r \in Rec, Agree(r)
  PROVE  AuditRecord(r) = {} /\ "policy_version" \in DOMAIN r /\ r["policy_version"] = r.policy_version
         /\ r.policy_version # NoVersion
  <1>1. /\ RequiredFields \subseteq DOMAIN r /\ "policy_version" \in DOMAIN r
        /\ "optimizer_consumed_mask" \notin DOMAIN r
    BY DEF Rec, RequiredFields
  <1>2. r.policy_version \in Nat /\ r.policy_version # NoVersion
    BY Sizes DEF Rec, NoVersion
  <1>3. /\ r["generated_tokens"].len \in Nat \ {0} /\ r["action_mask"] = r["generated_tokens"]
        /\ r["old_logprobs"] = r["generated_tokens"] /\ r["generated_tokens"].good = TRUE
        /\ r["rewards"].finite = TRUE
    BY DEF Rec, Lists, Agree
  <1> QED
    BY <1>1, <1>2, <1>3 DEF AuditRecord

\* The audit finds an export consistent exactly if training had one epoch.
THEOREM ConsistentOnlyOneEpoch == TrainingSpec => []ConsistentIfOneEpoch
  <1>1. IInv /\ RecordsInv /\ ExportInv => ConsistentIfOneEpoch
    <2> SUFFICES ASSUME IInv, RecordsInv, ExportInv, phase = "done"
                 PROVE  export.consistent <=> Epochs = 1
      BY DEF ConsistentIfOneEpoch
    <2>1. epoch = Epochs - 1 /\ Versions = 0..epoch
      BY DEF IInv, LoopInv, AfterEpochs, Versions, Before
    <2>2. \A n \in DOMAIN records : records[n] \in Rec /\ Agree(records[n])
      BY LenProperties, ElementOfSeq DEF RecordsInv
    <2>3. \A n \in DOMAIN records :
            /\ AuditRecord(records[n]) = {} /\ "policy_version" \in DOMAIN records[n]
            /\ records[n]["policy_version"] = records[n].policy_version
            /\ records[n].policy_version # NoVersion
      BY <2>2, CleanRecord
    <2>4. UNION {AuditRecord(records[n]) : n \in DOMAIN records} = {}
      BY <2>3
    <2>5. export.consistent <=> ~Mixed(records)
      <3>1. export = AuditTrajectories(records)
        BY DEF ExportInv
      <3>2. export.consistent =
              (UNION {AuditRecord(records[n]) : n \in DOMAIN records} = {} /\ ~Mixed(records))
        BY <3>1, Zenon DEF AuditTrajectories
      <3> QED
        BY <2>4, <3>2, Zenon
    <2>6. \A n \in DOMAIN records : records[n].policy_version \in 0..epoch
      BY <2>1 DEF RecordsInv
    <2>7. \A v \in 0..epoch : \E n \in DOMAIN records : records[n].policy_version = v
      BY <2>1 DEF RecordsInv
    <2>8. CASE Epochs = 1
      <3>1. \A n \in DOMAIN records : records[n].policy_version = 0
        BY <2>1, <2>6, <2>8
      <3>2. ~Mixed(records)
        BY <2>3, <3>1 DEF Mixed
      <3> QED
        BY <2>5, <2>8, <3>2
    <2>9. CASE Epochs # 1
      <3>1. 0 \in 0..epoch /\ 1 \in 0..epoch
        BY <2>1, <2>9, Sizes
      <3>2. PICK m, n \in DOMAIN records : records[m].policy_version = 0 /\ records[n].policy_version = 1
        BY <2>7, <3>1
      <3>3. Mixed(records)
        BY <2>3, <3>2 DEF Mixed
      <3> QED
        BY <2>5, <2>9, <3>3
    <2> QED
      BY <2>8, <2>9
  <1> QED
    BY <1>1, Inductive, RecordsInductive, ExportInductive, PTL

-----------------------------------------------------------------------------
(* Rewards *)

\* Between the reset and the eval of a completion the server serves nobody
\* else, and what it forgets by a crash it cannot judge by.
RequestInv ==
  /\ taskKind = "cts_order" => request = "reset"
  /\ phase = "evaluate" => taskKind = "tau2_retail"
  /\ phase \notin {"reward", "evaluate", "dead"} => request = "reset"
  /\ phase # "dead" =>
       /\ \A n \in DOMAIN late : late[n].op # "init"
       /\ request # "reset" => late = <<>>
       /\ request = "exec" => server.history = {}
       /\ request = "eval" /\ server.task \in Criteria => server.history = Completed.calls

\* What was given is a function of the task and the calls.
JudgedInv ==
  /\ phase \in {"prompts", "evals"} => judged = {}
  /\ \A a \in judged : a[3] = Judged(a[1], a[2])

JudgeInv == RequestInv /\ JudgedInv

NoInit == \A n \in DOMAIN late : late[n].op # "init"

LEMMA QuietKeepsJudge ==
  ASSUME JudgeInv, UNCHANGED <<serverVars, judged, request, taskKind>>, request = "reset",
         phase \notin {"prompts", "evals", "dead"}, phase' \notin {"prompts", "evals"},
         phase' = "evaluate" => taskKind = "tau2_retail"
  PROVE  JudgeInv'
  BY DEF JudgeInv, RequestInv, JudgedInv, serverVars

LEMMA DeadKeepsJudge ==
  ASSUME JudgeInv, UNCHANGED <<judged, taskKind>>, phase' = "dead", UNCHANGED request \/ request' = "reset"
  PROVE  JudgeInv'
  BY DEF JudgeInv, RequestInv, JudgedInv

LEMMA PrepareKeepsJudge == ASSUME IInv, JudgeInv, PrepareTask PROVE JudgeInv'
  <1>1. phase \in {"prompts", "evals"} /\ UNCHANGED <<judged, taskKind, request>> /\ judged = {}
    BY DEF PrepareTask, JudgeInv, JudgedInv
  <1>2. CASE phase' = "dead"
    BY <1>1, <1>2, DeadKeepsJudge
  <1>3. CASE phase' # "dead"
    <2>1. late' = late /\ request = "reset" /\ phase' # "evaluate"
      BY <1>1, <1>3 DEF PrepareTask, Answered, Dead, JudgeInv, RequestInv
    <2> QED
      BY <1>1, <1>3, <2>1 DEF JudgeInv, RequestInv, JudgedInv
  <1> QED
    BY <1>2, <1>3

\* A request that is answered, or not, on the way to a judgement.
LEMMA AnsweredFacts ==
  ASSUME IInv, JudgeInv, phase # "dead", NEW calls \in SUBSET Call,
         Answered(Request(request, NoTask, IF request = "exec" THEN calls ELSE {}))
  PROVE  /\ late = <<>> /\ late' = <<>> /\ server'.task = server.task
         /\ request = "reset" => server'.history = {}
         /\ request = "exec" => server'.history = calls
         /\ request = "eval" => server' = server
  <1>1. request \in {"reset", "exec", "eval"}
    BY DEF IInv, TrainingTypeOK, NextRequest
  <1>2. server \in [up : BOOLEAN, task : TaskId \cup {NoTask}, history : SUBSET Call,
                    env : {"none", "loaded", "changed"}]
    BY DEF IInv, TrainingTypeOK, ServerTypeOK
  <1>3. late = <<>> /\ late' = <<>>
    BY DEF Answered, FirstInLine
  <1>4. CASE request = "reset"
    <2>1. server' = Reset(server)
      BY <1>4 DEF Answered, Handle, Request
    <2> QED
      BY <1>2, <1>3, <1>4, <2>1 DEF Reset
  <1>5. CASE request = "exec"
    <2>1. server' = ExecCode(server, calls) /\ server.history = {}
      BY <1>5 DEF Answered, Handle, Request, JudgeInv, RequestInv
    <2> QED
      BY <1>2, <1>3, <1>5, <2>1 DEF ExecCode
  <1>6. CASE request = "eval"
    BY <1>3, <1>6 DEF Answered, Handle, Request
  <1> QED
    BY <1>1, <1>4, <1>5, <1>6

LEMMA FailsFacts ==
  ASSUME IInv, JudgeInv, phase # "dead", NEW calls \in SUBSET Call,
         Fails(Request(request, NoTask, IF request = "exec" THEN calls ELSE {}))
  PROVE  server' = server /\ NoInit'
  <1> DEFINE q == Request(request, NoTask, IF request = "exec" THEN calls ELSE {})
  <1>1. request \in {"reset", "exec", "eval"}
    BY DEF IInv, TrainingTypeOK, NextRequest
  <1>2. q \in Requests /\ q.op # "init"
    BY <1>1 DEF Request, Requests
  <1>3. late \in Seq(Requests) /\ NoInit
    BY DEF IInv, TrainingTypeOK, ServerTypeOK, Requests, JudgeInv, RequestInv, NoInit
  <1>4. server' = server /\ late' \in {late, Append(late, q)}
    BY <1>2, FailsType DEF IInv, TrainingTypeOK
  <1> HIDE DEF q
  <1>5. \A n \in DOMAIN Append(late, q) : Append(late, q)[n].op # "init"
    BY <1>2, <1>3, AppendProperties, LenProperties DEF NoInit
  <1> QED
    BY <1>3, <1>4, <1>5 DEF NoInit

\* What a server gives is the judgement of its task on the completion.
LEMMA JudgesKeepsJudged ==
  ASSUME IInv, JudgeInv, phase \in {"reward", "evaluate"}, phase' \notin {"prompts", "evals"},
         request = "eval", server' = server, Judges(EvalTask(server))
  PROVE  JudgedInv'
  <1> DEFINE t == server.task
             calls == Completed.calls
             u == EvalTask(server)
  <1>1. u = Judged(t, calls)
    <2>1. CASE t \notin Criteria
      BY <2>1 DEF EvalTask, Judged
    <2>2. CASE t \in Criteria
      <3>1. server.history = calls
        BY <2>2 DEF JudgeInv, RequestInv
      <3> QED
        BY <3>1 DEF EvalTask, Judged
    <2> QED
      BY <2>1, <2>2
  <1>2. judged' = judged \cup {<<t, calls, u>>}
    BY DEF Judges
  <1> HIDE DEF t, calls, u
  <1> QED
    BY <1>1, <1>2 DEF JudgeInv, JudgedInv

\* A request answered that is not the last of its completion.
LEMMA AskedKeepsJudge ==
  ASSUME IInv, JudgeInv, phase \in {"reward", "evaluate"}, Completed.calls \in SUBSET Call,
         Answered(Request(request, NoTask, IF request = "exec" THEN Completed.calls ELSE {})),
         request # "eval", request' = NextRequest[request],
         UNCHANGED <<taskKind, i, phase, rows, scores, judged>>, taskKind = "tau2_retail"
  PROVE  JudgeInv'
  <1>1. request \in {"reset", "exec"}
    BY DEF IInv, TrainingTypeOK, NextRequest
  <1>2. /\ late' = <<>> /\ server'.task = server.task
        /\ request = "reset" => server'.history = {}
        /\ request = "exec" => server'.history = Completed.calls
    BY AnsweredFacts
  <1>3. Completed' = Completed
    BY DEF Completed
  <1>4. (request = "reset" /\ request' = "exec") \/ (request = "exec" /\ request' = "eval")
    BY <1>1 DEF NextRequest
  <1>5. RequestInv'
    BY <1>2, <1>3, <1>4, "tau2_retail" # "cts_order" DEF RequestInv
  <1>6. JudgedInv'
    BY <1>2 DEF JudgeInv, JudgedInv
  <1> QED
    BY <1>5, <1>6 DEF JudgeInv

LEMMA RewardTauKeepsJudge == ASSUME IInv, JudgeInv, RewardTau PROVE JudgeInv'
  <1>1. /\ phase = "reward" /\ taskKind = "tau2_retail" /\ UNCHANGED <<taskKind, scores>>
        /\ Completed = rows[i] /\ rows[i].calls \in SUBSET Call
    BY DEF RewardTau, IInv, LoopInv, RowsInv, InEpoch, RowType, Completed
  <1> DEFINE q == Request(request, NoTask, IF request = "exec" THEN rows[i].calls ELSE {})
  <1>2. \A u : Gives(u) => phase' \in {"reward", "records"}
    BY <1>1 DEF Gives, Loops
  <1>3. CASE Answered(q) /\ request = "eval" /\ request' = NextRequest[request]
               /\ Gives(EvalTask(server)) /\ Judges(EvalTask(server))
    <2>1. late' = <<>> /\ server' = server
      BY <1>1, <1>3, AnsweredFacts
    <2>2. phase' \in {"reward", "records"} /\ request' = "reset"
      BY <1>2, <1>3 DEF NextRequest
    <2>3. JudgedInv'
      BY <1>1, <1>3, <2>1, <2>2, JudgesKeepsJudged
    <2>4. RequestInv'
      BY <1>1, <2>1, <2>2 DEF RequestInv
    <2> QED
      BY <2>3, <2>4 DEF JudgeInv
  <1>4. CASE Answered(q) /\ request # "eval" /\ request' = NextRequest[request]
               /\ UNCHANGED <<i, phase, rows, judged>>
    BY <1>1, <1>4, AskedKeepsJudge
  <1>5. CASE Fails(q) /\ request' = "reset" /\ Gives(0) /\ UNCHANGED judged
    <2>1. server' = server /\ NoInit'
      BY <1>1, <1>5, FailsFacts
    <2>2. phase' \in {"reward", "records"}
      BY <1>2, <1>5
    <2> QED
      BY <1>1, <1>5, <2>1, <2>2 DEF JudgeInv, RequestInv, JudgedInv, NoInit
  <1> QED
    BY <1>3, <1>4, <1>5 DEF RewardTau

LEMMA EvaluateKeepsJudge == ASSUME IInv, JudgeInv, Evaluate PROVE JudgeInv'
  <1>1. /\ phase = "evaluate" /\ taskKind = "tau2_retail" /\ UNCHANGED <<taskKind, rows>>
        /\ Completed = scores[i] /\ scores[i].calls \in SUBSET Call
    BY DEF Evaluate, IInv, ScoresInv, Completed, JudgeInv, RequestInv
  <1> DEFINE q == Request(request, NoTask, IF request = "exec" THEN scores[i].calls ELSE {})
  <1>2. CASE Answered(q) /\ request = "eval" /\ request' = NextRequest[request]
               /\ Judges(EvalTask(server)) /\ phase' \in {"evaluate", "export"}
    <2>1. late' = <<>> /\ server' = server
      BY <1>1, <1>2, AnsweredFacts
    <2>2. request' = "reset"
      BY <1>2 DEF NextRequest
    <2>3. JudgedInv'
      BY <1>1, <1>2, <2>1, JudgesKeepsJudged
    <2>4. RequestInv'
      BY <1>1, <1>2, <2>1, <2>2 DEF RequestInv
    <2> QED
      BY <2>3, <2>4 DEF JudgeInv
  <1>3. CASE Answered(q) /\ request # "eval" /\ request' = NextRequest[request]
               /\ UNCHANGED <<i, phase, scores, judged>>
    BY <1>1, <1>3, AskedKeepsJudge
  <1>4. CASE Fails(q) /\ Dead /\ UNCHANGED <<i, request, scores, judged>>
    BY <1>1, <1>4, DeadKeepsJudge DEF Dead
  <1> QED
    BY <1>1, <1>2, <1>3, <1>4 DEF Evaluate

LEMMA AloneKeepsJudge ==
  ASSUME IInv, JudgeInv, ServerAlone, UNCHANGED trainerVars
  PROVE  JudgeInv'
  <1>1. Completed' = Completed /\ UNCHANGED <<taskKind, phase, request, judged>>
    BY DEF trainerVars, Completed
  <1>2. CASE phase = "dead"
    BY <1>1, <1>2, DeadKeepsJudge
  <1>3. CASE phase # "dead" /\ ServeLate
    <2>1. late \in Seq(Requests) /\ late # <<>> /\ NoInit /\ request = "reset"
      BY <1>3 DEF ServeLate, IInv, TrainingTypeOK, ServerTypeOK, Requests, JudgeInv, RequestInv, NoInit
    <2>2. /\ Len(late) \in Nat /\ DOMAIN late = 1..Len(late) /\ Tail(late) \in Seq(Requests)
          /\ Len(Tail(late)) = Len(late) - 1 /\ DOMAIN Tail(late) = 1..Len(Tail(late))
          /\ \A n \in 1..Len(Tail(late)) : Tail(late)[n] = late[n + 1]
      BY <2>1, LenProperties, HeadTailProperties
    <2>3. \A n \in DOMAIN Tail(late) : n + 1 \in DOMAIN late
      BY <2>2
    <2>4. late' = Tail(late) /\ NoInit'
      BY <1>3, <2>1, <2>2, <2>3 DEF ServeLate, NoInit
    <2>5. Head(late) \in Requests /\ Head(late).op # "init"
      BY <2>1 DEF NoInit
    <2>6. server'.task = server.task
      BY <1>3, <2>5 DEF ServeLate, Handle, Reset, ExecCode, Requests, IInv, TrainingTypeOK, ServerTypeOK
    <2> QED
      BY <1>1, <2>1, <2>4, <2>6 DEF JudgeInv, RequestInv, JudgedInv, NoInit
  <1>4. CASE phase # "dead" /\ (ServerCrashes \/ ServerRestarts)
    <2>1. server'.task = NoTask /\ server'.history = {} /\ late' \in {<<>>, late}
      BY <1>4 DEF ServerCrashes, ServerRestarts, Fresh
    <2>2. NoTask \notin Criteria
      BY ServerAssumption
    <2> QED
      BY <1>1, <2>1, <2>2 DEF JudgeInv, RequestInv, JudgedInv
  <1> QED
    BY <1>2, <1>3, <1>4 DEF ServerAlone

LEMMA JudgeInductive == TrainingSpec => []JudgeInv
  <1>1. TrainingInit => JudgeInv
    BY DEF TrainingInit, ServerInit, JudgeInv, RequestInv, JudgedInv
  <1>2. IInv /\ JudgeInv /\ [TrainingNext]_trainingVars => JudgeInv'
    <2> SUFFICES ASSUME IInv, JudgeInv, [TrainingNext]_trainingVars PROVE JudgeInv'
      OBVIOUS
    <2>1. CASE Rollout \/ EmitAndValidate \/ RewardCts \/ ExtendRecords \/ PreUpdate \/ CommitUpdate
               \/ Complete \/ WriteExport
      <3>1. /\ UNCHANGED <<serverVars, judged, request, taskKind>> /\ phase \notin {"prompts", "evals", "dead"}
            /\ phase' \notin {"prompts", "evals"}
        BY <2>1 DEF Rollout, EmitAndValidate, RewardCts, ExtendRecords, PreUpdate, CommitUpdate, Complete,
                    WriteExport, Gives, Loops, Dead
      <3>2. request = "reset"
        BY <2>1 DEF Rollout, EmitAndValidate, RewardCts, ExtendRecords, PreUpdate, CommitUpdate, Complete,
                    WriteExport, JudgeInv, RequestInv
      <3>3. phase' = "evaluate" => taskKind = "tau2_retail"
        <4>1. taskKind \in {"cts_order", "tau2_retail"}
          BY TrainingAssumption DEF IInv, TrainingTypeOK
        <4> QED
          BY <2>1, <4>1 DEF Rollout, EmitAndValidate, RewardCts, ExtendRecords, PreUpdate, CommitUpdate,
                            Complete, WriteExport, Gives, Loops, Dead
      <3> QED
        BY <3>1, <3>2, <3>3, QuietKeepsJudge
    <2>2. CASE PrepareTask
      BY <2>2, PrepareKeepsJudge
    <2>3. CASE RewardTau
      BY <2>3, RewardTauKeepsJudge
    <2>4. CASE Evaluate
      BY <2>4, EvaluateKeepsJudge
    <2>5. CASE Killed
      BY <2>5, DeadKeepsJudge DEF Killed, Dead
    <2>6. CASE ServerAlone /\ UNCHANGED trainerVars
      BY <2>6, AloneKeepsJudge
    <2>7. CASE UNCHANGED trainingVars
      BY <2>7 DEF trainingVars, serverVars, trainerVars, JudgeInv, RequestInv, JudgedInv, Completed
    <2> QED
      BY <2>1, <2>2, <2>3, <2>4, <2>5, <2>6, <2>7 DEF TrainingNext, TrainStep
  <1> QED
    BY <1>1, <1>2, Inductive, PTL DEF TrainingSpec

\* One task judges one completion always alike, whatever timed out or crashed.
THEOREM RewardsRepeat == TrainingSpec => []RewardRepeatable
  <1>1. JudgeInv => RewardRepeatable
    BY DEF JudgeInv, JudgedInv, RewardRepeatable
  <1> QED
    BY <1>1, JudgeInductive, PTL
=============================================================================
