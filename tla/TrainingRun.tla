----------------------------- MODULE TrainingRun -----------------------------
(***************************************************************************)
(* One run of the stage-3 trainer (stage3/train.py): prompts, rollouts,    *)
(* Guard events, rewards, credit, the update of each epoch, the final      *)
(* evaluation and the export.  It may be killed anywhere.  Model, Guard    *)
(* and sampler are outside: a completion is any of Completion, a Guard     *)
(* decision is allow or not.  A completion has a length, the positions of  *)
(* its decision tokens and its calls; of a group's advantage the model     *)
(* keeps whose utilities it is made of.                                    *)
(***************************************************************************)
EXTENDS TauServer, TrajectoryAudit

CONSTANTS
  Kinds,       \* the tasks and the estimators of the matrix
  Estimators,
  Completion,  \* records [len, pos, calls]
  NPrompts, NEval, Gens,
  Chunk,       \* prompts of one generate call, rows of one backward pass
  Epochs,
  PromptLen,   \* PromptLen[p]: tokens of prompt p of tau2_retail
  CtsUtility   \* CtsUtility[calls]: what the replay in the CTS world is worth

N == NPrompts * Gens    \* rows of an epoch

ASSUME TrainingAssumption ==
  /\ Kinds \subseteq {"cts_order", "tau2_retail"}
  /\ Estimators \subseteq {"dense", "local", "paired"}
  /\ {NPrompts, NEval, Gens, Chunk, Epochs} \subseteq Nat \ {0}
  /\ N \in Nat
  /\ Completion \subseteq [len : Nat \ {0}, pos : SUBSET Nat, calls : SUBSET Call]
  /\ PromptLen \in [1..NPrompts -> Nat \ {0}]
  /\ CtsUtility \in [SUBSET Call -> 0..100]

VARIABLES
  taskKind,        \* --task
  estimator,   \* --estimator
  phase,          \* where main is
  i,           \* the prompt, row or completion of the loop it is in
  request,     \* the request of task.reward that is next
  asked,       \* the tasks the prompts and the held-out prompts are of
  epoch,
  rows,        \* rows[k]: completion and utility
  log,         \* log[e]: Guard events of epoch e, counted, and its update
  manifest,    \* ckpt_cur
  records,     \* all_records
  scores,      \* utilities of the final evaluation
  export,      \* the audit of trajectory_records.jsonl beside metrics.json
  judged       \* <<task, calls, utility>> of answered rewards (history)

trainerVars ==
  <<taskKind, estimator, phase, i, request, asked, epoch, rows, log, manifest, records, scores,
    export, judged>>
trainingVars == <<serverVars, trainerVars>>

EpochRow == 1..N
NoExport == [records |-> 0, findings |-> {}, mixed |-> FALSE, consistent |-> FALSE]
NoEvents == [gen |-> 0, scoring |-> 0, identity |-> 0, reward |-> 0, preupdate |-> 0,
             input |-> 0, update |-> 0]

\* The hash of the checkpoint is of the shards of the base model.
BaseManifest ==
  [policy_version |-> 0, parent |-> -1, adapters |-> {}, checkpoint |-> "base"]

\* A copy of the parent's: the hash of the checkpoint stays, and weights add up.
LoraManifest(m, version) ==
  [m EXCEPT !.policy_version = version, !.parent = version - 1, !.adapters = m.adapters \cup {version}]

TrainingInit ==
  /\ ServerInit
  /\ taskKind \in Kinds /\ estimator \in Estimators
  /\ phase = (IF taskKind = "cts_order" THEN "rollout" ELSE "prompts")
  /\ i = 1 /\ request = "reset" /\ epoch = 0
  /\ asked = [list \in {"prompts", "evals"} |-> <<>>]
  /\ rows = <<>> /\ log = [e \in 0..(Epochs - 1) |-> NoEvents]
  /\ manifest = BaseManifest /\ records = <<>> /\ scores = <<>> /\ export = NoExport /\ judged = {}

Dead == phase' = "dead"

-----------------------------------------------------------------------------
(* Which prompt a row is of, and whose utilities its credit is made of *)

Offset(k) == (k - 1) % (Chunk * Gens)
ChunkOf(k) == (k - 1) \div (Chunk * Gens)
ChunkSize(c) == IF (c + 1) * Chunk <= NPrompts THEN Chunk ELSE NPrompts - c * Chunk

\* The rollout loop: chunks of prompts, generations, the prompts of the chunk.
PromptOf(k) == ChunkOf(k) * Chunk + (Offset(k) % ChunkSize(ChunkOf(k))) + 1

\* All prompts of cts_order are one text.
Tokens(p) == PromptLen[IF taskKind = "cts_order" THEN 1 ELSE p]

\* The output of generate begins after the longest prompt of the chunk, and
\* is cut at the row's own: what is between counts as generated.
Lead(k) ==
  LET c == ChunkOf(k)
      lens == {Tokens(p) : p \in (c * Chunk + 1)..(c * Chunk + ChunkSize(c))}
  IN (CHOOSE n \in lens : \A m \in lens : m <= n) - Tokens(PromptOf(k))

\* utils.reshape(prompts, gens).
Group(k) == {j \in EpochRow : (j - 1) \div Gens = (k - 1) \div Gens}

\* rows[b * half : (b + 1) * half] of the paired matrix.
Branch(b) == {j \in EpochRow : (j - 1) \div (Gens \div 2) = b}

CreditFrom(k) ==
  IF estimator = "paired" /\ Gens > 1 THEN {Branch(0), Branch(1)} ELSE {Group(k)}

-----------------------------------------------------------------------------
(* The tokens a row's credit falls on, by their place in its sequence *)

Start(k) == Tokens(PromptOf(k))
Length(k) == Lead(k) + rows[k].len
CompletionTokens(k) == Start(k)..(Start(k) + Length(k) - 1)
DecisionTokens(k) == {Start(k) + Lead(k) + p : p \in rows[k].pos}

\* paired credits as many decisions as there are calls, one at least.
Positions(k) ==
  IF estimator = "paired"
    THEN {d \in DecisionTokens(k) :
            Cardinality({c \in DecisionTokens(k) : c < d}) <
              (IF rows[k].calls = {} THEN 1 ELSE Cardinality(rows[k].calls))}
    ELSE DecisionTokens(k)

\* The loss at t is of the token t + 1, and the mask has those t whose token
\* is generated.  dense is Guard's grpo_loss over the mask.
Weighted(k) ==
  LET mask == {t - 1 : t \in CompletionTokens(k)} IN
  {t + 1 : t \in IF estimator = "dense" THEN mask ELSE Positions(k) \cap mask}

-----------------------------------------------------------------------------
(* Prompts: /init each; the evaluation's with another seed from the same ids *)

AskFor(task) == Request("init", task, {})
TasksOf(list) == {list[n] : n \in DOMAIN list}

PrepareTask ==
  /\ phase \in {"prompts", "evals"}
  /\ \E task \in TaskId \ TasksOf(asked[phase]) :
       \/ /\ Answered(AskFor(task)) /\ task \in Known
          /\ asked' = [asked EXCEPT ![phase] = Append(@, task)]
          /\ IF i < (IF phase = "prompts" THEN NPrompts ELSE NEval)
               THEN i' = i + 1 /\ UNCHANGED phase
               ELSE i' = 1 /\ phase' = (IF phase = "prompts" THEN "evals" ELSE "rollout")
       \/ /\ Fails(AskFor(task)) \/ (Answered(AskFor(task)) /\ task \notin Known)
          /\ Dead /\ UNCHANGED <<i, asked>>
  /\ UNCHANGED <<taskKind, estimator, request, epoch, rows, log, manifest, records, scores, export,
                 judged>>

-----------------------------------------------------------------------------
(* An epoch: rollout, identity, rewards, records, pre-update, update *)

Loops_FaultOneMore(next) ==          \* a row beyond the last
  IF i <= N THEN i' = i + 1 /\ UNCHANGED phase ELSE i' = 1 /\ phase' = next

Loops(next) == IF i < N THEN i' = i + 1 /\ UNCHANGED phase ELSE i' = 1 /\ phase' = next

Rollout ==
  /\ phase = "rollout"
  /\ \E c \in [EpochRow -> Completion] :
       rows' = [k \in EpochRow |-> [len |-> c[k].len, pos |-> c[k].pos, calls |-> c[k].calls, u |-> 0]]
  /\ phase' = "identity"
  /\ UNCHANGED <<serverVars, taskKind, estimator, i, request, asked, epoch, log, manifest, records,
                 scores, export, judged>>

\* The events build_envelope refers to.
Envelope(stage) ==
  {"gen", "scoring"} \cup IF stage = "pre_reward" THEN {} ELSE {"reward", "identity"}

\* Adds the events of the log; Guard's decision is among them only if it allows.
Emits(types) ==
  log' = [log EXCEPT ![epoch] = [y \in DOMAIN @ |-> @[y] + IF y \in types THEN 1 ELSE 0]]

\* Guard allows, at best, what it finds all events of in the log.
MayAllow(stage) == \A y \in Envelope(stage) : log'[epoch][y] >= i

EmitAndValidate ==
  /\ phase = "identity"
  /\ \/ Emits({"gen", "scoring", "identity"}) /\ MayAllow("pre_reward") /\ Loops("reward")
     \/ Emits({"gen", "scoring"}) /\ Dead /\ UNCHANGED i
  /\ UNCHANGED <<serverVars, taskKind, estimator, request, asked, epoch, rows, manifest, records,
                 scores, export, judged>>

Gives(u) == rows' = [rows EXCEPT ![i].u = u] /\ Loops("records")

RewardCts ==
  /\ phase = "reward" /\ taskKind = "cts_order"
  /\ Gives(CtsUtility[rows[i].calls])
  /\ UNCHANGED <<serverVars, taskKind, estimator, request, asked, epoch, log, manifest, records,
                 scores, export, judged>>

Completed == IF phase = "reward" THEN rows[i] ELSE scores[i]
NextRequest == [reset |-> "exec", exec |-> "eval", eval |-> "reset"]

\* The task whose prompt the completion answers.
OwnTask == IF phase = "reward" THEN asked.prompts[PromptOf(i)] ELSE asked.evals[i]

Judges(u) == judged' = judged \cup {<<server.task, Completed.calls, u>>}

\* Tau2Task.reward: /reset, /exec, /eval; what fails is worth nothing.
RewardTau ==
  /\ phase = "reward" /\ taskKind = "tau2_retail"
  /\ LET q == Request(request, NoTask, IF request = "exec" THEN rows[i].calls ELSE {}) IN
       \/ /\ Answered(q) /\ request' = NextRequest[request]
          /\ IF request = "eval" THEN Gives(EvalTask(server)) /\ Judges(EvalTask(server))
             ELSE UNCHANGED <<i, phase, rows, judged>>
       \/ Fails(q) /\ request' = "reset" /\ Gives(0) /\ UNCHANGED judged
  /\ UNCHANGED <<taskKind, estimator, asked, epoch, log, manifest, records, scores, export>>

ExtendRecords_FaultBaseVersion ==    \* the version of the checkpoint on disk
  /\ phase = "records"
  /\ records' = records \o [k \in EpochRow |->
       [trajectory_id |-> PromptOf(k), policy_version |-> 0,
        generated_tokens |-> ListOf(Length(k), TRUE), action_mask |-> ListOf(Length(k), TRUE),
        old_logprobs |-> ListOf(Length(k), TRUE), rewards |-> [finite |-> TRUE]]]
  /\ phase' = "preupdate"
  /\ UNCHANGED <<serverVars, taskKind, estimator, i, request, asked, epoch, rows, log, manifest,
                 scores, export, judged>>

\* One id for all generations of a prompt; no behaviour probabilities.
ExtendRecords ==
  /\ phase = "records"
  /\ records' = records \o [k \in EpochRow |->
       [trajectory_id |-> PromptOf(k), policy_version |-> epoch,
        generated_tokens |-> ListOf(Length(k), TRUE), action_mask |-> ListOf(Length(k), TRUE),
        old_logprobs |-> ListOf(Length(k), TRUE), rewards |-> [finite |-> TRUE]]]
  /\ phase' = "preupdate"
  /\ UNCHANGED <<serverVars, taskKind, estimator, i, request, asked, epoch, rows, log, manifest,
                 scores, export, judged>>

PreUpdate_FaultGoesOn ==             \* what Guard refuses is left out
  /\ phase = "preupdate"
  /\ \/ Emits({"reward", "preupdate", "input"}) /\ MayAllow("pre_update") /\ Loops("update")
     \/ Emits({"reward"}) /\ Loops("update")
  /\ UNCHANGED <<serverVars, taskKind, estimator, request, asked, epoch, rows, manifest, records,
                 scores, export, judged>>

PreUpdate ==
  /\ phase = "preupdate"
  /\ \/ Emits({"reward", "preupdate", "input"}) /\ MayAllow("pre_update") /\ Loops("update")
     \/ Emits({"reward"}) /\ Dead /\ UNCHANGED i
  /\ UNCHANGED <<serverVars, taskKind, estimator, request, asked, epoch, rows, manifest, records,
                 scores, export, judged>>

\* The step of the optimizer, the adapter, update_committed, the metrics.
CommitUpdate ==
  /\ phase = "update"
  /\ Emits({"update"})
  /\ manifest' = LoraManifest(manifest, epoch + 1)
  /\ rows' = <<>>
  /\ IF epoch + 1 < Epochs THEN epoch' = epoch + 1 /\ phase' = "rollout"
     ELSE UNCHANGED epoch /\ phase' = "complete"
  /\ UNCHANGED <<serverVars, taskKind, estimator, i, request, asked, records, scores,
                 export, judged>>

-----------------------------------------------------------------------------
(* The final evaluation and the export *)

Complete ==
  /\ phase = "complete"
  /\ \E c \in [1..NEval -> Completion] :
       scores' = [n \in 1..NEval |-> [calls |-> c[n].calls,
                    u |-> IF taskKind = "cts_order" THEN CtsUtility[c[n].calls] ELSE 0]]
  /\ phase' = (IF taskKind = "cts_order" THEN "export" ELSE "evaluate")
  /\ UNCHANGED <<serverVars, taskKind, estimator, i, request, asked, epoch, rows, log, manifest,
                 records, export, judged>>

\* task.evaluate catches nothing.
Evaluate ==
  /\ phase = "evaluate"
  /\ LET q == Request(request, NoTask, IF request = "exec" THEN scores[i].calls ELSE {}) IN
       \/ /\ Answered(q) /\ request' = NextRequest[request]
          /\ IF request = "eval"
               THEN /\ scores' = [scores EXCEPT ![i].u = EvalTask(server)]
                    /\ Judges(EvalTask(server))
                    /\ IF i < NEval THEN i' = i + 1 /\ UNCHANGED phase ELSE i' = 1 /\ phase' = "export"
               ELSE UNCHANGED <<i, phase, scores, judged>>
       \/ Fails(q) /\ Dead /\ UNCHANGED <<i, request, scores, judged>>
  /\ UNCHANGED <<taskKind, estimator, asked, epoch, rows, log, manifest, records, export>>

\* trajectory_records.jsonl and metrics.json, and what the report makes of them.
WriteExport ==
  /\ phase = "export" /\ phase' = "done"
  /\ export' = AuditTrajectories(records)
  /\ UNCHANGED <<serverVars, taskKind, estimator, i, request, asked, epoch, rows, log, manifest,
                 records, scores, judged>>

Killed ==
  /\ phase \notin {"done", "dead"} /\ Dead
  /\ UNCHANGED <<serverVars, taskKind, estimator, i, request, asked, epoch, rows, log, manifest,
                 records, scores, export, judged>>

TrainStep ==
  \/ PrepareTask \/ Rollout \/ EmitAndValidate \/ RewardCts \/ RewardTau \/ ExtendRecords
  \/ PreUpdate \/ CommitUpdate \/ Complete \/ Evaluate \/ WriteExport

TrainingNext == TrainStep \/ Killed \/ (ServerAlone /\ UNCHANGED trainerVars)

TrainingSpec == TrainingInit /\ [][TrainingNext]_trainingVars /\ WF_trainingVars(TrainStep) /\ WF_trainingVars(ServeLate /\ UNCHANGED trainerVars)

-----------------------------------------------------------------------------
(* Properties *)

TrainingTypeOK ==
  /\ ServerTypeOK
  /\ taskKind \in Kinds /\ estimator \in Estimators
  /\ phase \in {"prompts", "evals", "rollout", "identity", "reward", "records", "preupdate",
             "update", "complete", "evaluate", "export", "done", "dead"}
  /\ i \in Nat \ {0} /\ request \in DOMAIN NextRequest
  /\ asked \in [{"prompts", "evals"} -> Seq(Known)]
  /\ epoch \in 0..(Epochs - 1)
  /\ log \in [0..(Epochs - 1) -> [DOMAIN NoEvents -> 0..N]]
  /\ phase \in {"identity", "reward", "records", "preupdate", "update"} =>
       /\ DOMAIN rows = EpochRow
       /\ \A k \in EpochRow : rows[k].u \in 0..100
  /\ judged \subseteq (TaskId \cup {NoTask}) \X (SUBSET Call) \X (0..100)

\* An update is committed only over an epoch all of whose rows went the whole
\* way through Guard, and only the last epoch of a killed or refused run is
\* without one; the policy version of the manifest is the number of updates in
\* the log, one adapter each; and identity_allowed of the metrics, which is the
\* number of records, is the number of identity decisions in the log.
UpdatesAccounted ==
  /\ \A e \in DOMAIN log :
       /\ log[e].update = 1 => \A y \in DOMAIN NoEvents \ {"update"} : log[e][y] = N
       /\ log[e].update = 1 <=> manifest.policy_version > e
       /\ log[e].update = 0 => \A later \in DOMAIN log : later > e => log[later] = NoEvents
  /\ manifest.adapters = 1..manifest.policy_version
  /\ phase = "done" => /\ \A e \in DOMAIN log : log[e].update = 1
                    /\ export.records = Epochs * N

\* One task judges one completion always alike, whatever was executed before,
\* given up, or left in the environment.
RewardRepeatable ==
  \A a, b \in judged : a[1] = b[1] /\ a[2] = b[2] => a[3] = b[3]

\* The audit calls an export consistent exactly if it is of one epoch:
\* train.py writes all epochs into one file.
ConsistentIfOneEpoch == phase = "done" => (export.consistent <=> Epochs = 1)

\* A trainer ends, whatever the server does: a request has its timeout.
Ends == <>(phase \in {"done", "dead"})

\* "The agent receives a retail task instruction, ..., the tau2 server ...
\* evaluates the call history against evaluation_criteria": a completion is
\* evaluated against those of the task its prompt asked for.
JudgedByOwnTask ==
  phase \in {"reward", "evaluate"} /\ request = "eval" => server.task = OwnTask

\* "The group-relative advantage (R - group_mean) / group_std", "applied ONLY
\* at decision-token positions": what a row is credited with is made of
\* generations of its own prompt, and what carries it is a decision token.
CreditAsDescribed ==
  phase = "update" =>
    \A k \in EpochRow :
      /\ \A S \in CreditFrom(k) : \A j \in S : PromptOf(j) = PromptOf(k)
      /\ estimator # "dense" => Weighted(k) \subseteq DecisionTokens(k)
=============================================================================
