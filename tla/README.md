# Verification of the Agent-RL Credit Auditor

TLA+ specifications of `credit_auditor` (the Python package that runs frozen
protocols, computes exact moments of credit estimators, publishes evidence
packages and audits them) and of the stage-3 training scripts beside it, checked
with TLC and proved with TLAPS. Paths below are relative to the repository;
`runner.py`, `d002.py` and so on are the files of `src/credit_auditor/`.

A definition named `X_Fault...` is `X` with a plausible bug in it. No
specification uses one: replacing `X` by it must make the property it is listed
with in `PROJECT.json` fail, which shows that the property watches that code.

## 1. The system

| Component | State it keeps | Operations | Talks to |
|---|---|---|---|
| Protocol runner (`runner.py`) | `<output>`, `<output>.tmp` | `run`: validate, hash sources, refuse an existing output, split check, driver, write, hash, rename | drivers by a registry, oracles by a subprocess, the file system |
| Canonical I/O (`canonical.py`) | scratch files `<name>.tmp` | atomic JSON, text and zst writers, `sha256_tree`, `refuse_existing` | called by every writer |
| Evidence gate (`audit/provenance.py`) | none | `audit_artifact_dir` | reads packages; called by the CLI, the report, the CI gate |
| D002 driver (`experiments/d002.py`) | `selection.json` of a calibration package | `_calibration`, `_test` | estimators, enumeration oracle, the runner |
| M0, V001, continuation, minimal-logging, self-audit, evidence-bridge drivers (`experiments/`) | none | one driver each | worlds, estimators, oracles, gates |
| Decision schema and cost calculators (`schema.py`) | none | claim status lattice, transition counts per method | every driver |
| Gates (`audit/cost.py`, `mechanism.py`, `sampling.py`, `numerical.py`, `target.py`, `environment.py`) | none | one verdict each | called by drivers |
| Worlds, estimators, estimands, oracles, statistics | none | exact enumeration, moments, replay, Bellman recursion, bootstrap | drivers; the two oracles are processes of their own |
| Release report (`report.py`), CI gate (`scripts/validate_artifacts.sh`) | `result_index.json`, `REPORT.md`, the root's `SHA256SUMS` | scan, audit, index, hash; check each pack | evidence gate, packages under one root |
| Trajectory audit (`audit/trajectory_audit.py`), training audit (`audit/real_training.py`) | none | per-record and per-file consistency findings | records the trainer exports |
| Adapters (`adapters/`) | none | fail-closed envelope and bundle validation | CLI |
| Stage-3 trainer (`stage3/train.py`, `credit.py`) | the run directory, the adapter versions, the event log of the external Guard library | rollout, reward, credit, update, evaluation, export | tau2 server over HTTP, Guard library |
| tau2 task and server (`stage3/tasks.py`, `tau2_server_jindun.py`) | the server's globals `task`, `env`, `call_history` | `/init`, `/exec`, `/eval`, `/reset` | the trainer |
| Matrix launchers (`stage3/run_*.sh`) | which runs have a `metrics.json` | skip, pick a GPU, attempt, retry | trainer processes, other launchers, other users' GPU jobs |

### What is hard

*Interleaving.* Several invocations may aim at one output: the temporary
directory's name depends on the output alone (`runner.py:239`). Launchers overlap
by design. The tau2 server has one set of globals for every prompt, and a request
its client gave up is still handled, before or after the next one.

*Crashes.* A run can be killed between any two file-system calls and leaves
`<output>.tmp`, scratch files, or a `SHA256SUMS` that is created but empty. The
launchers take the mere presence of `metrics.json` for a finished run, and the
trainer does not write it atomically.

*Staleness.* The existence check is minutes older than the rename; the frozen
selection is read once and may be edited, written by hand, removed or published
anew during the test; the report audits a package long before it hashes the tree.

*Sequences of legal steps.* Calibration and test are two invocations linked by a
file and its self-hash; the split is compared only within one command line.

*Numbers.* The calibration compares floats with a tolerance, which makes ties a
relation that is not transitive. Every exact quantity is computed by several
algorithms (path enumeration, bit patterns, Bellman recursion, closed forms of
second moments), and a wrong sign or factor in one shows only when it is compared
with what the estimator does. `NaN > tolerance` is false.

*Order of data.* The trainer's rows go through a chunked rollout, a reshape into
groups, slices into branches and shifts by prompt padding and by the loss; each
index is right or wrong only together with the others.

## 2. Modules

| Module | Models | Kind |
|---|---|---|
| `Package` | the files of a package, `sha256_tree`, `audit_artifact_dir` | operators |
| `PackageRunner` | `run()` and `_write_package`, call by call | detailed specification |
| `Publication` | what a reader of an output directory is promised | abstract specification |
| `PackageRunnerProofs` | six theorems, among them that `PackageRunner` implements `Publication` | proofs |
| `MCPackageRunner` | an instance for TLC | model |
| `Products` | products over the domain of a function, powers | operators |
| `ExactWorlds` | Bernoulli and Fraction worlds, their gradients and local targets, both oracles, the environment gate | operators |
| `Estimators` | every estimator as the distribution of one cycle, first moments, the target gate | operators |
| `CostModel` | the cost calculators, `evaluate_cycle`, complete cycles, the drivers' own formulas | operators |
| `ExactDrivers` | the M0 and V001 drivers over drawn worlds and oracle processes | specification |
| `ExactWorldsProofs` | sums and products over finite sets; three theorems: the oracles and the local targets agree with the gradient | proofs |
| `EstimatorProofs` | expectations over paths; ten theorems: which estimators are unbiased, in any world | proofs |
| `ExactDriversProofs` | seven theorems, among them every invariant of `ExactDrivers` | proofs |
| `SharedLogits` | the D002 world, its generators, its gradient and both oracles' copies | operators |
| `BranchMoments` | the moments of D002's options, bucket by bucket, their combination, the envelope | specification |
| `BranchProofs` | three theorems: every invariant of `BranchMoments`, for any buckets | proofs |
| `D002Candidates` | the mappings in `itertools.product` order, their costs and what their moments depend on | operators |
| `CalibrationScan` | the scan that picks a mapping, for any candidates | specification |
| `SelectionLineage` | calibration, selection file, test, verdict, with overlapping invocations | specification |
| `D002Proofs` | four theorems on the scan, four on the lineage | proofs |
| `MCExactDrivers`, `MCBranchMoments`, `MCCalibrationScan`, `MCSelectionLineage` | instances for TLC; the scan's runs over the candidates of `D002Candidates` | models |
| `MCDrivers` | the four of them, one at a time | composition |
| `ReleasePackages` | the packages under one root, what the audit says of them, what happens to them | specification part, extended by the next two |
| `ReleaseIndex` | `build_release_report` | specification |
| `ReleaseGate` | `validate_artifacts.sh` with the audit command | specification |
| `StageMatrix` | the launchers of the stage-3 matrix, trainers as they see them, GPU jobs of others | specification |
| `ScriptsProofs` | lemmas on packages; four theorems on the report, two on the gate, four on the launchers | proofs |
| `MCReleaseIndex`, `MCStageMatrix` | instances for TLC | models |
| `MCScripts` | report, gate, launchers and trainer, one at a time | composition |
| `TauServer` | the tau2 server's four handlers and globals, late requests, crashes | specification part |
| `TrajectoryAudit` | `audit_record` and `audit_trajectories` | operators |
| `TrainingRun` | one run of `train.py` against the server, with Guard and the export's audit | specification, extends the last two |
| `TrainingRunProofs` | four theorems | proofs |
| `MCTrainingRun` | an instance for TLC | model |

`PackageRunner` extends `Package`; `TrainingRun` composes the trainer with
`TauServer` and hands its records to `TrajectoryAudit`; `ExactDrivers` runs
`Estimators` and `CostModel` over `ExactWorlds`; `SharedLogits` extends
`ExactWorlds` and `BranchMoments` extends it; `MCCalibrationScan` composes
`D002Candidates` and `CalibrationScan`. `MCDrivers` and `MCScripts` run programs
without a variable in common, one per behaviour, while the variables of the others rest: a
run of each asks what separate runs of the parts would. `SelectionLineage` takes
publication as one step, which `PackageRunner` implementing `Publication`
justifies for invocations that do not share an output.

### PackageRunner

Each invocation `r` has a program counter whose values are the places between
two file-system calls of `run()`: `check` (before `refuse_existing`), `drive`,
`clear`, `unlink` and `mkdir` (lines 242-244), `write` and `rename` (one pair per
file of `_write_package`), `sums`, `publish`, and `cleanup` with `sweep` (the
`except` clause). `at[r]` is its position in the fixed order of writes, `listing[r]`
what its `rmtree` listed and has still to unlink, `recorded[r]` the hashes it
computed. `out` and `tmp` are the two directories, maps from names to the number
of the run that wrote the content. `Crash` kills an invocation anywhere;
`WriteError` is an exception of a writer; `MoveRoot` is the operator who deletes a
package to run again. A shell script waits for one command before the next, so
the serial specification starts a run only when none is alive.

### ExactWorlds, Estimators, CostModel, ExactDrivers

A probability `p` is the integer `p * Unit` and a reward an integer, so every
quantity of the exact layer is an integer over a known scale: the float and the
`Fraction` copies of the code are one definition, and a tolerance is equality.
`ExactWorlds` has the three algorithms the code compares, each translated from
its own file: paths (`Gradient`), bit patterns (`EnumerationGradient`) and backward
values (`BellmanGradient`). An estimator is the distribution of one cycle, weights
and vectors, from which `exact_moments` takes the mean.

`ExactDrivers` has a `study` (M0 or V001) and a `phase`. One action is one row of
the manifest: a world is drawn, `MomentRows` and the gates run over it, and each
oracle process answers right, wrong, NaN or dies. `recorded` holds what the rows
keep of that, `designed` M0's designed cases (focal, noise left out, uncoupled) or
V001's calibration, `exactly` the `Fraction` check; `verdict` the claims and
whether the runner published. Whether a mean squared error improves is a choice.

### SharedLogits, BranchMoments

A bucket holds the fields of `D002Bucket`; `IsBucket` says what such fields may be,
`FocalMap` and `GeneralMaps` are what the two generators can draw. `BranchMoments` takes one option per bucket as
`estimator_moments` does: `TakeOption` computes its mean and second moment by the
code's own formulas (dense enumeration, `E[mu mu^T]` over prefixes, all sibling
actions), `EstimatorMoments` adds them up; `Lift` brings buckets of different horizons, whose
integers have different scales, to that of the longest. References stand at the end of the
module and enumerate what the estimators draw: pairs of continuations of one
prefix, pairs of trajectories, pairs of buckets.

### CalibrationScan

`objective[i]` is an integer in units finer than the tolerance; the initial state
picks any assignment in which candidates computed from the same data have equal
objectives (`ShapeOf`: the depths, not the widths). `Consider` is one iteration of
the loop at `d002.py:138`.

### SelectionLineage

An invocation starts with a command line from `Calls` (phase, seed manifests,
where `--frozen-selection` points), is refused or goes to its driver. `Calibrate`
freezes a mapping with its self-hash; `LoadSelection` reads and checks the file;
one `ScoreProblem` per test problem asks the oracle; `Decide` builds the claims;
`AppearAtPath` is the rename. Between any two steps a package may be removed and a
published `selection.json` changed, in one of two ways (`EditSelection`): its widths
alone, or widths together with their hash. The hash has no key (`d002.py:207-208`
recompute it from the file), so the second passes every check; it also stands for a
file written elsewhere and named by `--frozen-selection`, which reads the same.

A hash is modelled by what it identifies: the hash of a body is its mapping. Two
fields are not in the file, and no action reads them: `origin`, the seeds a
selection was calibrated on, and `byHand`, whether somebody other than a calibration
wrote the hash. What the self-hash is good for is therefore `ScoredAsHashed`, and
what the code's comment says of it, `FrozenSelection`, does not hold.

### ReleasePackages, ReleaseIndex, ReleaseGate

`pack[d]` is the package at directory `d`: what its files hold, the hash that its
`SHA256SUMS` has for each, and whether that file has malformed lines. Four files
stand for all: protocol, manifest and decision are the ones whose content
somebody reads, the rows stand for the rest. Packages are published, removed,
damaged and sealed again at any moment, at most `MaxChanges` times. `quiet` is
history: the directories nobody touched since they were last listed.

`ReleaseIndex` is one action per read or write of `report.py`: `List`, then
`Audit`, `ReadManifest` and `ReadDecision` for each directory in the order of
names, `WriteIndex`, `WriteReport`, `ListTree`, `HashPack` for each, `OpenSums`,
`WriteSums`. `Raise` is an exception of `_load`, `BuilderDies` a kill; both lose
the builder's locals and keep the root's files. `ReleaseGate` is the shell loop:
`GateCheck` is the test for a pack and the audit, `GateSums` is `sha256sum -c`,
`GateEnd` the exit status.

### StageMatrix

Each launcher `l` has a place `at[l]` in its script, the run and the attempt of
its loops, and the trainer it started last. `poll`, `window1` and `window2` are
the three calls of `busy` in `run_gated_matrix.sh`; `skip` is the test for
`metrics.json`, `try` the head of the attempt loop, `train` the wait for the
trainer. `Wait` is a turn of that loop that finds no free card: the scripts assign
to `attempt` there, and the `for` loop overwrites it, so the wait uses the attempt
up. `tried[l][r]` is history: how many trainers `l` has started for `r` since its
matrix began, which is what the documents mean by attempts. The gated matrix, with
its fixed card, does start one in every attempt (`GatedTriesAll`); the launchers
that pick a card give up runs they never tried (`WaitsAreNoAttempts`).
A trainer is `started`, has removed the event log of its predecessor
(`loading`), is on its card (`training`), has exported its records and has
opened `metrics.json`, which is there and empty until it is written. `file[r]`
says which trainer made what stands in a run's directory. `MatrixDies` kills a
script with its trainer or without it.

The six scripts differ in their lists of runs and cards and in the number of
attempts, which are constants, and in how a card is chosen. One assumption is not
in the code: the five minutes of the gate's stable window outlast the time a
trainer needs to show on a GPU (a guard of `Poll`). Without it an orphan and its
successor would write into one directory.

A launcher is a script with the trainer it started last. A script started beside
the orphan of a killed one is a launcher of its own, so `Sweep` starts a script
again only where no trainer is left; `run_jindun_sweep.sh` does not check that, and
beside an orphan it is the second of two launchers. `ExportsMatch` and
`FinishedStays` speak of one launcher and say nothing of that case: two in one
directory can train one run at the same time, as the trace of `stage_overlap` shows.

### TauServer, TrainingRun

`server` is the server's globals. It has one thread: a request is handled whole, in
its order. A client that gives a request up leaves it in `late`, and every late
request is handled before a later one is answered. `ServerCrashes` and `ServerRestarts`
lose the globals. `/init` of an unknown task assigns `None` and keeps environment and
history, `/reset` clears the history alone, as the handlers do.

`TrainingRun` has `phase`, the place of `main`, and `i`, the element of the loop it
is in; `request` is the next of the three requests of `Tau2Task.reward`. `Rollout`
picks a completion for every row; `PromptOf` gives a row its prompt from the
chunked loop, `Group` and `Branch` the rows its credit is made of, `Lead`,
`Positions` and `Weighted` the tokens it falls on. `EmitAndValidate` and
`PreUpdate` add the events of a row and ask Guard, which may refuse anything and
can allow only what it finds the events of. `asked` is the tasks `/init` was asked
for, in order: row `k` is a completion for the `PromptOf(k)`-th of them. `log` counts events per epoch,
`manifest` is `ckpt_cur`, `records` what `trajectory_records.jsonl` will hold,
`export` what `audit_trajectories` says of it. `Killed` ends the trainer anywhere.
`judged` is history: task, completion and utility of every answered reward.
A reward goes through `/reset`, `/exec` and `/eval`, none of which names a task, so the
criteria are those of the task asked for last.
`StageMatrix` sees the same trainer from outside, by its files.

## 3. Runs

| Run | Bounds | Shows |
|---|---|---|
| `package_serial` | three invocations, one output | published packages are whole (`AtomicPublish`), leftovers never make a run fail (`LeftoversNeverBlock`), the gate passes no package of a failed driver (`AuditSeparatesFailures`), no package is overwritten (`NoOverwrite`), the abstract specification is implemented (`DeliversWholePackages`), and a run whose driver returned ends published, failed or killed (`DrivenRunPublishes`) |
| `package_race` | two overlapping invocations | **violation** of `AtomicPublish` |
| `drivers`: M0, V001 | 32 worlds of two and three decisions, two rows, any answers of the oracles | three algorithms and the local targets agree (`OraclesAgree`); what each gate says of a world follows from its gradient (`RowsTell`); nothing passes on a degenerate world or a disagreeing oracle (`NothingPassesOnFailure`); no formula of a driver is below its calculator (`CostsCovered`) |
| `drivers`: D002's moments | 104 problems of one or two buckets, two depths, widths 2 and 4 | three gradients agree, for focal buckets too (`SharedOraclesAgree`); every option is unbiased (`OptionsUnbiased`); the second moments are those of what is drawn, and more continuations never raise a variance (`MomentsExact`) |
| `drivers`: scan | two buckets: 49 candidates of nine shapes, three objective values | the declared tie-break (`DeclaredTieBreak`), the bound on what chained ties can lose (`DriftBounded`), the width that is kept (`NarrowestWidth`) |
| `drivers`: lineage | three overlapping invocations, two paths, two mappings, two problems | a test scores with a selection as it was hashed last, never with one edited under its hash (`ScoredAsHashed`), claims pass only if the oracles agreed (`OraclesAgreed`), the split holds when the command line names it (`HeldOutIfNamed`) |
| `selection_heldout` | the lineage | **violation** of `HeldOut` |
| `selection_frozen` | the lineage | **violation** of `FrozenSelection` |
| `branch_rloo` | the buckets of few paths: a single decision, and the focal ones | **violation** of `RlooExact` |
| `scripts`: report | two packages, two builds, one change, kills anywhere | while the root's `SHA256SUMS` verifies, packages indexed without errors are intact (`SealedIndexHonest`) and no sealed package lacks an entry (`SealedIndexComplete`), both for packages that stood still during the build; a build that raises has written nothing (`ReadsBeforeWriting`) |
| `scripts`: gate | two packages, two changes | an OK of the gate means that what stood still is intact (`GateSound`) |
| `scripts`: launchers | one launcher of either kind, two runs, two attempts, two cards, three deaths, one job of others, one sweep | what stands beside a `metrics.json` is of the trainer that wrote it (`ExportsMatch`), the gated matrix passes over a run without metrics only after it started a trainer in each attempt (`GatedTriesAll`), what a finished trainer left is never written again (`FinishedStays`), the gated launcher ends with every run done (`GatedEnds`) |
| `scripts`: trainer | both tasks, one prompt of two generations, two to evaluate, two epochs, one timeout or crash of the server | an update only over an epoch whose every row Guard allowed, and manifest, log and metrics count alike (`UpdatesAccounted`); a completion judged twice by one task gets one utility, whatever was executed before (`RewardRepeatable`); an export is consistent exactly if it is of one epoch (`ConsistentIfOneEpoch`); the trainer ends (`Ends`) |
| `release_override` | two packages, one build, one change | **violation** of `IndexedPassIsIntact` |
| `stage_overlap` | two launchers, two cards, no deaths | **violation** of `OneTrainerPerCard` |
| `stage_attempts` | one launcher, one run, two attempts, two cards, one job of others, no deaths | **violation** of `WaitsAreNoAttempts` |
| `training_credit` | two prompts, two generations, three estimators, no faults | **violation** of `CreditAsDescribed` |
| `training_judge` | the tau2 task, two prompts, two generations, one epoch | **violation** of `JudgedByOwnTask` |

Why the bounds are enough. Three serial invocations let a first leave debris, a
second be killed while it removes that debris, and a third meet what the second
left; the proofs remove the bound. Two invocations are the least that can share a
directory. The scan is run over the candidates of two buckets of the frozen
protocol, which is the least that has costs falling and rising along the order;
three objective values one tolerance apart make better, tied and worse shapes and
a chain of two ties. The other two buckets repeat the pattern at 49 times the
candidates, and the proofs hold for any number of buckets. In the
lineage three invocations and two paths allow a calibration, a second calibration
published at the same path after a removal, and a test that started in between;
two problems let one mismatch come before and one after an agreement. Again the
proofs remove the bounds.
In `drivers` the scan starts with the dense mapping at the largest objective: the
dense mapping is first and cheapest, so no other start leaves it. The lineage's tests
read one of the two paths, the other is there for what a calibration publishes
elsewhere; a selection written by hand is not written again before its package goes
(`WrittenOnce`), while edits under its hash are free.

The worlds are all 0/1 rewards of two decisions, and rewards with interactions of
three decisions: the least in which
a prefix can change an effect, a coordinate can vanish alone, and a prefix and a
suffix both have more than one decision. `Unit = 4` lets probabilities differ; two
rows let one be degenerate beside one that is not. `CycleBudget = 8` makes V001's
cycles at three decisions too dear. The moments' buckets have two decisions, alone or
beside one of a single decision, or three when focal, with noise at the first and
the last: a prefix, a contrast and a noise time on either side of it, and two
scales to combine. The proofs remove these bounds too. `NoiseWeight` is 2 for the code's 20; no
property depends on its size. Widths 2 and 4 show the factor `(K - 1) / K` twice.

Two prompts of different lengths and two generations are the least in which groups,
branches and chunks come apart (`training_credit`), and in which a prompt is judged
by another's task (`training_judge`); `Chunk` is the code's 8. In `scripts` one prompt
with two generations makes an epoch of two rows, the least in which Guard refuses one
row after it allowed another, and the evaluation gives the server further tasks. Two
epochs put two policy versions into one export. One fault lets a request be late, or lost with the
server's globals, at every request of the run; the proofs remove the bound.

Two packages are the least of which one can be looked at while the other changes,
and two builds let the second meet what a killed first one left; the proofs
remove these bounds and that on changes.

In the matrix, two runs let a launcher pass over one and try another, and three
deaths allow a first attempt to fail, a script to be killed and its orphan to
die; two attempts make one not the last. The proofs remove the bounds.

Deadlock is not checked where every invocation ends (`CHECK_DEADLOCK FALSE`).

### The nine disagreements

* `package_race`: `runner.py:1` promises "no-overwrite, atomic publish". Two
  invocations of one output path share `<output>.tmp`, and the directory one of
  them renames may lack files or hold the other's.
* `selection_heldout`: `runner.py:8` lists "Validate calibration/test
  disjointness" as a step of every run. It compares two manifests of one command
  line, and the scripts pass one each.
* `selection_frozen`: `d002.py:198-200` says that an edited mapping, "e.g.
  hand-picked widths", "is rejected, not silently used". The self-hash is over
  the body of the same file and has no key: whoever writes the hash of the new
  body beside it has a selection no calibration made, and the test publishes that
  hash as its parent.
* `release_override`: `report.py:3` says the builder "verifies every experiment
  directory against the package format" and puts its status into the index. Where
  the package's own `gate_decision.json` has a verdict, line 58 puts that in place
  of what the audit found; a package damaged after publication is reported as
  `integrity: pass`, and only the list of errors beside it tells.
* `stage_overlap`: `run_jindun_cts.sh:17` skips "GPUs that already host one of OUR
  trainers (multi-launcher safety)". What it looks at are processes on the card,
  where a trainer appears long after it was started; and its comparison takes
  the words of `nvidia-smi`'s "pid, uuid" for lines, so that it finds no trainer
  at all. The other scripts look at the memory in use only.
* `training_credit`: `credit.py:8` describes a group-relative advantage on decision
  tokens. `train.py:588` reshapes rows that come generation by generation as if
  they came prompt by prompt, so a group mixes prompts; the two branches of the
  paired estimator are slices of the whole batch; and a decision at a call's last
  token credits the token after it.
* `training_judge`: `tasks.py:8-10` and `stage3/README.md:13` have each completion
  evaluated against its retail task's criteria. The server has one task, which only
  `/init` sets, and the trainer initialises all training and evaluation prompts
  before the first rollout (`train.py:376-377`): every reward of a run is a score
  against the last evaluation prompt's criteria.
* `stage_attempts`: `stage3/README.md:50` says "5 attempts per run" and
  `run_jindun_cts.sh:4` "sleep 300s when no card is free". Line 41 there tries to take
  the attempt of a wait back, which a `for` loop does not notice (`run_jindun_matrix.sh:49`,
  `run_jindun_seq.sh:33` and `run_jindun_sweep.sh:25` likewise): after as many waits as attempts
  the run is given up without a trainer ever started.
* `branch_rloo`: `branching.py:347` subtracts a term of root-RLOO's second moment
  that has to be added; the result can lie below the square of the mean, and the
  envelope of D002 compares with it.

Smaller ones, which need no run of their own: `d002.py:313` and the README explain the
collapsed widths by an objective that "always prefers the largest width", while
`NarrowestWidth` shows that the scan keeps width 2 wherever it branches (the moments and
the cost do not depend on the width, the three tie, and the first is kept; the
checked-in selection has width 2 in every bucket); `audit/environment.py:7` says that
a degenerate world can never be used to claim that an estimator works, while M0's
`paired_replay_matched_cost_positive` does not consult the environment gate of the focal
world (`designed.focalEnvironment`), and the checked-in `artifacts/v0.1.6/M0` has that
gate's failure and the claim side by side; `self_audit.py`'s "zero_false_safe" ends in `or
True`; V001 hands its cost gate the dense specification and no terms
(`v001.py:125`), and its `utility_failure_reproduced` fails unconditionally; M0's
`propagated_sibling_rejected` passes unconditionally; a headline PASS stays when
integrity is INVALID; `root_marginal_gradient` returns a term per decision; M0
charges its paired estimator more than `paired_replay_all_v1`;
`d002_shared_logits.py:136` wants every logit to occur, and the stale `used` of line
141 can overwrite the only occurrence of one; `bridge_estimators.py:98` lacks the
factor of the score. The definitions follow the code in each case they cover.

### Fairness

`DrivenRunPublishes`, `GatedEnds` and `Ends` are the liveness properties. The
first assumes weak fairness of the
next step of each live invocation, and of nothing else: not of starting, crashing
or the operator's removal. A process the operating system schedules does take its
next step, and no step of `run()` waits for another process; weak fairness
therefore suffices, since a step once enabled stays so until it is taken or the
process dies.

`GatedEnds` assumes weak fairness of each launcher's script, of each trainer, and
of the end of other users' jobs. A script waits for its own trainer and sleeps a
bounded time otherwise; a trainer has no loop without a bound; and the gate is
written for jobs that do end. Deaths and new jobs are bounded, not unfair: with
endless deaths the gate would rightly never end, and with a run that fails for good
it passes over the matrix for ever, which `MaxDeaths` leaves out. In `MCScripts` these
conditions apply while it is the launchers that run, and those of `Ends` while it is
the trainer.

`Ends` assumes weak fairness of the trainer and of the server's thread while it
has late requests. Every request of `tasks.py` has a timeout, so the trainer never
waits for the server without bound, and no request is repeated; whether the server
is up, restarts or answers is not assumed.

## 4. Proofs

TLAPS checks every theorem for all values of the constants.

`PackageRunnerProofs`, from `MaxRunsAssumption` (some positive number of
invocations). `TypeCorrect` and `NeverOverwritten` hold of overlapping
invocations. The others are about serial ones: the inductive invariant says that
at most one invocation is alive, that what is in `<output>.tmp` under a final name
while `r` writes are exactly the files `r` has written so far, that `recorded[r]`
is the content that will be published, and that what is published is the plan of
one run. It is needed because `AtomicPublish` speaks only of the output: nothing
in it says why the temporary directory that becomes the output was whole.

`ExactWorldsProofs`, from `UnitAssumption`, for worlds with any number of
decisions, any integers for probabilities and any integer rewards (`IsWorld`; no
theorem needs a probability to lie between 0 and 1). It first unfolds the library's
`SumFunction` and `FoldFunction`. Both are a recursive function on subsets that
takes an element by `CHOOSE`, so that the function exists, and that it does not
matter which element goes first, is proved here, by induction on the size of a
set. tlapm cannot instantiate an induction theorem whose hypothesis is an
operator; the induction is therefore over a set `X` of numbers or subsets with the
hypothesis as its defining condition (`NatSetInduction`, `FiniteSetInduction`). From
that come the laws the rest uses: a sum is linear, can be renamed by a bijection,
and is the sum of its rows (`SumLinear`, `SumRename`, `SumPairs`). `PaidStep` is the
step of backward induction: the expected reward from a prefix is that of its two
continuations. `Levels` and `QValues` are functions that exist by the same
argument and equal it, so a gradient by paths, by values and by effects is one
(`GradientByValue`, `BellmanAgrees`, `LocalAgrees`); the digits of a number are a
bijection onto the paths (`CodingIsBijection`), hence `EnumerationAgrees`.

`EstimatorProofs`, from the same assumption. `Expect(w, F)` is the sum of `F` over
the paths by weight. Averaging `F` over the two actions at one step first
multiplies the sum by `Unit` (`ExpectStep`); so a score is zero in expectation
beside anything its action does not change (`ExpectScore`), and the expectation of
the contrast with a sibling at `t`, times the score of `u`, is the gradient if
`u = t` and 0 otherwise (`SiblingSum`). Every verdict follows: local, propagated,
paired and residual estimators are made of such contrasts, the others of rewards
times scores. `LocalVerdict`, `PropagatedVerdict` and `BpoVerdict` are
equivalences: they also say in exactly which worlds the biased mechanisms pass.
The last needs two decisions; with one its contrast is the right one.

`ExactDriversProofs`, from `DriverAssumption`: worlds have two or more decisions
(the least horizon of `m0_problems.json` is two) with probabilities strictly
between 0 and 1; the noise of the focal world is not of a single time (the code's
is a product over two), `Unit` is even, so that one half is a probability.
`DriverInv` says that a row that matches has no wrong answer, that the rows of V001
have no environment verdict, and that nothing is published before the end:
`NothingPassesOnFailure` follows because claims pass only where the integrity of all
rows holds. `TellInv` ties the row recorded last to the world drawn last and keeps
`designed.unbiased`; what the row says is then `EstimatorProofs`, and
the focal world's part is `NoiseHasNoGradient`: the action at another noise time
turns the sign of the product, and with even odds the two halves cancel. The
cost theorem compares sums term by term over intervals.

`BranchProofs`, from `UnitAssumption`, `NoiseAssumption` and `BranchAssumption`: any
number of buckets of any horizons (`IsBucket`), any depths, any widths from two up
that divide `Widest`. Two limits are there because the statement needs them: no
action is certain (the code draws every logit between 0.15 and 0.85), and no bucket
has a single noise time (`_NOISE_PAIRS`). `BranchInv` says that the parts taken so
far are the moments of options of their buckets, in order, and that the
estimator's combine all of them; the rest is what such moments are.

A path of a bucket goes through states. `Walks` are these paths, a sum over them
can be taken a step at a time (`SumByGrowth`), and codes are a bijection onto them
(`EnumSum`, `OraclesAgree`). Stepping back from the last decision gives the values
and the reach of `_dp` and with them the gradient of a general bucket
(`BellmanGeneral`). The states of a focal bucket follow its actions, so that it is a
Bernoulli world, `World(b)`, and the expectations of `EstimatorProofs` apply: an
effect contributes its own, a noise step nothing (`FocalGradient`,
`BellmanFocal`); here a single noise time would differ.

For `OptionsUnbiased`: averaging over the siblings paired replay draws (`DrawMean`)
leaves contrasts, and the expectation of each is the gradient of its decision
(`PairedInner`, `PairedTotal`), while the means of the K continuations and of the
constant baseline are the gradient by their form. For `MomentsExact`: a pair of
continuations of one prefix is independent given the prefix, hence the cross term
`E[mu mu^T]` (`TwoSampleSecond`, `ClosedForm`); the square of a mean over the
continuations is at most the mean of the squares, prefix by prefix
(`PrefixSquare`), hence more continuations never raise a diagonal entry
(`WiderIsBetter`); and the second moment of a sum of two independent buckets is
the sum of their own and twice the product of their means, each at its scale
(`LiftFacts`, `JointExact`).

`D002Proofs` has two parts. The scan, from `ScanAssumption`. `DriftBounded` is proved with one
extra conjunct, that the best is one of the candidates seen; the drift grows by
at most one tolerance with each candidate. `DeclaredTieBreak` needs that with
separated objectives a tie within the tolerance is an equality. `KeepsNarrowestWidth`
is about the mappings of D002, so it assumes that `Count`, `Shape` and `Cost` are those of
`D002Candidates`, for any buckets, horizons and depths (`BucketAssumption`). A number
less some units of one place keeps its other digits (`DigitAt`, `DigitBelow`, `DigitAbove`),
so every candidate with a wider branched bucket has an earlier twin of the same
depths and cost (`EarlierTwin`), and the declared tie-break never prefers the later.

The lineage, from `LineageAssumption`. The inductive invariant follows a selection:
a file whose hash matches is one a calibration published or one written by hand
(`FileInv`: an edit that leaves the hash alone breaks the match or restores the
mapping that was hashed); what a test holds
(`HeldInv`), hands over (`ResultInv`) and publishes (`PackageInv`) stays such a
selection because the file is read once; `ScoredInv` ties the conjunction the
oracle loop accumulates to its count of mismatches; `SplitInv` carries the check of
the command line to the package.

`ScriptsProofs` has two parts. The report and the gate, from `PackagesAssumption`
(directories are a finite set of numbers) and `BuildsAssumption`. The inductive
invariants follow a package that stands still: for the gate, it is still to be
looked at, has failed or is intact; for the report, it is still to be listed, or
its entry, its hash and what was sealed agree with it. `SumsInv`, the part about
what is sealed, mentions nothing the builder holds, which is why a later build
that dies cannot break it.

The launchers, from `MatrixAssumption`. `TriedInv` says where a gated script
stands in its matrix: for the runs behind it without metrics it has started as many
trainers as there are attempts, for its present run one less than the attempt it is
at, or as many once that attempt's trainer runs, for those to come none. It holds of any launchers in one directory, because metrics never vanish
(`MetricsStay`). The other two theorems assume one launcher: `ResultInv` follows
its trainer, which is the last one of its directory, sees no metrics before it
opens them, and finds them empty until it ends. `TrainerInv` is where the stable
window is needed: no trainer is alive when the matrix begins.

`TrainingRunProofs`, from `ServerAssumption` and `TrainingAssumption`, for any
numbers of prompts, generations, epochs and faults. `LoopInv` and `LogInv` tie the
place of the trainer to the events it has emitted: before `phase` moves on, every row
of the epoch has them, which is what `UpdatesAccounted` says only of the commit.
`RecordsInv` says that the records are the whole epochs so far with one version
each, and that every row has a token, which needs the longest prompt of a chunk to
exist (a maximum, by the well-founded order on naturals). `JudgeInv` says what an
answered `/eval` depends on: while a reward is under way the server's history is
that of its own completion or empty, unless its globals are gone; that is why the
environment that `/reset` leaves changed does not matter.

Only model-checked: liveness under fairness (`DrivenRunPublishes`, `GatedEnds`,
`Ends`), which needs `ENABLED`; and the properties that do not hold. Every
invariant that a passing run checks is also a theorem.

## 5. Plan

Done: package runner, calibration scan, selection lineage, release report and
gate, launchers, trainer and server, the exact layer with M0, V001 and D002's
moments, and the proofs of all invariants. Left, in this order:

1. The continuation and minimal-logging drivers with their worlds and the tool
   agent: exact enumeration as in `ExactWorlds`, over fixed tables.
2. The evidence-bridge driver, which audits packages of another repository.
3. The second moment of the optimal-constant baseline, against a reference like
   that of `RlooExact`.

The self-audit, the training audit and the adapters are not worth a model: each is
a list of fixed inputs or of required fields, without an order of events.

## 6. Not modelled

The components marked `not_modelled` or `partly` in `PROJECT.json` have their
reason there. In short: mean squared errors, bootstraps and budget averages are
floats of which only a comparison matters, and that is a choice of the model;
`branching_bucket_moments` is called by nothing (it would set a variance to zero
where the sibling action equals the action); `bridge_estimators.py`, the sampling,
sign-margin and materiality gates are single expressions; the driver registry,
report wording and argument parsing move no state; the Guard library and the tau2
benchmark are not in the repository.

Four hazards have no property. The prompts of training and evaluation are drawn from
the same ids (`train.py:377`): the model draws both from `TaskId`, and a property
would restate that. `/reset` leaves the environment changed (`tau2_server_jindun.py:109`):
`/eval` compares calls and never looks at it. A `metrics.json` that a kill left empty
is taken for a finished run (`train.py:809`): the model reaches that state and the
launchers pass over such a run, as the scripts do; `ExportsMatch` holds of it too,
and `FinishedStays` has the opposite as its premise. M0's claim beside the failing gate of its focal
world (`m0.py:366`) is a conjunct that is missing from one expression. Two more are covered
in part: a pack that changes between the two looks of the CI gate
(`validate_artifacts.sh:29`), of which `GateSound` requires nothing, and a run of the
gated matrix that fails for good (`run_gated_matrix.sh:54`), which `MaxDeaths` leaves
out. Outside the model is also `run_matrix.sh:53`, which kills every
process on every GPU after a failed attempt, those of others included:
`StageMatrix` has other users' jobs only as something a launcher waits for. The hash
`train.py:133` copies is that of the base model in every manifest (`LoraManifest`);
nothing in the repository compares it.
