----------------------------- MODULE StageMatrix -----------------------------
(***************************************************************************)
(* The launchers of the stage-3 matrix and what they see of its trainers.  *)
(*                                                                         *)
(* A "gated" launcher is run_gated_matrix.sh over run_matrix.sh; it has a  *)
(* server and a directory of its own.  "picking" launchers, any number of  *)
(* run_jindun_{matrix,seq,sweep,cts}.sh, share one.  Trainers and matrix   *)
(* scripts may die anywhere, a script with its trainer or without it;      *)
(* other users' jobs come and go on the cards.                             *)
(***************************************************************************)
EXTENDS Integers, FiniteSets

CONSTANTS
  Launcher,
  NRuns,       \* runs of the matrix, in the order of its loops
  Attempts,    \* attempts a launcher has for each run
  Card,        \* GPUs, numbered by priority
  MaxDeaths,   \* how often a trainer or a matrix script dies
  MaxJobs,     \* how many jobs other users start
  MaxSweeps    \* how often a picking launcher is started again

ASSUME MatrixAssumption ==
  /\ {NRuns, Attempts, MaxDeaths, MaxJobs, MaxSweeps} \subseteq Nat
  /\ Attempts > 0
  /\ Card \subseteq Nat /\ 0 \in Card

Run == 1..NRuns
Fixed == 0    \* the card of run_matrix.sh

VARIABLES
  kind,        \* of the launchers
  at,          \* at[l]: where l is
  run,         \* run[l]: the run l is at, NRuns + 1 after the last
  attempt,     \* attempt[l]: the attempt l is at
  trainer,     \* trainer[l]: the trainer l started last, if it is alive
  file,        \* file[r]: the trainers that made the event log, the records and
               \* the metrics in r's directory; 0: not there
  torn,        \* torn[r]: metrics.json is there, and empty
  foreign,     \* cards with other users' jobs
  born,        \* born[r]: how many trainers r had (history)
  tried,       \* tried[l][r]: trainers l started for r since its matrix began (history)
  deaths, jobs, sweeps

launcher == <<at, run, attempt>>
result == <<file, torn>>
counters == <<deaths, jobs, sweeps>>
vars == <<kind, launcher, trainer, result, foreign, born, tried, counters>>

NoTrainer == [at |-> "none", run |-> 1, card |-> Fixed, id |-> 0]
NoFile == [log |-> 0, records |-> 0, metrics |-> 0]

Init ==
  /\ kind \in {"gated", "picking"}
  /\ kind = "gated" => \E l \in Launcher : Launcher = {l}
  /\ at \in [Launcher -> IF kind = "gated" THEN {"poll"} ELSE {"skip", "done"}]
  /\ run = [l \in Launcher |-> 1] /\ attempt = [l \in Launcher |-> 1]
  /\ trainer = [l \in Launcher |-> NoTrainer]
  /\ file = [r \in Run |-> NoFile]
  /\ torn = [r \in Run |-> FALSE]
  /\ foreign \in SUBSET Card
  /\ born = [r \in Run |-> 0] /\ tried = [l \in Launcher |-> [r \in Run |-> 0]]
  /\ deaths = 0 /\ jobs = 0 /\ sweeps = 0

HasMetrics(r) == file[r].metrics # 0
AllDone == \A r \in Run : HasMetrics(r)

Goes(l, to) == at' = [at EXCEPT ![l] = to]
GoesTo(l, r) == run' = [run EXCEPT ![l] = r] /\ attempt' = [attempt EXCEPT ![l] = 1]

\* Before its model is on the card, nvidia-smi does not show a trainer.  (The
\* skip of own trainers in run_jindun_cts.sh compares uuids with the words of
\* "pid, uuid" and finds none; all launchers see the same.)
Unseen == {"none", "started", "loading"}
Occupied ==
  foreign \cup {trainer[l].card : l \in {m \in Launcher : trainer[m].at \notin Unseen}}

-----------------------------------------------------------------------------
(* run_gated_matrix.sh *)

Finish(l) ==
  /\ at[l] = "poll" /\ AllDone
  /\ Goes(l, "done")
  /\ UNCHANGED <<kind, run, attempt, trainer, result, foreign, born, tried, counters>>

BeginMatrix(l) == GoesTo(l, 1) /\ tried' = [tried EXCEPT ![l] = [r \in Run |-> 0]]

Polls_FaultOnce == [poll |-> "skip", window1 |-> "skip", window2 |-> "skip"]    \* no window

\* busy: once before the stable window, at its beginning, and at its end.
Polls == [poll |-> "window1", window1 |-> "window2", window2 |-> "skip"]

\* The window is five minutes long: a trainer that had been started when it
\* began has loaded its model when it ends, or is dead.
Poll(l) ==
  /\ at[l] \in DOMAIN Polls
  /\ at[l] = "poll" => ~AllDone
  /\ at[l] = "window2" => trainer[l].at \notin {"started", "loading"}
  /\ LET to == IF Occupied # {} THEN "poll" ELSE Polls[at[l]] IN
       /\ Goes(l, to)
       /\ IF to = "skip" THEN BeginMatrix(l) ELSE UNCHANGED <<run, attempt, tried>>
  /\ UNCHANGED <<kind, trainer, result, foreign, born, counters>>

-----------------------------------------------------------------------------
(* The loops of run_matrix.sh and the run_jindun_*.sh *)

Skip_FaultStarted(l) ==              \* any run with a directory is skipped
  /\ at[l] = "skip" /\ run[l] \in Run
  /\ IF born[run[l]] # 0 THEN GoesTo(l, run[l] + 1) /\ at' = at
     ELSE Goes(l, "try") /\ UNCHANGED <<run, attempt>>
  /\ UNCHANGED <<kind, trainer, result, foreign, born, tried, counters>>

Skip(l) ==
  /\ at[l] = "skip" /\ run[l] \in Run
  /\ IF HasMetrics(run[l]) THEN GoesTo(l, run[l] + 1) /\ at' = at
     ELSE Goes(l, "try") /\ UNCHANGED <<run, attempt>>
  /\ UNCHANGED <<kind, trainer, result, foreign, born, tried, counters>>

EndMatrix_FaultOnce(l) ==            \* the gated loop ends with its first pass
  /\ at[l] = "skip" /\ run[l] \notin Run
  /\ Goes(l, "done")
  /\ UNCHANGED <<kind, run, attempt, trainer, result, foreign, born, tried, counters>>

EndMatrix(l) ==
  /\ at[l] = "skip" /\ run[l] \notin Run
  /\ Goes(l, IF kind = "gated" THEN "poll" ELSE "done")
  /\ UNCHANGED <<kind, run, attempt, trainer, result, foreign, born, tried, counters>>

NextAttempt_FaultOneMore(l) ==
  IF attempt[l] <= Attempts
    THEN attempt' = [attempt EXCEPT ![l] = @ + 1] /\ Goes(l, "try") /\ run' = run
    ELSE GoesTo(l, run[l] + 1) /\ Goes(l, "skip")

\* The next iteration of the attempt loop, or of the loop around it.
NextAttempt(l) ==
  IF attempt[l] < Attempts
    THEN attempt' = [attempt EXCEPT ![l] = @ + 1] /\ Goes(l, "try") /\ run' = run
    ELSE GoesTo(l, run[l] + 1) /\ Goes(l, "skip")

\* "no free GPU; sleeping 300": what is assigned to attempt here is
\* overwritten by the for loop.
Wait(l) ==
  /\ at[l] = "try" /\ kind = "picking"
  /\ Card \subseteq Occupied
  /\ NextAttempt(l)
  /\ UNCHANGED <<kind, trainer, result, foreign, born, tried, counters>>

\* The first card in their order that looks free; run_matrix.sh has no choice.
Picks(c) ==
  IF kind = "gated" THEN c = Fixed
  ELSE c \notin Occupied /\ \A d \in Card \ Occupied : c <= d

Launch(l) ==
  /\ at[l] = "try"
  /\ \E c \in Card :
       /\ Picks(c)
       /\ trainer' = [trainer EXCEPT ![l] =
            [at |-> "started", run |-> run[l], card |-> c, id |-> born[run[l]] + 1]]
  /\ born' = [born EXCEPT ![run[l]] = @ + 1]
  /\ tried' = [tried EXCEPT ![l][run[l]] = @ + 1]
  /\ Goes(l, "train")
  /\ UNCHANGED <<kind, run, attempt, result, foreign, counters>>

Check_FaultRetries(l) ==             \* the break is lost
  /\ at[l] = "train" /\ trainer[l] = NoTrainer
  /\ NextAttempt(l)
  /\ UNCHANGED <<kind, trainer, result, foreign, born, tried, counters>>

\* The trainer has ended.  run_matrix.sh kills whatever is on a GPU after a
\* failure.
Check(l) ==
  /\ at[l] = "train" /\ trainer[l] = NoTrainer
  /\ IF HasMetrics(run[l])
       THEN GoesTo(l, run[l] + 1) /\ Goes(l, "skip") /\ UNCHANGED foreign
       ELSE NextAttempt(l) /\ foreign' = IF kind = "gated" THEN {} ELSE foreign
  /\ UNCHANGED <<kind, trainer, result, born, tried, counters>>

\* An operator starts a picking script: one of the matrix, or the sweep that
\* "fills gaps left by the main loop".  What it starts is l, which is free; a
\* script beside the trainer that a killed one left is another launcher.
Sweep(l) ==
  /\ at[l] = "done" /\ kind = "picking" /\ sweeps < MaxSweeps
  /\ trainer[l] = NoTrainer
  /\ sweeps' = sweeps + 1
  /\ Goes(l, "skip")
  /\ BeginMatrix(l)
  /\ UNCHANGED <<kind, trainer, result, foreign, born, deaths, jobs>>

-----------------------------------------------------------------------------
(* train.py, as the launchers see it *)

Moves(l, from, to) == trainer[l].at = from /\ trainer' = [trainer EXCEPT ![l].at = to]
Writes(l, f) == file' = [file EXCEPT ![trainer[l].run][f] = trainer[l].id]

\* The event log and the store of an earlier trainer go, and new ones begin.
Wipe(l) ==
  /\ Moves(l, "started", "loading")
  /\ Writes(l, "log")
  /\ UNCHANGED <<kind, launcher, torn, foreign, born, tried, counters>>

Load(l) ==
  /\ Moves(l, "loading", "training")
  /\ UNCHANGED <<kind, launcher, result, foreign, born, tried, counters>>

Export(l) ==                         \* trajectory_records.jsonl
  /\ Moves(l, "training", "records")
  /\ Writes(l, "records")
  /\ UNCHANGED <<kind, launcher, torn, foreign, born, tried, counters>>

\* write_text opens metrics.json, which creates it empty, then writes it.
OpenMetrics(l) ==
  /\ Moves(l, "records", "metrics")
  /\ Writes(l, "metrics")
  /\ torn' = [torn EXCEPT ![trainer[l].run] = TRUE]
  /\ UNCHANGED <<kind, launcher, foreign, born, tried, counters>>

WriteMetrics(l) ==
  /\ trainer[l].at = "metrics"
  /\ trainer' = [trainer EXCEPT ![l] = NoTrainer]
  /\ Writes(l, "metrics")
  /\ torn' = [torn EXCEPT ![trainer[l].run] = FALSE]
  /\ UNCHANGED <<kind, launcher, foreign, born, tried, counters>>

Train(l) == Wipe(l) \/ Load(l) \/ Export(l) \/ OpenMetrics(l) \/ WriteMetrics(l)

-----------------------------------------------------------------------------
(* What goes wrong, and other users *)

Dies == deaths < MaxDeaths /\ deaths' = deaths + 1 /\ UNCHANGED <<jobs, sweeps>>

\* A kill, an exception, or no memory on the card.
TrainerDies(l) ==
  /\ trainer[l] # NoTrainer
  /\ Dies
  /\ trainer' = [trainer EXCEPT ![l] = NoTrainer]
  /\ UNCHANGED <<kind, launcher, result, foreign, born, tried>>

\* The matrix script is killed, its trainer with it or not; the gate around a
\* gated one goes on.
MatrixDies(l) ==
  /\ at[l] \in {"skip", "try", "train"}
  /\ Dies
  /\ Goes(l, IF kind = "gated" THEN "poll" ELSE "done")
  /\ trainer' \in {trainer, [trainer EXCEPT ![l] = NoTrainer]}
  /\ UNCHANGED <<kind, run, attempt, result, foreign, born, tried>>

JobStarts ==
  /\ jobs < MaxJobs /\ jobs' = jobs + 1
  /\ \E c \in Card \ foreign : foreign' = foreign \cup {c}
  /\ UNCHANGED <<kind, launcher, trainer, result, born, tried, deaths, sweeps>>

JobEnds ==
  /\ \E c \in foreign : foreign' = foreign \ {c}
  /\ UNCHANGED <<kind, launcher, trainer, result, born, tried, counters>>

Script(l) ==
  Finish(l) \/ Poll(l) \/ Skip(l) \/ EndMatrix(l) \/ Wait(l) \/ Launch(l) \/ Check(l)

Next ==
  \/ \E l \in Launcher :
       Script(l) \/ Sweep(l) \/ Train(l) \/ TrainerDies(l) \/ MatrixDies(l)
  \/ JobStarts \/ JobEnds

\* Scripts and trainers run on, and other users' jobs end.
Spec ==
  /\ Init /\ [][Next]_vars
  /\ \A l \in Launcher : WF_vars(Script(l)) /\ WF_vars(Train(l))
  /\ WF_vars(JobEnds)

-----------------------------------------------------------------------------
(* Properties *)

\* Every variable stays in its range; a script between two attempts has no
\* trainer alive, so it never starts a second one beside it.
TypeOK ==
  /\ kind \in {"gated", "picking"}
  /\ at \in [Launcher -> {"poll", "window1", "window2", "skip", "try", "train", "done"}]
  /\ run \in [Launcher -> 1..(NRuns + 1)]
  /\ attempt \in [Launcher -> 1..Attempts]
  /\ trainer \in [Launcher ->
       [at : {"none", "started", "loading", "training", "records", "metrics"},
        run : Nat, card : Card, id : Nat]]
  /\ file \in [Run -> [log : Nat, records : Nat, metrics : Nat]]
  /\ torn \in [Run -> BOOLEAN]
  /\ foreign \subseteq Card
  /\ born \in [Run -> Nat] /\ tried \in [Launcher -> [Run -> 0..Attempts]]
  /\ deaths \in 0..MaxDeaths /\ jobs \in 0..MaxJobs /\ sweeps \in 0..MaxSweeps
  /\ \A l \in Launcher :
       /\ at[l] \in {"try", "train"} => run[l] \in Run
       /\ at[l] \in {"skip", "try"} => trainer[l] = NoTrainer

\* "Output per run": the metrics of a run stand beside the records and the
\* event log of the trainer that wrote them, and no later trainer was ever
\* started there.  (For one launcher.)
ExportsMatch ==
  \A r \in Run : HasMetrics(r) =>
    file[r] = [log |-> born[r], records |-> born[r], metrics |-> born[r]]

\* A run the script of l has left behind without metrics had all its attempts:
\* as many trainers were started for it since the matrix began.
LeftBehind(l) ==
  IF at[l] \in {"skip", "try", "train"} THEN {r \in 1..(run[l] - 1) : ~HasMetrics(r)} ELSE {}
FullyTried(l) == \A r \in LeftBehind(l) : tried[l][r] = Attempts

\* "Each run gets up to 3 attempts (an infra kill must not abort the
\* matrix)": the gated matrix gives a run up only after it has started a
\* trainer for each of its attempts, whatever was killed, restarted or busy.
GatedTriesAll == kind = "gated" => \A l \in Launcher : FullyTried(l)

\* "5 attempts per run", and "sleep 300s when no card is free": waiting for a
\* card is no attempt, so no launcher gives up a run it has not fully tried.
WaitsAreNoAttempts == \A l \in Launcher : FullyTried(l)

\* "Runs with completed metrics.json are skipped (resume-safe)": what a
\* trainer that ended well has left is never written again.  (For one
\* launcher.)
FinishedStays ==
  [][\A r \in Run : HasMetrics(r) /\ ~torn[r] => file'[r] = file[r] /\ ~torn'[r]]_vars

\* "Ends when 18/18 runs have metrics.json": the gated launcher does end, and
\* then they do, if deaths and other users' jobs cease.
GatedEnds == kind = "gated" ~> (AllDone /\ \A l \in Launcher : at[l] = "done")

\* "skip GPUs that already host one of OUR trainers (multi-launcher safety)":
\* no two trainers are on one card.
OneTrainerPerCard ==
  \A l, m \in Launcher : l # m /\ trainer[l] # NoTrainer /\ trainer[m] # NoTrainer
    => trainer[l].card # trainer[m].card
=============================================================================
