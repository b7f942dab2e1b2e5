------------------------------ MODULE TauServer ------------------------------
(***************************************************************************)
(* The tau2 exec server (stage3/tau2_server_jindun.py) as one trainer sees *)
(* it: one thread that handles requests in their order, with one task and  *)
(* one call history for everybody.  A client gives a request up after its  *)
(* timeout, and the server may still handle it; the server may crash, and  *)
(* a new one knows no task.  Calls are abstract: a required action and a   *)
(* call match when they are the same.                                      *)
(***************************************************************************)
EXTENDS Integers, Sequences, FiniteSets

CONSTANTS
  TaskId,      \* the ids the client draws from (FROZEN_IDS)
  Known,       \* those the server's benchmark has
  Criteria,    \* those with evaluation_criteria
  Call,        \* calls a completion may make
  Required,    \* Required[t]: the actions the criteria of t ask for
  MaxFaults    \* how many timeouts and crashes

NoTask == "none"

ASSUME ServerAssumption ==
  /\ Criteria \subseteq Known /\ Known \subseteq TaskId /\ NoTask \notin TaskId
  /\ Required \in [Criteria -> SUBSET Call]
  /\ \A t \in Criteria : IsFiniteSet(Required[t])
  /\ MaxFaults \in Nat

VARIABLES
  server,      \* up, task, call_history; env: not there, as loaded, or changed
  late,        \* requests their client gave up
  faults

serverVars == <<server, late, faults>>

Fresh == [up |-> TRUE, task |-> NoTask, history |-> {}, env |-> "none"]

ServerInit == server = Fresh /\ late = <<>> /\ faults = 0

Request(op, task, calls) == [op |-> op, task |-> task, calls |-> calls]

-----------------------------------------------------------------------------
(* The handlers: the server after a request *)

\* /init: a task it does not have is assigned, and env and history stay.
InitWorld(s, task) ==
  IF task \in Known THEN [s EXCEPT !.task = task, !.env = "loaded", !.history = {}]
  ELSE [s EXCEPT !.task = NoTask]

\* /exec: calls the environment refuses are recorded as well.
ExecCode(s, calls) ==
  [s EXCEPT !.history = @ \cup calls,
            !.env = IF @ = "none" \/ calls = {} THEN @ ELSE "changed"]

Reset(s) == [s EXCEPT !.history = {}]

Handle(s, q) ==
  CASE q.op = "init" -> InitWorld(s, q.task)
    [] q.op = "reset" -> Reset(s)
    [] q.op = "exec" -> ExecCode(s, q.calls)
    [] q.op = "eval" -> s

\* /eval: pass_pct.
EvalTask(s) ==
  IF s.task \notin Criteria THEN 0
  ELSE IF Required[s.task] = {} THEN 100
  ELSE (100 * Cardinality(Required[s.task] \cap s.history)) \div Cardinality(Required[s.task])

-----------------------------------------------------------------------------
(* What a request comes to *)

FirstInLine_FaultThreaded == TRUE    \* threaded=True

\* threaded=False: what its client gave up is handled first.
FirstInLine == late = <<>>

Answered(q) ==
  /\ server.up /\ FirstInLine
  /\ server' = Handle(server, q)
  /\ UNCHANGED <<late, faults>>

Refused(q) == ~server.up /\ UNCHANGED serverVars

TimesOut(q) ==
  /\ server.up /\ faults < MaxFaults
  /\ late' = Append(late, q) /\ faults' = faults + 1
  /\ UNCHANGED server

Fails_FaultWaits(q) == TimesOut(q)   \* for a server that is not there

Fails(q) == Refused(q) \/ TimesOut(q)

ServeLate ==
  /\ server.up /\ late # <<>>
  /\ server' = Handle(server, Head(late)) /\ late' = Tail(late)
  /\ UNCHANGED faults

ServerCrashes ==
  /\ server.up /\ faults < MaxFaults
  /\ server' = [Fresh EXCEPT !.up = FALSE] /\ late' = <<>> /\ faults' = faults + 1

ServerRestarts ==
  /\ ~server.up
  /\ server' = Fresh /\ UNCHANGED <<late, faults>>

ServerAlone == ServeLate \/ ServerCrashes \/ ServerRestarts

ServerTypeOK ==
  /\ server \in [up : BOOLEAN, task : TaskId \cup {NoTask}, history : SUBSET Call,
                 env : {"none", "loaded", "changed"}]
  /\ late \in Seq([op : {"init", "reset", "exec", "eval"}, task : TaskId \cup {NoTask},
                   calls : SUBSET Call])
  /\ faults \in 0..MaxFaults
=============================================================================
