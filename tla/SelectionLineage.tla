--------------------------- MODULE SelectionLineage ---------------------------
(***************************************************************************)
(* The D002 experiment (experiments/d002.py) from calibration to verdict:  *)
(* a calibration run freezes a mapping in its package's selection.json, a  *)
(* test run given --frozen-selection checks it and scores held-out         *)
(* problems with it.  Invocations overlap; packages are removed, and their *)
(* selection is edited or written anew by hand, between and during them.  *)
(* A package appears at its path in one step (PackageRunner).              *)
(***************************************************************************)
EXTENDS Integers, Sequences

CONSTANTS
  Path,       \* output directories
  Mapping,    \* what a calibration can select
  Collapsed,  \* the mappings whose widths are all equal
  Calls,      \* the command lines: records [phase, seeds, from]
  Problems,   \* how many test problems are scored
  MaxRuns     \* how many invocations are considered

NoPath == "none"
NoMapping == "none"

\* A seed manifest is [kind, rows]: the word its file name has, and its seeds.
ASSUME LineageAssumption ==
  /\ MaxRuns \in Nat \ {0} /\ Problems \in Nat \ {0}
  /\ Collapsed \subseteq Mapping
  /\ NoPath \notin Path /\ NoMapping \notin Mapping
  /\ \A c \in Calls :
       /\ c.phase \in {"calibration", "test"}
       /\ c.from \in Path \cup {NoPath}
       /\ \A k \in DOMAIN c.seeds :
            c.seeds[k].kind \in {"calibration", "test"} /\ c.seeds[k].rows \subseteq Int

Invocation == 1..MaxRuns

VARIABLES
  pc,       \* pc[r]: new, load, score, publish or ended
  call,     \* call[r]: command line and output path of a running invocation
  held,     \* held[r]: the selection.json a test run has read
  scored,   \* scored[r]: what a test run has found so far
  outcome,   \* outcome[r]: the package a finished driver hands to the runner
  package,  \* package[p]: the package published at p
  frozen    \* every selection a calibration published (history)

lineageVars == <<pc, call, held, scored, outcome, package, frozen>>

-----------------------------------------------------------------------------
(* Manifests, selections and packages *)

\* next((p for p in manifests if kind in p.name), None), as its seeds.
Named(kind, seeds) == {k \in DOMAIN seeds : seeds[k].kind = kind}
FirstNamed(kind, seeds) == {k \in Named(kind, seeds) : \A j \in Named(kind, seeds) : k <= j}
Rows(kind, seeds) == UNION {seeds[k].rows : k \in FirstNamed(kind, seeds)}

\* sha256_json is injective on the body of selection.json, so the hash of a
\* body is its mapping.  Not in the file: origin, the seeds calibrated on, and
\* byHand, whether the hash was written by somebody else than a calibration.
Selection == [mapping : Mapping, sha256 : Mapping, origin : SUBSET Int, byHand : BOOLEAN]
NoSelection == [mapping |-> NoMapping, sha256 |-> NoMapping, origin |-> {}, byHand |-> FALSE]

FrozenOn(m, rows) == [mapping |-> m, sha256 |-> m, origin |-> rows, byHand |-> FALSE]

HashMatches_FaultPresent(s) ==       \* checks that there is a hash
  s.sha256 # NoMapping

HashMatches(s) == s.mapping = s.sha256

\* What a test says.  retained: the headline keeps the efficiency claim.
NoVerdict == [efficiency |-> "none", adaptivity |-> "none", retained |-> FALSE]

\* AuditDecision: an invalid integrity makes every claim invalid.
Decision(oracleOk, utilityPass, mapping) ==
  LET claim(ok) == IF ~oracleOk THEN "invalid" ELSE IF ok THEN "pass" ELSE "fail"
  IN [efficiency |-> claim(utilityPass),
      adaptivity |-> claim(mapping \notin Collapsed),
      retained |-> utilityPass]

\* used is what a test scored with, parent what its manifest records of it;
\* seeds, the manifests the manifest lists, are filled in at publication.
Package(status, selection, used, verdict, mismatches) ==
  [exit_status |-> status, selection |-> selection, used |-> used,
   parent |-> used.sha256, verdict |-> verdict, mismatches |-> mismatches,
   seeds |-> <<>>]

Absent == Package("absent", NoSelection, NoSelection, NoVerdict, 0)
DriverFailed == Package("driver_failed", NoSelection, NoSelection, NoVerdict, 0)
Invalid == Package("invalid", NoSelection, NoSelection, NoVerdict, 0)

NoCall == [phase |-> "none", seeds |-> <<>>, from |-> NoPath, out |-> NoPath]
NotScored == [problems |-> 0, oracleOk |-> TRUE, mismatches |-> 0]

LineageInit ==
  /\ pc = [r \in Invocation |-> "new"]
  /\ call = [r \in Invocation |-> NoCall]
  /\ held = [r \in Invocation |-> NoSelection]
  /\ scored = [r \in Invocation |-> NotScored]
  /\ outcome = [r \in Invocation |-> Absent]
  /\ package = [p \in Path |-> Absent]
  /\ frozen = {}

Goto(r, l) == pc' = [pc EXCEPT ![r] = l]

\* The driver of r is done: p is what _write_package gets.
Deliver(r, p) == outcome' = [outcome EXCEPT ![r] = p] /\ Goto(r, "publish")

-----------------------------------------------------------------------------
(* runner.run() before the driver *)

SplitOverlaps_FaultUnchecked(seeds) == FALSE

SplitOverlaps(seeds) ==
  Rows("calibration", seeds) \cap Rows("test", seeds) # {}

\* refuse_existing and check_split_disjoint: a refused call publishes nothing.
Start(r) ==
  /\ pc[r] = "new"
  /\ r > 1 => pc[r - 1] # "new"
  /\ \E c \in Calls, p \in Path :
       IF package[p] # Absent \/ SplitOverlaps(c.seeds)
         THEN Goto(r, "ended") /\ UNCHANGED call
         ELSE /\ Goto(r, IF c.phase = "test" THEN "load" ELSE "calibrate")
              /\ call' = [call EXCEPT ![r] = [phase |-> c.phase, seeds |-> c.seeds,
                                              from |-> c.from, out |-> p]]
  /\ UNCHANGED <<held, scored, outcome, package, frozen>>

-----------------------------------------------------------------------------
(* The drivers *)

\* _calibration: the scan over the mappings, then selection.json's self-hash.
Calibrate(r) ==
  /\ pc[r] = "calibrate"
  /\ IF Named("calibration", call[r].seeds) # {}
       THEN \E m \in Mapping :
              Deliver(r, Package("ok", FrozenOn(m, Rows("calibration", call[r].seeds)),
                                 NoSelection, NoVerdict, 0))
       ELSE Deliver(r, DriverFailed)
  /\ UNCHANGED <<call, held, scored, package, frozen>>

\* _test up to the mapping: the manifest, the file, its self-hash.
LoadSelection(r) ==
  /\ pc[r] = "load"
  /\ LET from == call[r].from
         file == IF from = NoPath THEN NoSelection ELSE package[from].selection
     IN IF Named("test", call[r].seeds) # {} /\ file # NoSelection /\ HashMatches(file)
          THEN held' = [held EXCEPT ![r] = file] /\ Goto(r, "score") /\ UNCHANGED outcome
          ELSE Deliver(r, DriverFailed) /\ UNCHANGED held
  /\ UNCHANGED <<call, scored, package, frozen>>

ScoreProblem_FaultLastOnly(r) ==     \* oracle_ok = ok
  /\ pc[r] = "score"
  /\ scored[r].problems < Problems
  /\ \E ok \in BOOLEAN :
       scored' = [scored EXCEPT ![r] =
         [problems |-> @.problems + 1, oracleOk |-> ok,
          mismatches |-> IF ok THEN @.mismatches ELSE @.mismatches + 1]]
  /\ UNCHANGED <<pc, call, held, outcome, package, frozen>>

ScoreProblem_FaultOneMore(r) ==      \* <= where the loop ends with <
  /\ pc[r] = "score"
  /\ scored[r].problems <= Problems
  /\ \E ok \in BOOLEAN :
       scored' = [scored EXCEPT ![r] =
         [problems |-> @.problems + 1, oracleOk |-> @.oracleOk /\ ok,
          mismatches |-> IF ok THEN @.mismatches ELSE @.mismatches + 1]]
  /\ UNCHANGED <<pc, call, held, outcome, package, frozen>>

\* One problem: the oracle process agrees with the primary target or does not.
ScoreProblem(r) ==
  /\ pc[r] = "score"
  /\ scored[r].problems < Problems
  /\ \E ok \in BOOLEAN :
       scored' = [scored EXCEPT ![r] =
         [problems |-> @.problems + 1, oracleOk |-> @.oracleOk /\ ok,
          mismatches |-> IF ok THEN @.mismatches ELSE @.mismatches + 1]]
  /\ UNCHANGED <<pc, call, held, outcome, package, frozen>>

\* The oracle exits with an error or the budget is infeasible (DriverError);
\* it times out or prints no JSON (any other exception).
OracleFails(r) ==
  /\ pc[r] = "score"
  /\ scored[r].problems < Problems
  /\ \E p \in {DriverFailed, Invalid} : Deliver(r, p)
  /\ UNCHANGED <<call, held, scored, package, frozen>>

\* The bootstrap's utility verdict, the width gate, the decision.
Decide(r) ==
  /\ pc[r] = "score"
  /\ scored[r].problems = Problems
  /\ \E utilityPass \in BOOLEAN :
       Deliver(r, Package("ok", NoSelection, held[r],
                          Decision(scored[r].oracleOk, utilityPass, held[r].mapping),
                          scored[r].mismatches))
  /\ UNCHANGED <<call, held, scored, package, frozen>>

-----------------------------------------------------------------------------
\* os.replace: fails on the package another run published meanwhile.
AppearAtPath(r) ==
  /\ pc[r] = "publish"
  /\ LET p == call[r].out IN
       IF package[p] = Absent
         THEN /\ package' = [package EXCEPT ![p] = [outcome[r] EXCEPT !.seeds = call[r].seeds]]
              /\ frozen' = frozen \cup ({outcome[r].selection} \ {NoSelection})
         ELSE UNCHANGED <<package, frozen>>
  /\ Goto(r, "ended")
  /\ call' = [call EXCEPT ![r] = NoCall]
  /\ held' = [held EXCEPT ![r] = NoSelection]
  /\ scored' = [scored EXCEPT ![r] = NotScored]
  /\ outcome' = [outcome EXCEPT ![r] = Absent]

\* Somebody edits the widths in a published selection.json, or writes widths
\* and the hash that goes with them, which has no key: a file written by hand
\* elsewhere reads the same.  A file no command line names is left alone.
EditSelection(p) ==
  /\ package[p].selection # NoSelection /\ p \in {c.from : c \in Calls}
  /\ \E m \in Mapping :
       \/ package' = [package EXCEPT ![p].selection.mapping = m]
       \/ package' = [package EXCEPT ![p].selection =
                        [mapping |-> m, sha256 |-> m, origin |-> {}, byHand |-> TRUE]]
  /\ UNCHANGED <<pc, call, held, scored, outcome, frozen>>

\* "delete or move the root to re-run".
Remove(p) ==
  /\ package[p] # Absent
  /\ package' = [package EXCEPT ![p] = Absent]
  /\ UNCHANGED <<pc, call, held, scored, outcome, frozen>>

LineageNext ==
  \/ \E r \in Invocation : \/ Start(r) \/ Calibrate(r) \/ LoadSelection(r) \/ ScoreProblem(r)
                    \/ OracleFails(r) \/ Decide(r) \/ AppearAtPath(r)
  \/ \E p \in Path : EditSelection(p) \/ Remove(p)

LineageSpec == LineageInit /\ [][LineageNext]_lineageVars

-----------------------------------------------------------------------------
(* Properties *)

Claim == {"pass", "fail", "invalid", "none"}
SeedList == {<<>>} \cup {c.seeds : c \in Calls}
AnySelection == Selection \cup {NoSelection}

AnyPackage ==
  [exit_status : {"absent", "ok", "driver_failed", "invalid"},
   selection : AnySelection, used : AnySelection,
   parent : Mapping \cup {NoMapping},
   verdict : [efficiency : Claim, adaptivity : Claim, retained : BOOLEAN],
   mismatches : 0..Problems, seeds : SeedList]

LineageTypeOK ==
  /\ pc \in [Invocation -> {"new", "calibrate", "load", "score", "publish", "ended"}]
  /\ call \in [Invocation -> [phase : {"calibration", "test", "none"}, seeds : SeedList,
                       from : Path \cup {NoPath}, out : Path \cup {NoPath}]]
  /\ held \in [Invocation -> AnySelection]
  /\ scored \in [Invocation -> [problems : 0..Problems, oracleOk : BOOLEAN,
                         mismatches : 0..Problems]]
  /\ outcome \in [Invocation -> AnyPackage]
  /\ package \in [Path -> AnyPackage]
  /\ frozen \subseteq Selection

\* Whatever a test scored with is a selection as it was hashed last, by the
\* calibration that published it or by hand: never one edited since, however
\* the file changed before, between and after the reads of overlapping tests.
\* Its manifest records that selection's hash, and the
\* verdict on adaptivity is about that selection's widths.
ScoredAsHashed ==
  \A p \in Path :
    LET used == package[p].used IN
    used # NoSelection =>
      /\ HashMatches(used) /\ (used.byHand \/ used \in frozen)
      /\ package[p].parent = used.mapping
      /\ package[p].verdict.adaptivity = "pass" => used.mapping \notin Collapsed

\* "So an edited mapping (e.g. hand-picked widths) is rejected, not silently
\* used": whatever a test scored with, some calibration published.
FrozenSelection == \A p \in Path : package[p].used # NoSelection => package[p].used \in frozen

\* A claim passes only if the independent oracle agreed on every problem.
OraclesAgreed ==
  \A p \in Path :
    "pass" \in {package[p].verdict.efficiency, package[p].verdict.adaptivity} =>
      package[p].mismatches = 0

\* The calibration and the test rows of package k's lineage have no seed in
\* common.
SplitDisjoint(k) == k.used.origin \cap Rows("test", k.seeds) = {}

\* A test that was also given the manifest its selection was calibrated on,
\* as the first calibration manifest, scored none of its seeds.
HeldOutIfNamed ==
  \A p \in Path :
    Rows("calibration", package[p].seeds) = package[p].used.origin =>
      SplitDisjoint(package[p])

\* Step 5 of run(): "Validate calibration/test disjointness".
HeldOut == \A p \in Path : SplitDisjoint(package[p])
=============================================================================
