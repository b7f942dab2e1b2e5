----------------------------- MODULE ReleaseGate -----------------------------
(***************************************************************************)
(* The release gate of the CI (scripts/validate_artifacts.sh): it looks at *)
(* every pack under a root, asks the auditor and then sha256sum, and ends  *)
(* with OK only if it saw a pack and none failed.  Packs may change while  *)
(* it runs.  The directories it excludes by name are not in Dir.           *)
(***************************************************************************)
EXTENDS ReleasePackages

VARIABLE gate    \* where it is, the packs left, those checked and failed

gateVars == <<pack, changes, quiet, gate>>

GateInit ==
  /\ InitPackages
  /\ gate = [at |-> "new", todo |-> {}, checked |-> {}, failed |-> {}]

-----------------------------------------------------------------------------
(* validate_artifacts.sh *)

GateList ==
  /\ gate.at = "new"
  /\ gate' = [gate EXCEPT !.at = "check", !.todo = Listing]
  /\ StartWatching

GateCheck_FaultUncounted ==          \* the failure is printed, not counted
  /\ gate.at = "check"
  /\ \E d \in First(gate.todo) :
       LET rest == [gate EXCEPT !.todo = @ \ {d}] IN
       gate' =
          IF Gone \in {pack[d].file["protocol"], pack[d].file["manifest"]} THEN rest
          ELSE IF AuditCommandFails(pack[d]) THEN [rest EXCEPT !.checked = @ \cup {d}]
          ELSE [gate EXCEPT !.checked = @ \cup {d}, !.at = "sums"]
  /\ UNCHANGED packVars

GateCheck_FaultCountsLate ==         \* only what the auditor passed is counted
  /\ gate.at = "check"
  /\ \E d \in First(gate.todo) :
       LET rest == [gate EXCEPT !.todo = @ \ {d}] IN
       gate' =
          IF Gone \in {pack[d].file["protocol"], pack[d].file["manifest"]} THEN rest
          ELSE IF AuditCommandFails(pack[d]) THEN [rest EXCEPT !.failed = @ \cup {d}]
          ELSE [gate EXCEPT !.checked = @ \cup {d}, !.at = "sums"]
  /\ UNCHANGED packVars

\* A directory without a protocol and a manifest is no pack; then the audit.
GateCheck ==
  /\ gate.at = "check"
  /\ \E d \in First(gate.todo) :
       LET rest == [gate EXCEPT !.todo = @ \ {d}] IN
       gate' =
          IF Gone \in {pack[d].file["protocol"], pack[d].file["manifest"]} THEN rest
          ELSE IF AuditCommandFails(pack[d])
            THEN [rest EXCEPT !.checked = @ \cup {d}, !.failed = @ \cup {d}]
          ELSE [gate EXCEPT !.checked = @ \cup {d}, !.at = "sums"]
  /\ UNCHANGED packVars

\* sha256sum -c, where there is a SHA256SUMS: it has a line, and what it
\* lists matches.  One that lists nothing is empty or absent.
GateSums ==
  /\ gate.at = "sums"
  /\ \E d \in First(gate.todo), there \in BOOLEAN :
       LET p == pack[d]
           empty == \A f \in Piece : p.sums[f] = Gone
           differs == \E f \in Piece : p.sums[f] # Gone /\ p.sums[f] # p.file[f]
       IN /\ p = NoPack => ~there
          /\ gate' = [gate EXCEPT !.at = "check", !.todo = @ \ {d},
                        !.failed = IF differs \/ (empty /\ there) THEN @ \cup {d} ELSE @]
  /\ UNCHANGED packVars

GateEnd ==
  /\ gate.at = "check" /\ gate.todo = {}
  /\ gate' = [gate EXCEPT !.at = IF gate.checked = {} \/ gate.failed # {} THEN "error" ELSE "ok"]
  /\ UNCHANGED packVars

RunGate == GateList \/ GateCheck \/ GateSums \/ GateEnd

GateNext == RunGate \/ (ChangePackage /\ UNCHANGED gate)

GateSpec == GateInit /\ [][GateNext]_gateVars

-----------------------------------------------------------------------------
(* Properties *)

GateTypeOK ==
  /\ PackagesTypeOK
  /\ gate \in [at : {"new", "check", "sums", "ok", "error"}, todo : SUBSET Dir,
                checked : SUBSET Dir, failed : SUBSET Dir]
  /\ gate.at = "sums" => gate.todo # {}
  /\ gate.failed \subseteq gate.checked

\* "Every checked-in Auditor artifact pack must pass": the gate says OK only
\* if each pack it should have looked at, and that nobody changed meanwhile,
\* is intact.
GateSound ==
  gate.at = "ok" =>
    \A d \in quiet :
      Gone \notin {pack[d].file["protocol"], pack[d].file["manifest"]} => Intact(pack[d])
=============================================================================
