--------------------------- MODULE ReleasePackages ---------------------------
(***************************************************************************)
(* The packages of one artifact root after they are published, what the    *)
(* audit (audit/provenance.py) says of them, and what happens to them:     *)
(* they are published, removed, damaged and sealed again.                  *)
(*                                                                         *)
(* Of a package's files four stand for all: what the audit asks of the     *)
(* others is what it asks of the raw rows.                                 *)
(***************************************************************************)
EXTENDS Integers, FiniteSets

CONSTANTS
  Dir,         \* package directories, numbered in the order of their names
  MaxChanges   \* how often a package is published, changed or removed

ASSUME PackagesAssumption ==
  /\ Dir \subseteq Int /\ IsFiniteSet(Dir)
  /\ MaxChanges \in Nat

Piece == {"protocol", "manifest", "decision", "rows"}
Gone == "gone"

\* What a file can hold.  A manifest holds its exit status, or misses fields,
\* or is not JSON; a decision holds experiment_integrity, or no such key.
Holds(f) ==
  CASE f = "manifest" -> {Gone, "ok", "driver_failed", "invalid", "incomplete", "broken"}
    [] f = "decision" -> {Gone, "pass", "invalid", "undecided", "broken"}
    [] OTHER -> {Gone, "published", "other"}

\* sums: the hash SHA256SUMS has for each file (a hash is what it hashes);
\* wellFormed: it has no malformed, unsafe or repeated line.
Content == UNION {Holds(f) : f \in Piece}
Files == {c \in [Piece -> Content] : \A f \in Piece : c[f] \in Holds(f)}
Pack == [file : Files, sums : Files, wellFormed : BOOLEAN]

Seal(files) == [file |-> files, sums |-> files, wellFormed |-> TRUE]

NoPack == Seal([f \in Piece |-> Gone])

\* What a run publishes: a driver that failed has no raw rows and decides nothing.
RunFiles(exit, decision, rows) ==
  [f \in Piece |-> CASE f = "manifest" -> exit
                     [] f = "decision" -> decision
                     [] f = "rows" -> rows
                     [] OTHER -> "published"]
Published ==
  {Seal(RunFiles(exit, "undecided", Gone)) : exit \in {"driver_failed", "invalid"}}
    \cup {Seal(RunFiles("ok", d, "published")) : d \in {"pass", "invalid"}}

-----------------------------------------------------------------------------
(* audit_artifact_dir *)

AuditPasses_FaultListedOnly(p) ==    \* a file no line lists goes unnoticed
  /\ \A f \in Piece : p.file[f] # Gone
  /\ p.wellFormed
  /\ \A f \in Piece : p.sums[f] # Gone => p.sums[f] = p.file[f]
  /\ p.file["manifest"] \notin {"incomplete", "broken"}

\* Required files exist and are listed, everything listed matches, the
\* manifest is complete.  An absent or empty SHA256SUMS lists nothing.
AuditPasses(p) ==
  /\ \A f \in Piece : p.file[f] # Gone
  /\ p.wellFormed
  /\ \A f \in Piece : p.sums[f] = p.file[f]
  /\ p.file["manifest"] \notin {"incomplete", "broken"}

\* "credit-auditor audit" reads gate_decision.json after the audit.
AuditCommandFails(p) == ~AuditPasses(p) \/ p.file["decision"] = "broken"

-----------------------------------------------------------------------------
VARIABLES
  pack,      \* pack[d]: the package at d, NoPack where there is none
  changes,   \* how many changes were made
  quiet      \* directories unchanged since they were last listed (history)

packVars == <<pack, changes, quiet>>

InitPackages ==
  /\ pack \in [Dir -> Published \cup {NoPack}]
  /\ changes = 0
  /\ quiet = {}

\* The directories of the root; they are visited in the order of their names.
Listing == {d \in Dir : pack[d] # NoPack}
First(S) == {d \in S : \A e \in S : d <= e}

\* Whoever lists them: history starts again.
StartWatching == quiet' = Dir /\ UNCHANGED <<pack, changes>>

Change(d, p) ==
  /\ changes < MaxChanges
  /\ changes' = changes + 1
  /\ pack' = [pack EXCEPT ![d] = p]
  /\ quiet' = quiet \ {d}

Publish(d) == pack[d] = NoPack /\ \E p \in Published : Change(d, p)

TakeAway(d) == pack[d] # NoPack /\ Change(d, NoPack)

\* A file is edited, truncated or lost.
Damage(d) ==
  /\ pack[d] # NoPack
  /\ \E f \in Piece : \E c \in Holds(f) \ {pack[d].file[f]} :
       Change(d, [pack[d] EXCEPT !.file[f] = c])

\* SHA256SUMS is edited, or lost: a wrong line, a line too few.
DamageSums(d) ==
  /\ pack[d] # NoPack
  /\ \/ Change(d, [pack[d] EXCEPT !.wellFormed = FALSE])
     \/ \E f \in Piece : Change(d, [pack[d] EXCEPT !.sums[f] = Gone])

\* sha256sum is run again over the package as it is.
Reseal(d) == pack[d] # NoPack /\ Change(d, Seal(pack[d].file))

ChangePackage ==
  \E d \in Dir : Publish(d) \/ TakeAway(d) \/ Damage(d) \/ DamageSums(d) \/ Reseal(d)

PackagesTypeOK ==
  /\ pack \in [Dir -> Pack]
  /\ changes \in 0..MaxChanges
  /\ quiet \subseteq Dir

\* Nothing missing, nothing unlisted, nothing but what was hashed.
Intact(p) == \A f \in Piece : p.file[f] # Gone /\ p.sums[f] = p.file[f]
=============================================================================
