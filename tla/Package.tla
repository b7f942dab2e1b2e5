------------------------------- MODULE Package -------------------------------
(***************************************************************************)
(* The evidence package of credit_auditor: the files runner.py writes, the *)
(* directory that holds them while they are written and after they are     *)
(* published, and the audit (audit/provenance.py) a reader runs on it.     *)
(*                                                                         *)
(* A file's content is the number of the run that wrote it, 0 when there   *)
(* is no such file: what the properties tell apart is who wrote a file,    *)
(* and a SHA-256 is taken to be injective, so a recorded hash is the       *)
(* content that was hashed.                                                *)
(***************************************************************************)
EXTENDS Integers, Sequences

CONSTANT MaxRuns            \* how many invocations of run() are considered

ASSUME MaxRunsAssumption == MaxRuns \in Nat \ {0}

Run == 1..MaxRuns
Content == 0..MaxRuns
NoFile == 0

(***************************************************************************)
(* _write_package writes its files in this order; the first is written     *)
(* only when the driver returned raw rows, the last only when the result   *)
(* carries a frozen selection.  SHA256SUMS comes after all of them.        *)
(***************************************************************************)
RawRows == "raw_rows.jsonl.zst"
Selection == "selection.json"
Sums == "SHA256SUMS"

WriteOrder ==
  << RawRows, "protocol.json", "result.json", "oracle_result.json",
     "gate_decision.json", "run_manifest.json", "REPORT.md", Selection >>

Always == {"protocol.json", "result.json", "oracle_result.json",
           "gate_decision.json", "run_manifest.json", "REPORT.md"}

File == Always \cup {RawRows, Selection, Sums}

(***************************************************************************)
(* A directory entry is a file under its final name, or the scratch file   *)
(* <name>.tmp an atomic write renames.                                     *)
(***************************************************************************)
Final(f) == <<f, "final">>
Scratch(f) == <<f, "scratch">>
Name == File \X {"final", "scratch"}

Nothing == [n \in Name |-> NoFile]

\* made: the directory exists; sums: what its SHA256SUMS records.
Directory == [made : BOOLEAN, files : [Name -> Content], sums : [Name -> Content]]

Gone == [made |-> FALSE, files |-> Nothing, sums |-> Nothing]
Fresh == [made |-> TRUE, files |-> Nothing, sums |-> Nothing]

\* d with content c under name n, and d with s as what its SHA256SUMS records.
Put(d, n, c) == [d EXCEPT !.files[n] = c]
Record(d, s) == [d EXCEPT !.sums = s]
Make(d) == [d EXCEPT !.made = TRUE]

Present(d) == {n \in Name : d.files[n] # NoFile}

(***************************************************************************)
(* canonical.sha256_tree without SHA256SUMS itself, as _write_package      *)
(* records it.                                                             *)
(***************************************************************************)
TreeHashes_FaultTextOnly(d) ==       \* hashes only what was written as text
  [d.files EXCEPT ![Final(Sums)] = NoFile, ![Final(RawRows)] = NoFile]

TreeHashes(d) == [d.files EXCEPT ![Final(Sums)] = NoFile]

-----------------------------------------------------------------------------
(***************************************************************************)
(* audit_artifact_dir: every required file exists, SHA256SUMS lists every  *)
(* required file, and everything it lists is on disk with that hash.       *)
(* Entries are well formed here: ReleasePackages adds the malformed ones.     *)
(***************************************************************************)
Required_FaultNoRows == Always \cup {Sums}

Required == Always \cup {RawRows, Sums}

MissingFiles(d) == {f \in Required : d.files[Final(f)] = NoFile}
UnlistedRequired(d) == {f \in Required \ {Sums} : d.sums[Final(f)] = NoFile}
Mismatched(d) ==
  {n \in Name : d.sums[n] # NoFile /\ d.files[n] # d.sums[n]}

AuditPasses(d) ==
  MissingFiles(d) = {} /\ UnlistedRequired(d) = {} /\ Mismatched(d) = {}
=============================================================================
