----------------------------- MODULE ReleaseIndex -----------------------------
(***************************************************************************)
(* build_release_report (report.py): it lists the packages of a root,      *)
(* audits and indexes them one by one, writes the index and the report,    *)
(* and seals the root with a SHA256SUMS over everything in it, while       *)
(* packages change.  A build may raise on a file it cannot parse and may   *)
(* be killed at any point; the next one starts over.                       *)
(***************************************************************************)
EXTENDS ReleasePackages

CONSTANT MaxBuilds   \* how many reports are built

ASSUME BuildsAssumption == MaxBuilds \in Nat

VARIABLES
  builds,    \* how many reports were started
  doing,     \* where the builder is; "idle" between builds
  todo,      \* the directories it has still to look at, in the order of their names
  entry,     \* the index entry it is filling in
  index,     \* the entries so far
  hashes,    \* hashes[d]: the package at d as sha256_tree read it
  root       \* what the root holds: result_index.json, REPORT.md, SHA256SUMS

indexVars == <<pack, changes, quiet, builds, doing, todo, entry, index, hashes, root>>

\* f with one more entry.
With(f, d, v) == [e \in DOMAIN f \cup {d} |-> IF e = d THEN v ELSE f[e]]

NoEntry == [errors |-> FALSE, integrity |-> "none", exit |-> "none"]
NoIndex == [d \in {} |-> NoEntry]
NoHashes == [d \in {} |-> NoPack]

\* The root's SHA256SUMS; settled, the history at the time, is not in it.
Sealed(packs, built, printed, settled) ==
  [packs |-> packs, index |-> built, report |-> printed, settled |-> settled]
NoSums == Sealed(NoHashes, NoIndex, NoIndex, {})

IndexInit ==
  /\ InitPackages
  /\ builds = 0 /\ doing = "idle" /\ todo = {} /\ entry = NoEntry
  /\ index = NoIndex /\ hashes = NoHashes
  /\ root = [index |-> NoIndex, report |-> NoIndex, sums |-> NoSums]

-----------------------------------------------------------------------------
(* build_release_report *)

\* iterdir, sorted, without files and .tmp directories.
List ==
  /\ doing = "idle"
  /\ builds < MaxBuilds
  /\ builds' = builds + 1
  /\ todo' = Listing
  /\ StartWatching
  /\ doing' = "audit"
  /\ UNCHANGED <<entry, index, hashes, root>>

Audit_FaultTwice ==                  \* the loop moves on too early
  /\ doing = "audit"
  /\ \E d \in First(todo) :
       LET ok == AuditPasses(pack[d])
       IN /\ entry' = [errors |-> ~ok, integrity |-> IF ok THEN "pass" ELSE "fail",
                        exit |-> "none"]
          /\ todo' = todo \ {d}
  /\ doing' = "manifest"
  /\ UNCHANGED <<packVars, builds, index, hashes, root>>

Audit ==
  /\ doing = "audit"
  /\ \E d \in First(todo) :
       LET ok == AuditPasses(pack[d])
       IN entry' = [errors |-> ~ok, integrity |-> IF ok THEN "pass" ELSE "fail",
                    exit |-> "none"]
  /\ doing' = "manifest"
  /\ UNCHANGED <<packVars, builds, todo, index, hashes, root>>

\* An exception ends the build; its locals are lost.
Raise ==
  /\ doing' = "idle" /\ todo' = {} /\ entry' = NoEntry
  /\ index' = NoIndex /\ hashes' = NoHashes

ReadManifest ==
  /\ doing = "manifest"
  /\ \E d \in First(todo) :
       LET man == pack[d].file["manifest"] IN
       \/ man = "broken" /\ Raise
       \/ /\ man # "broken"
          /\ entry' = [entry EXCEPT !.exit =
                         IF man \in {Gone, "incomplete"} THEN "none" ELSE man]
          /\ doing' = "decision"
          /\ UNCHANGED <<todo, index, hashes>>
  /\ UNCHANGED <<packVars, builds, root>>

ReadDecision_FaultSkipsFailed ==     \* only what ran to its end is indexed
  /\ doing = "decision"
  /\ \E d \in First(todo) :
       LET gd == pack[d].file["decision"]
           final == IF gd \in {Gone, "undecided"} THEN entry
                    ELSE [entry EXCEPT !.integrity = gd]
       IN \/ gd = "broken" /\ Raise
          \/ /\ gd # "broken"
             /\ index' = IF entry.exit = "driver_failed" THEN index
                      ELSE With(index, d, final)
             /\ todo' = todo \ {d}
             /\ entry' = NoEntry
             /\ doing' = "audit"
             /\ UNCHANGED hashes
  /\ UNCHANGED <<packVars, builds, root>>

\* experiment_integrity, when the decision has one, replaces the audit's.
ReadDecision ==
  /\ doing = "decision"
  /\ \E d \in First(todo) :
       LET gd == pack[d].file["decision"]
           final == IF gd \in {Gone, "undecided"} THEN entry
                    ELSE [entry EXCEPT !.integrity = gd]
       IN \/ gd = "broken" /\ Raise
          \/ /\ gd # "broken"
             /\ index' = With(index, d, final)
             /\ todo' = todo \ {d}
             /\ entry' = NoEntry
             /\ doing' = "audit"
             /\ UNCHANGED hashes
  /\ UNCHANGED <<packVars, builds, root>>

WriteIndex_FaultEager ==             \* the index as far as it is known
  /\ doing = "audit"
  /\ root' = [root EXCEPT !.index = index]
  /\ doing' = IF todo = {} THEN "report" ELSE "audit"
  /\ UNCHANGED <<packVars, builds, todo, entry, index, hashes>>

WriteIndex ==
  /\ doing = "audit" /\ todo = {}
  /\ root' = [root EXCEPT !.index = index]
  /\ doing' = "report"
  /\ UNCHANGED <<packVars, builds, todo, entry, index, hashes>>

\* environment.json and TEST_LOG.txt before it change nothing here.
WriteReport ==
  /\ doing = "report"
  /\ root' = [root EXCEPT !.report = index]
  /\ doing' = "hash"
  /\ UNCHANGED <<packVars, builds, todo, entry, index, hashes>>

\* sha256_tree(output): rglob lists the tree, then its files are read.
ListTree ==
  /\ doing = "hash"
  /\ todo' = Listing
  /\ doing' = "hashing"
  /\ UNCHANGED <<packVars, builds, entry, index, hashes, root>>

HashPack ==
  /\ doing = "hashing"
  /\ \E d \in First(todo) :
       /\ hashes' = IF pack[d] = NoPack THEN hashes
                    ELSE With(hashes, d, pack[d])
       /\ todo' = todo \ {d}
  /\ UNCHANGED <<packVars, builds, doing, entry, index, root>>

\* write_text opens SHA256SUMS, which empties it, and then writes its lines.
OpenSums ==
  /\ doing = "hashing" /\ todo = {}
  /\ root' = [root EXCEPT !.sums = NoSums]
  /\ doing' = "sums"
  /\ UNCHANGED <<packVars, builds, todo, entry, index, hashes>>

WriteSums ==
  /\ doing = "sums"
  /\ root' = [root EXCEPT !.sums = Sealed(hashes, root.index, root.report, quiet)]
  /\ Raise
  /\ UNCHANGED <<packVars, builds>>

\* The build is killed, or a file goes while it is being read.
BuilderDies ==
  /\ doing # "idle"
  /\ Raise
  /\ UNCHANGED <<packVars, builds, root>>

Build ==
  \/ List \/ Audit \/ ReadManifest \/ ReadDecision \/ WriteIndex \/ WriteReport
  \/ ListTree \/ HashPack \/ OpenSums \/ WriteSums \/ BuilderDies

IndexNext ==
  \/ Build
  \/ ChangePackage /\ UNCHANGED <<builds, doing, todo, entry, index, hashes, root>>

IndexSpec == IndexInit /\ [][IndexNext]_indexVars

-----------------------------------------------------------------------------
(* Properties *)

Entry == [errors : BOOLEAN, integrity : {"pass", "fail", "invalid", "none"},
          exit : {"ok", "driver_failed", "invalid", "none"}]
IsIndex(x) == DOMAIN x \subseteq Dir /\ x \in [DOMAIN x -> Entry]
IsHashes(x) == DOMAIN x \subseteq Dir /\ x \in [DOMAIN x -> Pack]
IsSums(s) ==
  /\ s = Sealed(s.packs, s.index, s.report, s.settled)
  /\ IsHashes(s.packs) /\ IsIndex(s.index) /\ IsIndex(s.report) /\ s.settled \subseteq Dir

IndexTypeOK ==
  /\ PackagesTypeOK
  /\ builds \in 0..MaxBuilds
  /\ doing \in {"idle", "audit", "manifest", "decision", "report", "hash", "hashing", "sums"}
  /\ todo \subseteq Dir /\ (doing \in {"manifest", "decision"} => todo # {})
  /\ entry \in Entry /\ IsIndex(index) /\ IsHashes(hashes)
  /\ root = [index |-> root.index, report |-> root.report, sums |-> root.sums]
  /\ IsIndex(root.index) /\ IsIndex(root.report) /\ IsSums(root.sums)

\* sha256sum -c SHA256SUMS in the root: what it lists is there, unchanged.
Unchanged(was, is) ==
  /\ \A f \in Piece : was.file[f] # Gone => is.file[f] = was.file[f]
  /\ is.sums = was.sums /\ is.wellFormed = was.wellFormed

RootVerifies ==
  /\ root.sums # NoSums
  /\ root.sums.index = root.index /\ root.sums.report = root.report
  /\ \A d \in DOMAIN root.sums.packs : Unchanged(root.sums.packs[d], pack[d])

\* "Every number above traces to the artifact dirs + SHA256SUMS": while the
\* root's SHA256SUMS verifies, a package that the index has without errors,
\* and that stood still while the report was built, is intact, however many
\* builds died or raised since.
SealedIndexHonest ==
  RootVerifies =>
    \A d \in DOMAIN root.index \cap root.sums.settled :
      ~root.index[d].errors => Intact(pack[d])

\* "Failed runs still enter the index": no package is sealed into the root
\* without an entry.
SealedIndexComplete ==
  RootVerifies => DOMAIN root.sums.packs \cap root.sums.settled \subseteq DOMAIN root.index

\* A build that raises on a damaged package has written nothing: the index
\* and the report change only when every listed package has been read.
ReadsBeforeWriting ==
  [][root' # root => todo = {} /\ doing \notin {"idle", "manifest", "decision"}]_indexVars

\* result_index.json is "per-experiment status" of directories that were
\* "verified against the package format".
IndexedPassIsIntact ==
  RootVerifies =>
    \A d \in DOMAIN root.index \cap root.sums.settled :
      root.index[d].integrity = "pass" => Intact(pack[d])
=============================================================================
