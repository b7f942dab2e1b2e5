---------------------------- MODULE PackageRunner ----------------------------
(***************************************************************************)
(* runner.run(): how one invocation of the protocol runner turns a driver  *)
(* result into a published evidence package.                               *)
(*                                                                         *)
(* All the invocations considered aim at the same output directory.  Each  *)
(* writes <output>.tmp file by file and then renames the directory, and    *)
(* each may be killed between any two file-system calls.  Next lets them   *)
(* overlap.  SerialNext starts one only when none is alive, which is how   *)
(* scripts/*.sh call the program.                                          *)
(*                                                                         *)
(* An operator named X_Fault... is X with a plausible bug.  No formula of  *)
(* the specification uses it; it shows that a property notices the bug.    *)
(***************************************************************************)
EXTENDS Package

VARIABLES
  pc,        \* pc[r]: where invocation r of run() stands
  at,        \* at[r]: position in WriteOrder of the next file
  plan,      \* plan[r]: exit status and files of the driver's result
  listing,   \* listing[r]: entries a shutil.rmtree still has to unlink
  recorded,  \* recorded[r]: the hashes r computed for SHA256SUMS
  out,       \* the output directory
  tmp        \* <output>.tmp, shared by every invocation with this output

vars == <<pc, at, plan, listing, recorded, out, tmp>>

Ended == {"rejected", "raised", "failed", "crashed", "published"}
Live == {"check", "drive", "clear", "unlink", "mkdir", "write", "rename",
         "sums", "publish", "cleanup", "sweep"}

(***************************************************************************)
(* What a driver can hand to _write_package.  run() turns a DriverError    *)
(* into status driver_failed and any other exception into invalid, both    *)
(* without raw rows.  Only a calibration result carries a selection.       *)
(***************************************************************************)
Plan ==
  [exit : {"driver_failed", "invalid"}, files : {Always}]
  \cup [exit : {"ok"},
        files : {Always, Always \cup {RawRows}, Always \cup {RawRows, Selection}}]

NoPlan == [exit |-> "none", files |-> {}]

Init ==
  /\ pc = [r \in Run |-> "new"]
  /\ at = [r \in Run |-> 1]
  /\ plan = [r \in Run |-> NoPlan]
  /\ listing = [r \in Run |-> {}]
  /\ recorded = [r \in Run |-> Nothing]
  /\ out = Gone
  /\ tmp = Gone

Goto(r, l) == pc' = [pc EXCEPT ![r] = l]

\* The locals of a process die with it.
Forget(r) ==
  /\ at' = [at EXCEPT ![r] = 1]
  /\ plan' = [plan EXCEPT ![r] = NoPlan]
  /\ listing' = [listing EXCEPT ![r] = {}]
  /\ recorded' = [recorded EXCEPT ![r] = Nothing]

-----------------------------------------------------------------------------
(* Before the driver: nothing is written. *)

\* validate_protocol and the source and seed hashes; a bad protocol raises.
Start(r) ==
  /\ pc[r] = "new"
  /\ \E l \in {"check", "rejected"} : Goto(r, l)
  /\ UNCHANGED <<at, plan, listing, recorded, out, tmp>>

RefuseExisting_FaultReplaces(r) ==   \* removes the old package instead
  /\ pc[r] = "check"
  /\ out' = Gone
  /\ \E l \in {"drive", "rejected"} : Goto(r, l)
  /\ UNCHANGED <<at, plan, listing, recorded, tmp>>

\* refuse_existing(output_dir), then check_split_disjoint, which may raise.
RefuseExisting(r) ==
  /\ pc[r] = "check"
  /\ \E l \in (IF out.made THEN {"rejected"} ELSE {"drive", "rejected"}) : Goto(r, l)
  /\ UNCHANGED <<at, plan, listing, recorded, out, tmp>>

\* The driver returns or raises; either way there is a result to package.
Drive(r) ==
  /\ pc[r] = "drive"
  /\ \E p \in Plan : plan' = [plan EXCEPT ![r] = p]
  /\ Goto(r, "clear")
  /\ UNCHANGED <<at, listing, recorded, out, tmp>>

-----------------------------------------------------------------------------
(* if tmp_dir.exists(): shutil.rmtree(tmp_dir); tmp_dir.mkdir(parents=True) *)

ListTmp_FaultKeeps(r) ==             \* mkdir(exist_ok=True), no rmtree
  /\ pc[r] = "clear"
  /\ tmp' = Make(tmp)
  /\ Goto(r, "write")
  /\ UNCHANGED <<at, plan, listing, recorded, out>>

ListTmp_FaultNoClear(r) ==           \* the rmtree forgotten
  /\ pc[r] = "clear"
  /\ Goto(r, "mkdir")
  /\ UNCHANGED <<at, plan, listing, recorded, out, tmp>>

ListTmp_FaultWaits(r) ==             \* a leftover directory taken for a lock
  /\ pc[r] = "clear"
  /\ ~tmp.made
  /\ Goto(r, "mkdir")
  /\ UNCHANGED <<at, plan, listing, recorded, out, tmp>>

ListTmp(r) ==
  /\ pc[r] = "clear"
  /\ listing' = [listing EXCEPT ![r] = Present(tmp)]
  /\ Goto(r, IF tmp.made THEN "unlink" ELSE "mkdir")
  /\ UNCHANGED <<at, plan, recorded, out, tmp>>

\* rmtree lists the directory once and unlinks what it listed, in the order
\* the file system gave: some fixed order, of which nothing is assumed.
NextEntry(S) == CHOOSE n \in S : TRUE

Unlink(r) ==
  /\ pc[r] \in {"unlink", "sweep"}
  /\ listing[r] # {}
  /\ LET n == NextEntry(listing[r]) IN
       /\ listing' = [listing EXCEPT ![r] = @ \ {n}]
       /\ tmp' = Record(Put(tmp, n, NoFile),
                        IF n = Final(Sums) THEN Nothing ELSE tmp.sums)
       /\ IF pc[r] = "unlink" /\ n \notin Present(tmp)
            THEN Goto(r, "raised")  \* another invocation unlinked it first
            ELSE UNCHANGED pc
  /\ UNCHANGED <<at, plan, recorded, out>>

\* The rmdir that ends rmtree fails on a directory that is not empty.
RemoveTmp(r) ==
  /\ pc[r] = "unlink"
  /\ listing[r] = {}
  /\ IF tmp.made /\ Present(tmp) = {}
       THEN tmp' = Gone /\ Goto(r, "mkdir")
       ELSE Goto(r, "raised") /\ UNCHANGED tmp
  /\ UNCHANGED <<at, plan, listing, recorded, out>>

\* mkdir without exist_ok: an existing directory raises FileExistsError.
MakeTmp(r) ==
  /\ pc[r] = "mkdir"
  /\ IF tmp.made
       THEN Goto(r, "raised") /\ UNCHANGED tmp
       ELSE tmp' = Fresh /\ Goto(r, "write")
  /\ UNCHANGED <<at, plan, listing, recorded, out>>

-----------------------------------------------------------------------------
(* _write_package *)

\* atomic_write_*: mkdir(exist_ok) on the parent, then <name>.tmp in full.
WriteScratch(r) ==
  /\ pc[r] = "write"
  /\ at[r] <= Len(WriteOrder)
  /\ WriteOrder[at[r]] \in plan[r].files
  /\ tmp' = Put(Make(tmp), Scratch(WriteOrder[at[r]]), r)
  /\ Goto(r, "rename")
  /\ UNCHANGED <<at, plan, listing, recorded, out>>

\* tmp.replace(path): raises when the scratch file has gone.
Rename(r) ==
  /\ pc[r] = "rename"
  /\ LET f == WriteOrder[at[r]] IN
       IF tmp.files[Scratch(f)] = NoFile
         THEN Goto(r, "cleanup") /\ UNCHANGED <<at, tmp>>
         ELSE /\ tmp' = Put(Put(tmp, Final(f), tmp.files[Scratch(f)]), Scratch(f), NoFile)
              /\ at' = [at EXCEPT ![r] = @ + 1]
              /\ Goto(r, "write")
  /\ UNCHANGED <<plan, listing, recorded, out>>

SkipFile_FaultTwice(r) ==            \* the position advanced twice
  /\ pc[r] = "write"
  /\ at[r] <= Len(WriteOrder)
  /\ WriteOrder[at[r]] \notin plan[r].files
  /\ at' = [at EXCEPT ![r] = @ + 2]
  /\ UNCHANGED <<pc, plan, listing, recorded, out, tmp>>

\* No raw rows, or no selection: that file is not written.
SkipFile(r) ==
  /\ pc[r] = "write"
  /\ at[r] <= Len(WriteOrder)
  /\ WriteOrder[at[r]] \notin plan[r].files
  /\ at' = [at EXCEPT ![r] = @ + 1]
  /\ UNCHANGED <<pc, plan, listing, recorded, out, tmp>>

\* sums = sha256_tree(dirpath): {} when the directory has gone.
HashTree(r) ==
  /\ pc[r] = "write"
  /\ at[r] > Len(WriteOrder)
  /\ recorded' = [recorded EXCEPT ![r] = TreeHashes(tmp)]
  /\ Goto(r, "sums")
  /\ UNCHANGED <<at, plan, listing, out, tmp>>

\* SHA256SUMS is a plain write_text, which makes no parent directory.
WriteSums(r) ==
  /\ pc[r] = "sums"
  /\ IF tmp.made
       THEN /\ tmp' = Record(Put(tmp, Final(Sums), r), recorded[r])
            /\ Goto(r, "publish")
       ELSE Goto(r, "cleanup") /\ UNCHANGED tmp
  /\ UNCHANGED <<at, plan, listing, recorded, out>>

\* A value canonical_json refuses, or an OSError, anywhere in _write_package.
WriteError(r) ==
  /\ pc[r] \in {"write", "rename", "sums"}
  /\ Goto(r, "cleanup")
  /\ UNCHANGED <<at, plan, listing, recorded, out, tmp>>

-----------------------------------------------------------------------------
(* except Exception: shutil.rmtree(tmp_dir, ignore_errors=True); raise *)

Cleanup(r) ==
  /\ pc[r] = "cleanup"
  /\ listing' = [listing EXCEPT ![r] = Present(tmp)]
  /\ Goto(r, "sweep")
  /\ UNCHANGED <<at, plan, recorded, out, tmp>>

EndSweep(r) ==
  /\ pc[r] = "sweep"
  /\ listing[r] = {}
  /\ tmp' = IF Present(tmp) = {} THEN Gone ELSE tmp
  /\ Goto(r, "failed")
  /\ Forget(r)
  /\ UNCHANGED out

-----------------------------------------------------------------------------
\* os.replace(tmp_dir, output_dir): rename(2) of a directory takes the place
\* of nothing or of an empty directory, and fails otherwise.
Publish(r) ==
  /\ pc[r] = "publish"
  /\ IF tmp.made /\ (out.made => Present(out) = {})
       THEN out' = tmp /\ tmp' = Gone /\ Goto(r, "published")
       ELSE Goto(r, "raised") /\ UNCHANGED <<out, tmp>>
  /\ UNCHANGED <<at, plan, listing, recorded>>

\* The process is killed.  SHA256SUMS is not written atomically: it may be
\* left there without a line.
Crash(r) ==
  /\ pc[r] \in Live
  /\ Goto(r, "crashed")
  /\ \/ UNCHANGED tmp
     \/ /\ pc[r] = "sums" /\ tmp.made
        /\ tmp' = Record(Put(tmp, Final(Sums), r), Nothing)
  /\ Forget(r)
  /\ UNCHANGED out

AllQuiet == \A q \in Run : pc[q] \notin Live

\* "delete or move the root to re-run": the operator, between invocations.
MoveRoot ==
  /\ AllQuiet
  /\ out.made
  /\ out' = Gone /\ tmp' = Gone
  /\ UNCHANGED <<pc, at, plan, listing, recorded>>

-----------------------------------------------------------------------------
\* What an invocation does next when nothing goes wrong outside it.
Step(r) ==
  \/ RefuseExisting(r) \/ Drive(r)
  \/ ListTmp(r) \/ Unlink(r) \/ RemoveTmp(r) \/ MakeTmp(r)
  \/ WriteScratch(r) \/ Rename(r) \/ SkipFile(r) \/ HashTree(r) \/ WriteSums(r)
  \/ Cleanup(r) \/ EndSweep(r) \/ Publish(r)

Next ==
  \/ \E r \in Run : Start(r) \/ Step(r) \/ WriteError(r) \/ Crash(r)
  \/ MoveRoot

SerialNext ==
  \/ \E r \in Run : AllQuiet /\ Start(r)
  \/ \E r \in Run : Step(r) \/ WriteError(r) \/ Crash(r)
  \/ MoveRoot

Spec == Init /\ [][Next]_vars

SerialSpec == Init /\ [][SerialNext]_vars

\* The operating system keeps running the live process unless it is killed.
Fairness == WF_vars(\E r \in Run : Step(r))

FairSerialSpec == SerialSpec /\ Fairness

-----------------------------------------------------------------------------
(* Properties *)

TypeOK ==
  /\ pc \in [Run -> {"new"} \cup Live \cup Ended]
  /\ at \in [Run -> 1..(Len(WriteOrder) + 1)]
  /\ plan \in [Run -> Plan \cup {NoPlan}]
  /\ listing \in [Run -> SUBSET Name]
  /\ recorded \in [Run -> [Name -> Content]]
  /\ out \in Directory
  /\ tmp \in Directory

\* The files of run r's complete package, all written by r.
PackageOf(r) ==
  [n \in Name |-> IF n \in {Final(f) : f \in plan[r].files \cup {Sums}} THEN r ELSE NoFile]

Complete(d, r) == d.files = PackageOf(r) /\ d.sums = TreeHashes(d)

\* Whatever stands at the output path is the complete package of one run
\* that finished: no file of a killed or failed run, no scratch file, nothing
\* missing, and a SHA256SUMS of exactly these files (run() step 14,
\* "atomically publish output directory").
AtomicPublish ==
  out.made => \E r \in Run : pc[r] = "published" /\ Complete(out, r)

\* Only os.replace can raise at the end, and mkdir or rmtree before it: when
\* invocations do not overlap, what a killed one left behind never makes a
\* later one fail.
LeftoversNeverBlock == \A r \in Run : pc[r] # "raised"

\* The evidence gate tells a failed run's package from a successful one: a
\* published package passes audit_artifact_dir only if its driver returned
\* and delivered raw rows.
AuditSeparatesFailures ==
  \A r \in Run :
    out.made /\ AuditPasses(out) /\ out.files[Final("run_manifest.json")] = r =>
      plan[r].exit = "ok" /\ RawRows \in plan[r].files

\* No step of any invocation changes a package that is there; only the
\* operator takes it away.
NoOverwrite ==
  [][Present(out) # {} => UNCHANGED out \/ MoveRoot]_vars

(***************************************************************************)
(* The reader's view of the output path.  SHA256SUMS does not list itself. *)
(***************************************************************************)
View(d) ==
  [by |-> {d.files[n] : n \in Present(d)},
   files |-> {n[1] : n \in Present(d)} \ {Sums},
   listed |-> {n[1] : n \in {m \in Name : d.sums[m] # NoFile /\ d.sums[m] = d.files[m]}}]

Shelf == IF out.made THEN {View(out)} ELSE {}
Delivered == {r \in Run : pc[r] = "published"}

Reader == INSTANCE Publication WITH
            PackageKind <- {p.files : p \in Plan},
            shelf <- Shelf,
            delivered <- Delivered

\* Invocations that do not overlap implement Publication, through every
\* crash, failed write and retry.
DeliversWholePackages == Reader!Spec

\* A run whose driver came back, by returning or by raising, publishes a
\* package unless it is killed or cannot write one ("still produce an
\* evidence package").
DrivenRunPublishes ==
  \A r \in Run :
    pc[r] = "clear" ~> pc[r] \in {"published", "failed", "crashed"}
=============================================================================
