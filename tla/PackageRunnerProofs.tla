------------------------- MODULE PackageRunnerProofs -------------------------
(***************************************************************************)
(* Proofs about PackageRunner, for every number of invocations.            *)
(***************************************************************************)
EXTENDS PackageRunner, TLAPS

(***************************************************************************)
(* The inductive invariant of SerialSpec.  While run r writes, <output>.tmp*)
(* holds exactly the files r has written so far; while it removes what an  *)
(* earlier run left, its listing is exactly what is still there.           *)
(***************************************************************************)
BeforeWriting == {"new", "check", "drive", "clear", "unlink", "mkdir"}
PastCheck == Live \ {"check"}

\* What r has written under a final name when its position is k.
Written(r, k) ==
  {Final(WriteOrder[i]) : i \in {j \in 1..(k - 1) : WriteOrder[j] \in plan[r].files}}

Holds(d, r, S) == d.files = [n \in Name |-> IF n \in S THEN r ELSE NoFile]

OneLive == \A q, r \in Run : pc[q] \in Live /\ pc[r] \in Live => q = r

Progress(r) ==
  /\ pc[r] \in BeforeWriting => at[r] = 1
  /\ pc[r] \in {"clear", "unlink", "mkdir", "write", "rename", "sums", "publish", "published"}
       => plan[r] \in Plan
  /\ pc[r] \in PastCheck => ~out.made
  /\ pc[r] = "unlink" => tmp.made /\ listing[r] = Present(tmp)
  /\ pc[r] = "mkdir" => ~tmp.made
  /\ pc[r] \in {"write", "rename", "sums"} => tmp.made
  /\ pc[r] = "write" => Holds(tmp, r, Written(r, at[r]))
  /\ pc[r] = "rename" =>
       /\ at[r] <= Len(WriteOrder)
       /\ WriteOrder[at[r]] \in plan[r].files
       /\ Holds(tmp, r, Written(r, at[r]) \cup {Scratch(WriteOrder[at[r]])})
  /\ pc[r] = "sums" =>
       /\ Holds(tmp, r, {Final(f) : f \in plan[r].files})
       /\ recorded[r] = TreeHashes(tmp)
  /\ pc[r] = "publish" => tmp.made /\ Complete(tmp, r)
  /\ pc[r] # "raised"

IInv ==
  /\ TypeOK
  /\ OneLive
  /\ \A r \in Run : Progress(r)
  /\ out.made \/ out = Gone
  /\ AtomicPublish

-----------------------------------------------------------------------------
(* The write order, opened once. *)

LEMMA WriteOrderFacts ==
  /\ Len(WriteOrder) = 8
  /\ \A i \in 1..Len(WriteOrder) : WriteOrder[i] \in File \ {Sums}
  /\ {WriteOrder[i] : i \in 1..Len(WriteOrder)} = Always \cup {RawRows, Selection}
BY DEF WriteOrder, File, Always, RawRows, Selection, Sums

LEMMA PlanFacts ==
  /\ Plan \cup {NoPlan} \subseteq [exit : {"driver_failed", "invalid", "ok", "none"}, files : SUBSET (File \ {Sums})]
  /\ \A p \in Plan : p.files \subseteq Always \cup {RawRows, Selection}
  /\ \A p \in Plan : RawRows \in p.files => p.exit = "ok"
BY DEF Plan, NoPlan, File, Always, RawRows, Selection, Sums

LEMMA NameFacts ==
  /\ \A f \in File : Final(f) \in Name /\ Scratch(f) \in Name /\ Final(f) # Scratch(f)
  /\ \A f, g \in File : Final(f) = Final(g) => f = g
  /\ \A f, g \in File : Final(f) # Scratch(g)
  /\ Sums \in File
BY DEF Name, Final, Scratch, File

LEMMA FinalName ==
  ASSUME NEW S
  PROVE  {n[1] : n \in {Final(f) : f \in S}} = S
<1>1. \A f \in S : Final(f)[1] = f
  BY DEF Final
<1> HIDE DEF Final
<1> QED BY <1>1

LEMMA ContentFacts ==
  /\ Run \subseteq Content
  /\ NoFile \in Content
  /\ NoFile \notin Run
BY MaxRunsAssumption DEF Run, Content, NoFile

\* What the updates of a directory leave and change.
LEMMA PutFacts ==
  ASSUME NEW d \in Directory, NEW n \in Name, NEW c \in Content
  PROVE  /\ Put(d, n, c) \in Directory
         /\ Put(d, n, c).made = d.made
         /\ Put(d, n, c).sums = d.sums
         /\ Put(d, n, c).files = [d.files EXCEPT ![n] = c]
BY DEF Put, Directory

LEMMA RecordFacts ==
  ASSUME NEW d \in Directory, NEW s \in [Name -> Content]
  PROVE  /\ Record(d, s) \in Directory
         /\ Record(d, s).made = d.made
         /\ Record(d, s).sums = s
         /\ Record(d, s).files = d.files
BY DEF Record, Directory

LEMMA MakeFacts ==
  ASSUME NEW d \in Directory
  PROVE  /\ Make(d) \in Directory
         /\ Make(d).made = TRUE
         /\ Make(d).sums = d.sums
         /\ Make(d).files = d.files
BY DEF Make, Directory

LEMMA GoneFacts ==
  /\ Gone \in Directory /\ ~Gone.made /\ Gone.files = Nothing /\ Gone.sums = Nothing
  /\ Fresh \in Directory /\ Fresh.made /\ Fresh.files = Nothing /\ Fresh.sums = Nothing
  /\ Nothing \in [Name -> Content]
  /\ Present(Gone) = {}
BY ContentFacts DEF Gone, Fresh, Directory, Nothing, Present

-----------------------------------------------------------------------------
(* Type correctness, for overlapping invocations too. *)

\* A rename follows a write, so its position is one of the order's.
RenameInRange == \A r \in Run : pc[r] = "rename" => at[r] <= Len(WriteOrder)

TypeInv == TypeOK /\ RenameInRange

LEMMA TypeStart ==
  ASSUME TypeOK, NEW r \in Run, Start(r) \/ RefuseExisting(r) \/ Drive(r) \/ WriteError(r)
  PROVE  TypeOK'
<1>1. CASE Start(r)
  BY <1>1 DEF TypeOK, Start, Goto, Live, Ended
<1>2. CASE RefuseExisting(r)
  BY <1>2 DEF TypeOK, RefuseExisting, Goto, Live, Ended
<1>3. CASE Drive(r)
  BY <1>3 DEF TypeOK, Drive, Goto, Live, Ended
<1>4. CASE WriteError(r)
  BY <1>4 DEF TypeOK, WriteError, Goto, Live, Ended
<1> QED BY <1>1, <1>2, <1>3, <1>4

LEMMA TypeTmp ==
  ASSUME TypeOK, NEW r \in Run, ListTmp(r) \/ Unlink(r) \/ RemoveTmp(r) \/ MakeTmp(r)
  PROVE  TypeOK'
<1>1. CASE ListTmp(r)
  BY <1>1 DEF TypeOK, ListTmp, Goto, Live, Ended, Present
<1>2. CASE Unlink(r)
  <2> DEFINE n == NextEntry(listing[r])
  <2>1. n \in listing[r] /\ n \in Name
    BY <1>2 DEF Unlink, NextEntry, TypeOK
  <2>2. tmp' \in Directory
    <3>1. Put(tmp, n, NoFile) \in Directory /\ tmp.sums \in [Name -> Content]
      BY <2>1, ContentFacts, PutFacts DEF TypeOK, Directory
    <3> QED BY <1>2, <3>1, RecordFacts, GoneFacts DEF Unlink
  <2>3. pc' \in [Run -> {"new"} \cup Live \cup Ended]
    BY <1>2 DEF Unlink, TypeOK, Goto, Ended
  <2>4. listing' \in [Run -> SUBSET Name]
    BY <1>2 DEF Unlink, TypeOK
  <2> QED BY <1>2, <2>2, <2>3, <2>4 DEF TypeOK, Unlink
<1>3. CASE RemoveTmp(r)
  BY <1>3, GoneFacts DEF TypeOK, RemoveTmp, Goto, Live, Ended
<1>4. CASE MakeTmp(r)
  BY <1>4, GoneFacts DEF TypeOK, MakeTmp, Goto, Live, Ended
<1> QED BY <1>1, <1>2, <1>3, <1>4

LEMMA TypeWrite ==
  ASSUME TypeInv, NEW r \in Run, WriteScratch(r) \/ Rename(r) \/ SkipFile(r)
  PROVE  TypeOK'
<1> DEFINE f == WriteOrder[at[r]]
<1> USE DEF TypeInv
<1>1. CASE WriteScratch(r)
  <2>1. f \in File
    BY <1>1, WriteOrderFacts DEF WriteScratch, TypeOK
  <2>2. Scratch(f) \in Name /\ r \in Content
    BY <2>1, NameFacts, ContentFacts
  <2>3. tmp' \in Directory
    BY <1>1, <2>2, MakeFacts, PutFacts DEF WriteScratch, TypeOK
  <2> QED BY <1>1, <2>3 DEF TypeOK, WriteScratch, Goto, Live
<1>2. CASE Rename(r)
  <2>1. CASE tmp.files[Scratch(f)] = NoFile
    BY <1>2, <2>1 DEF TypeOK, Rename, Goto, Live
  <2>2. CASE tmp.files[Scratch(f)] # NoFile
    <3>1. /\ tmp' = Put(Put(tmp, Final(f), tmp.files[Scratch(f)]), Scratch(f), NoFile)
          /\ at' = [at EXCEPT ![r] = @ + 1]
          /\ pc' = [pc EXCEPT ![r] = "write"]
          /\ UNCHANGED <<plan, listing, recorded, out>>
      BY <1>2, <2>2 DEF Rename, Goto
    <3>2. tmp' \in Directory
      <4>1. f \in File
        BY <1>2, WriteOrderFacts DEF Rename, TypeInv, RenameInRange, TypeOK
      <4>2. Final(f) \in Name /\ Scratch(f) \in Name /\ NoFile \in Content
        BY <4>1, NameFacts, ContentFacts
      <4>3. tmp.files[Scratch(f)] \in Content
        BY <4>2 DEF TypeOK, Directory
      <4> QED BY <3>1, <4>2, <4>3, PutFacts DEF TypeOK
    <3>3. at[r] + 1 \in 1..(Len(WriteOrder) + 1)
      BY <1>2, WriteOrderFacts DEF Rename, TypeInv, RenameInRange, TypeOK
    <3> QED BY <3>1, <3>2, <3>3 DEF TypeOK, Live
  <2> QED BY <2>1, <2>2
<1>3. CASE SkipFile(r)
  BY <1>3, WriteOrderFacts DEF TypeOK, SkipFile
<1> QED BY <1>1, <1>2, <1>3

LEMMA TypeFinish ==
  ASSUME TypeOK, NEW r \in Run,
         HashTree(r) \/ WriteSums(r) \/ Cleanup(r) \/ EndSweep(r) \/ Publish(r)
  PROVE  TypeOK'
<1>1. CASE HashTree(r)
  <2>1. TreeHashes(tmp) \in [Name -> Content]
    BY NameFacts, ContentFacts DEF TypeOK, Directory, TreeHashes
  <2> QED BY <1>1, <2>1 DEF TypeOK, HashTree, Goto, Live
<1>2. CASE WriteSums(r)
  <2>1. Final(Sums) \in Name /\ r \in Content
    BY NameFacts, ContentFacts
  <2>2. recorded[r] \in [Name -> Content] /\ Put(tmp, Final(Sums), r) \in Directory
    BY <2>1, PutFacts DEF TypeOK
  <2>3. tmp' \in Directory
    BY <1>2, <2>2, RecordFacts DEF WriteSums, TypeOK
  <2> QED BY <1>2, <2>3 DEF TypeOK, WriteSums, Goto, Live
<1>3. CASE Cleanup(r)
  BY <1>3 DEF TypeOK, Cleanup, Goto, Live, Present
<1>4. CASE EndSweep(r)
  BY <1>4, GoneFacts, WriteOrderFacts DEF TypeOK, EndSweep, Goto, Forget, Ended
<1>5. CASE Publish(r)
  BY <1>5, GoneFacts DEF TypeOK, Publish, Goto, Ended
<1> QED BY <1>1, <1>2, <1>3, <1>4, <1>5

LEMMA TypeCrash ==
  ASSUME TypeOK, NEW r \in Run, Crash(r)
  PROVE  TypeOK'
<1>1. tmp' \in Directory
  <2>1. Final(Sums) \in Name /\ r \in Content /\ Nothing \in [Name -> Content]
    BY NameFacts, ContentFacts, GoneFacts
  <2>2. Put(tmp, Final(Sums), r) \in Directory
    BY <2>1, PutFacts DEF TypeOK
  <2> QED BY <2>1, <2>2, RecordFacts DEF Crash, TypeOK
<1> QED BY <1>1, GoneFacts, WriteOrderFacts DEF TypeOK, Crash, Goto, Forget, Ended

LEMMA TypeNext == TypeInv /\ [Next]_vars => TypeInv'
<1> SUFFICES ASSUME TypeInv, [Next]_vars PROVE TypeInv'
  OBVIOUS
<1>1. TypeOK'
  <2> USE DEF TypeInv
  <2>1. ASSUME NEW r \in Run, Step(r) PROVE TypeOK'
    BY <2>1, TypeStart, TypeTmp, TypeWrite, TypeFinish DEF Step
  <2>2. ASSUME NEW r \in Run, Start(r) \/ WriteError(r) PROVE TypeOK'
    BY <2>2, TypeStart
  <2>3. ASSUME NEW r \in Run, Crash(r) PROVE TypeOK'
    BY <2>3, TypeCrash
  <2>4. CASE MoveRoot
    BY <2>4, GoneFacts DEF MoveRoot, TypeOK
  <2>5. CASE UNCHANGED vars
    BY <2>5 DEF vars, TypeOK
  <2> QED BY <2>1, <2>2, <2>3, <2>4, <2>5 DEF Next
<1>2. RenameInRange'
  <2> USE DEF TypeInv, TypeOK, RenameInRange, Goto
  <2>1. ASSUME NEW r \in Run, WriteScratch(r) PROVE RenameInRange'
    BY <2>1 DEF WriteScratch
  <2>2. ASSUME NEW r \in Run, Rename(r) \/ SkipFile(r) PROVE RenameInRange'
    BY <2>2 DEF Rename, SkipFile
  <2>3. ASSUME NEW r \in Run, Crash(r) \/ EndSweep(r) PROVE RenameInRange'
    BY <2>3 DEF Crash, EndSweep, Forget
  <2>4. ASSUME NEW r \in Run,
               \/ Start(r) \/ RefuseExisting(r) \/ Drive(r)
               \/ ListTmp(r) \/ Unlink(r) \/ RemoveTmp(r) \/ MakeTmp(r)
        PROVE  RenameInRange'
    BY <2>4 DEF Start, RefuseExisting, Drive, ListTmp, Unlink, RemoveTmp, MakeTmp
  <2>5. ASSUME NEW r \in Run,
               \/ HashTree(r) \/ WriteSums(r) \/ WriteError(r) \/ Cleanup(r) \/ Publish(r)
        PROVE  RenameInRange'
    BY <2>5 DEF HashTree, WriteSums, WriteError, Cleanup, Publish
  <2>6. CASE MoveRoot
    BY <2>6 DEF MoveRoot
  <2>7. CASE UNCHANGED vars
    BY <2>7 DEF vars
  <2> QED BY <2>1, <2>2, <2>3, <2>4, <2>5, <2>6, <2>7 DEF Next, Step
<1> QED BY <1>1, <1>2 DEF TypeInv

LEMMA TypeInit == Init => TypeInv
BY GoneFacts, WriteOrderFacts DEF Init, TypeOK, TypeInv, RenameInRange

\* Every variable keeps its type, however the invocations overlap.
THEOREM TypeCorrect == Spec => []TypeOK
<1>1. TypeInv => TypeOK
  BY DEF TypeInv
<1> QED BY <1>1, TypeInit, TypeNext, PTL DEF Spec

-----------------------------------------------------------------------------
(* Nothing ever replaces a package: overlapping invocations included. *)

GoneIsGone == out.made \/ out = Gone

LEMMA OutputStep ==
  ASSUME GoneIsGone, [Next]_vars
  PROVE  /\ GoneIsGone'
         /\ Present(out) # {} => UNCHANGED out \/ MoveRoot
<1>1. ASSUME NEW r \in Run, Publish(r)
      PROVE  GoneIsGone' /\ (Present(out) # {} => UNCHANGED out)
  BY <1>1, GoneFacts DEF Publish, GoneIsGone
<1>2. ASSUME NEW r \in Run, Start(r) \/ (Step(r) /\ ~Publish(r)) \/ WriteError(r) \/ Crash(r)
      PROVE  UNCHANGED out
  BY <1>2 DEF Start, Step, WriteError, Crash, RefuseExisting, Drive, ListTmp, Unlink,
              RemoveTmp, MakeTmp, WriteScratch, Rename, SkipFile, HashTree, WriteSums,
              Cleanup, EndSweep
<1>3. CASE MoveRoot
  BY <1>3 DEF MoveRoot, GoneIsGone
<1>4. CASE UNCHANGED vars
  BY <1>4 DEF vars, GoneIsGone
<1>5. UNCHANGED out => GoneIsGone'
  BY DEF GoneIsGone
<1> QED BY <1>1, <1>2, <1>3, <1>4, <1>5 DEF Next

\* No invocation changes a package that stands at the output path, however
\* the invocations overlap: os.replace refuses a directory with files in it.
THEOREM NeverOverwritten == Spec => NoOverwrite
<1>1. Init => GoneIsGone
  BY DEF Init, GoneIsGone
<1>2. GoneIsGone /\ [Next]_vars => GoneIsGone'
  BY OutputStep
<1>3. GoneIsGone /\ [Next]_vars => [Present(out) # {} => UNCHANGED out \/ MoveRoot]_vars
  BY OutputStep
<1> QED BY <1>1, <1>2, <1>3, PTL DEF Spec, NoOverwrite

-----------------------------------------------------------------------------
(* The invariant of invocations that do not overlap. *)

LEMMA SerialIsNext == [SerialNext]_vars => [Next]_vars
BY DEF SerialNext, Next

LEMMA SerialInit == Init => IInv
BY TypeInit, GoneFacts
   DEF Init, IInv, TypeInv, OneLive, Progress, AtomicPublish, Live, PastCheck, BeforeWriting

\* What Written gains as the position moves, and what it is at the end.
LEMMA WrittenStep ==
  ASSUME NEW r \in Run, NEW k \in 1..Len(WriteOrder)
  PROVE  Written(r, k + 1) =
           IF WriteOrder[k] \in plan[r].files
             THEN Written(r, k) \cup {Final(WriteOrder[k])} ELSE Written(r, k)
BY WriteOrderFacts DEF Written

LEMMA WrittenFirst == \A r \in Run : Written(r, 1) = {}
BY DEF Written

LEMMA WrittenAll ==
  ASSUME NEW r \in Run, plan[r] \in Plan
  PROVE  Written(r, Len(WriteOrder) + 1) = {Final(f) : f \in plan[r].files}
BY WriteOrderFacts, PlanFacts DEF Written

\* A run that is not live is not disturbed by the steps of another.
LEMMA OthersKeepProgress ==
  ASSUME IInv, NEW r \in Run, NEW q \in Run, q # r, pc[r] \in Live,
         pc'[q] = pc[q], at'[q] = at[q], plan'[q] = plan[q]
  PROVE  Progress(q)'
<1>1. pc[q] \notin Live
  BY DEF IInv, OneLive
<1>2. pc[q] \in {"new"} \cup (Ended \ {"raised"})
  BY <1>1 DEF IInv, TypeOK, Progress
<1> QED BY <1>2 DEF IInv, Progress, Live, Ended, PastCheck, BeforeWriting

LEMMA PublishedStays ==
  ASSUME AtomicPublish, NEW r \in Run, pc[r] # "published", UNCHANGED out,
         \A q \in Run \ {r} : pc'[q] = pc[q] /\ plan'[q] = plan[q]
  PROVE  AtomicPublish'
<1>1. CASE ~out.made
  BY <1>1 DEF AtomicPublish
<1>2. CASE out.made
  <2>1. PICK s \in Run : pc[s] = "published" /\ Complete(out, s)
    BY <1>2 DEF AtomicPublish
  <2>2. s # r /\ pc'[s] = "published" /\ plan'[s] = plan[s]
    BY <2>1
  <2>3. PackageOf(s)' = PackageOf(s)
    BY <2>2 DEF PackageOf
  <2>4. Complete(out, s)'
    BY <2>1, <2>3 DEF Complete
  <2> QED BY <2>2, <2>4 DEF AtomicPublish
<1> QED BY <1>1, <1>2

\* A step of the live run r that leaves the output path alone.
LEMMA LiveStep ==
  ASSUME IInv, TypeOK', NEW r \in Run, pc[r] \in Live, UNCHANGED out, Progress(r)',
         \A q \in Run \ {r} : pc'[q] = pc[q] /\ at'[q] = at[q] /\ plan'[q] = plan[q]
  PROVE  IInv'
<1>1. \A q \in Run : Progress(q)'
  BY OthersKeepProgress
<1>2. OneLive'
  BY DEF IInv, OneLive
<1>3. AtomicPublish'
  BY PublishedStays DEF IInv, Live
<1> QED BY <1>1, <1>2, <1>3 DEF IInv

LEMMA SerialStart ==
  ASSUME IInv, TypeOK', NEW r \in Run, AllQuiet, Start(r)
  PROVE  IInv'
<1>1. \A q \in Run \ {r} : pc'[q] = pc[q] /\ at'[q] = at[q] /\ plan'[q] = plan[q]
  BY DEF Start, Goto, IInv, TypeOK
<1>2. pc[r] = "new" /\ pc'[r] \in {"check", "rejected"} /\ UNCHANGED <<at, out>>
  BY DEF Start, Goto, IInv, TypeOK
<1>3. Progress(r)'
  BY <1>2 DEF Progress, IInv, Live, PastCheck, BeforeWriting
<1>4. ASSUME NEW q \in Run, q # r PROVE Progress(q)'
  <2>1. pc[q] \notin Live
    BY DEF AllQuiet
  <2>2. pc[q] \in {"new"} \cup (Ended \ {"raised"})
    BY <2>1 DEF IInv, TypeOK, Progress
  <2> QED BY <1>1, <2>2, <1>4 DEF IInv, Progress, Live, Ended, PastCheck, BeforeWriting
<1>5. OneLive'
  BY <1>1 DEF AllQuiet, OneLive
<1>6. AtomicPublish'
  BY <1>1, <1>2, PublishedStays DEF IInv
<1> QED BY <1>2, <1>3, <1>4, <1>5, <1>6 DEF IInv

\* The other runs' part of a step of r.
OthersAlone(r) ==
  \A q \in Run \ {r} : pc'[q] = pc[q] /\ at'[q] = at[q] /\ plan'[q] = plan[q]

LEMMA SerialBefore ==
  ASSUME IInv, TypeOK', NEW r \in Run,
         RefuseExisting(r) \/ Drive(r) \/ ListTmp(r) \/ WriteError(r) \/ Cleanup(r)
  PROVE  IInv'
<1> USE DEF Progress, Live, PastCheck, BeforeWriting
<1>1. IInv /\ TypeOK /\ Progress(r)
  BY DEF IInv
<1>2. OthersAlone(r) /\ pc[r] \in Live /\ UNCHANGED out
  BY <1>1 DEF OthersAlone, RefuseExisting, Drive, ListTmp, WriteError, Cleanup, Goto, TypeOK
<1>3. Progress(r)'
  <2>1. CASE RefuseExisting(r)
    BY <1>1, <2>1 DEF RefuseExisting, Goto, TypeOK
  <2>2. CASE Drive(r)
    BY <1>1, <2>2 DEF Drive, Goto, TypeOK
  <2>3. CASE ListTmp(r)
    BY <1>1, <2>3 DEF ListTmp, Goto, TypeOK
  <2>4. CASE WriteError(r)
    BY <1>1, <2>4 DEF WriteError, Goto, TypeOK
  <2>5. CASE Cleanup(r)
    BY <1>1, <2>5 DEF Cleanup, Goto, TypeOK
  <2> QED BY <2>1, <2>2, <2>3, <2>4, <2>5
<1> QED BY <1>2, <1>3, LiveStep DEF OthersAlone

LEMMA SerialTmp ==
  ASSUME IInv, TypeOK', NEW r \in Run, Unlink(r) \/ RemoveTmp(r) \/ MakeTmp(r)
  PROVE  IInv'
<1> USE DEF Live, PastCheck, BeforeWriting
<1>1. IInv /\ TypeOK /\ Progress(r)
  BY DEF IInv
<1>2. OthersAlone(r) /\ pc[r] \in Live /\ UNCHANGED out
  BY <1>1 DEF OthersAlone, Unlink, RemoveTmp, MakeTmp, Goto, TypeOK
<1>3. Progress(r)'
  <2>1. CASE Unlink(r)
    <3> DEFINE n == NextEntry(listing[r])
    <3>1. n \in listing[r] /\ n \in Name
      BY <1>1, <2>1 DEF Unlink, NextEntry, TypeOK
    <3>2. /\ Put(tmp, n, NoFile) \in Directory
          /\ Put(tmp, n, NoFile).made = tmp.made
          /\ Put(tmp, n, NoFile).files = [tmp.files EXCEPT ![n] = NoFile]
      BY <1>1, <3>1, ContentFacts, PutFacts DEF TypeOK
    <3>3. /\ tmp'.made = tmp.made
          /\ tmp'.files = [tmp.files EXCEPT ![n] = NoFile]
      <4>1. tmp.sums \in [Name -> Content]
        BY <1>1 DEF TypeOK, Directory
      <4> QED BY <2>1, <3>2, <4>1, RecordFacts, GoneFacts DEF Unlink
    <3>4. Present(tmp)' = Present(tmp) \ {n}
      BY <1>1, <3>1, <3>3, ContentFacts DEF Present, TypeOK, Directory
    <3>5. CASE pc[r] = "unlink"
      <4>1. pc'[r] = "unlink" /\ listing'[r] = listing[r] \ {n}
        BY <1>1, <2>1, <3>1, <3>5 DEF Unlink, Progress, TypeOK
      <4> QED BY <1>1, <2>1, <3>3, <3>4, <3>5, <4>1 DEF Unlink, Progress
    <3>6. CASE pc[r] = "sweep"
      <4>1. pc'[r] = "sweep"
        BY <2>1, <3>6 DEF Unlink
      <4> QED BY <1>1, <2>1, <3>6, <4>1 DEF Unlink, Progress
    <3> QED BY <2>1, <3>5, <3>6 DEF Unlink
  <2>2. CASE RemoveTmp(r)
    <3>1. tmp' = Gone /\ pc'[r] = "mkdir" /\ UNCHANGED <<at, plan, out>>
      BY <1>1, <2>2 DEF RemoveTmp, Goto, Progress, TypeOK
    <3> QED BY <1>1, <2>2, <3>1, GoneFacts DEF RemoveTmp, Progress
  <2>3. CASE MakeTmp(r)
    <3>1. tmp' = Fresh /\ pc'[r] = "write" /\ UNCHANGED <<at, plan, out>> /\ at[r] = 1
      BY <1>1, <2>3 DEF MakeTmp, Goto, Progress, TypeOK
    <3>2. Holds(tmp, r, Written(r, at[r]))'
      BY <3>1, GoneFacts, WrittenFirst DEF Holds, Nothing, Written
    <3> QED BY <1>1, <2>3, <3>1, <3>2, GoneFacts DEF MakeTmp, Progress
  <2> QED BY <2>1, <2>2, <2>3
<1> QED BY <1>2, <1>3, LiveStep DEF OthersAlone

\* The files of a directory that holds S gain one entry.
LEMMA HoldsPut ==
  ASSUME NEW d \in Directory, NEW r \in Run, NEW S, NEW n \in Name, Holds(d, r, S)
  PROVE  Holds(Put(d, n, r), r, S \cup {n})
<1>1. Put(d, n, r).files = [d.files EXCEPT ![n] = r]
  BY PutFacts, ContentFacts
<1>2. d.files = [m \in Name |-> IF m \in S THEN r ELSE NoFile]
  BY DEF Holds
<1> QED BY <1>1, <1>2 DEF Holds

\* ... and lose one.
LEMMA HoldsTake ==
  ASSUME NEW d \in Directory, NEW r \in Run, NEW S, NEW n \in Name, Holds(d, r, S)
  PROVE  Holds(Put(d, n, NoFile), r, S \ {n})
<1>1. Put(d, n, NoFile).files = [d.files EXCEPT ![n] = NoFile]
  BY PutFacts, ContentFacts
<1>2. d.files = [m \in Name |-> IF m \in S THEN r ELSE NoFile]
  BY DEF Holds
<1> QED BY <1>1, <1>2 DEF Holds

LEMMA SerialWrite ==
  ASSUME IInv, TypeOK', NEW r \in Run, WriteScratch(r) \/ Rename(r) \/ SkipFile(r)
  PROVE  IInv'
<1> USE DEF Live, PastCheck, BeforeWriting
<1> DEFINE f == WriteOrder[at[r]]
<1>1. IInv /\ TypeOK /\ Progress(r) /\ tmp \in Directory
  BY DEF IInv, TypeOK
<1>2. OthersAlone(r) /\ pc[r] \in Live /\ UNCHANGED <<out, plan>>
  BY <1>1 DEF OthersAlone, WriteScratch, Rename, SkipFile, Goto, TypeOK
<1>3. at[r] \in 1..Len(WriteOrder) /\ f \in File
  BY <1>1, WriteOrderFacts DEF TypeOK, Progress, WriteScratch, Rename, SkipFile
<1>4. Final(f) \in Name /\ Scratch(f) \in Name /\ r \in Content
  BY <1>3, NameFacts, ContentFacts
<1>5. Scratch(f) \notin Written(r, at[r])
  BY <1>3, WriteOrderFacts, NameFacts DEF Written
<1>6. Progress(r)'
  <2>1. CASE WriteScratch(r)
    <3>1. tmp' = Put(Make(tmp), Scratch(f), r) /\ pc'[r] = "rename" /\ UNCHANGED at
      BY <1>1, <2>1 DEF WriteScratch, Goto, TypeOK
    <3>2. Make(tmp) \in Directory /\ Make(tmp).made /\ Holds(Make(tmp), r, Written(r, at[r]))
      BY <1>1, <2>1, MakeFacts DEF WriteScratch, Progress, Holds
    <3>3. Holds(tmp', r, Written(r, at[r]) \cup {Scratch(f)})
      BY <1>4, <3>1, <3>2, HoldsPut
    <3>4. tmp'.made
      BY <1>4, <3>1, <3>2, PutFacts
    <3>5. Holds(tmp, r, Written(r, at[r]) \cup {Scratch(f)})'
      BY <1>2, <3>1, <3>3 DEF Holds, Written
    <3> QED BY <1>1, <1>2, <1>3, <2>1, <3>1, <3>4, <3>5 DEF WriteScratch, Progress
  <2>2. CASE Rename(r)
    <3>1. pc[r] = "rename" /\ f \in plan[r].files
      BY <1>1, <2>2 DEF Rename, Progress
    <3>2. Holds(tmp, r, Written(r, at[r]) \cup {Scratch(f)}) /\ tmp.made
      BY <1>1, <3>1 DEF Progress
    <3>3. tmp.files[Scratch(f)] = r /\ r # NoFile
      BY <1>4, <3>2, ContentFacts DEF Holds
    <3> DEFINE d1 == Put(tmp, Final(f), r)
    <3>4. /\ tmp' = Put(d1, Scratch(f), NoFile)
          /\ pc'[r] = "write"
          /\ at'[r] = at[r] + 1
      BY <1>1, <2>2, <3>3 DEF Rename, Goto, TypeOK
    <3>5. d1 \in Directory /\ d1.made
      BY <1>1, <1>4, <3>2, PutFacts
    <3>6. Holds(d1, r, (Written(r, at[r]) \cup {Scratch(f)}) \cup {Final(f)})
      BY <1>1, <1>4, <3>2, HoldsPut
    <3>7. Holds(tmp', r, ((Written(r, at[r]) \cup {Scratch(f)}) \cup {Final(f)}) \ {Scratch(f)})
      BY <1>4, <3>4, <3>5, <3>6, HoldsTake
    <3>8. ((Written(r, at[r]) \cup {Scratch(f)}) \cup {Final(f)}) \ {Scratch(f)}
            = Written(r, at[r] + 1)
      BY <1>3, <1>5, <3>1, WrittenStep, NameFacts
    <3>9. Holds(tmp, r, Written(r, at[r]))'
      BY <1>2, <3>4, <3>7, <3>8 DEF Holds, Written
    <3>10. tmp'.made
      BY <1>4, <3>4, <3>5, PutFacts, ContentFacts
    <3> QED BY <1>1, <1>2, <3>1, <3>4, <3>9, <3>10 DEF Progress
  <2>3. CASE SkipFile(r)
    <3>1. pc'[r] = "write" /\ pc[r] = "write" /\ at'[r] = at[r] + 1 /\ UNCHANGED tmp
      BY <1>1, <2>3 DEF SkipFile, TypeOK
    <3>2. Written(r, at[r] + 1) = Written(r, at[r])
      BY <1>3, <2>3, WrittenStep DEF SkipFile
    <3>3. Holds(tmp, r, Written(r, at[r]))'
      BY <1>1, <1>2, <3>1, <3>2 DEF Holds, Written, Progress
    <3> QED BY <1>1, <1>2, <3>1, <3>3 DEF Progress
  <2> QED BY <2>1, <2>2, <2>3
<1> QED BY <1>2, <1>6, LiveStep DEF OthersAlone

LEMMA SerialSums ==
  ASSUME IInv, TypeOK', NEW r \in Run, HashTree(r) \/ WriteSums(r)
  PROVE  IInv'
<1> USE DEF Live, PastCheck, BeforeWriting
<1>1. IInv /\ TypeOK /\ Progress(r) /\ tmp \in Directory
  BY DEF IInv, TypeOK
<1>2. OthersAlone(r) /\ pc[r] \in Live /\ UNCHANGED <<out, plan, at>>
  BY <1>1 DEF OthersAlone, HashTree, WriteSums, Goto, TypeOK
<1>3. Final(Sums) \in Name /\ Sums \in File /\ r \in Content /\ r # NoFile
  BY NameFacts, ContentFacts
<1>4. plan[r] \in Plan
  BY <1>1 DEF Progress, HashTree, WriteSums
<1>5. Progress(r)'
  <2>1. CASE HashTree(r)
    <3>1. pc[r] = "write" /\ at[r] = Len(WriteOrder) + 1
      BY <1>1, <2>1, WriteOrderFacts DEF HashTree, TypeOK
    <3>2. Holds(tmp, r, {Final(f) : f \in plan[r].files})
      BY <1>1, <1>4, <3>1, WrittenAll DEF Progress
    <3>3. Holds(tmp, r, {Final(f) : f \in plan[r].files})'
      BY <1>2, <2>1, <3>2 DEF Holds, HashTree
    <3>4. pc'[r] = "sums" /\ recorded'[r] = TreeHashes(tmp) /\ UNCHANGED tmp
      BY <1>1, <2>1 DEF HashTree, Goto, TypeOK
    <3>5. recorded'[r] = TreeHashes(tmp)'
      BY <3>4 DEF TreeHashes
    <3> QED BY <1>1, <1>2, <1>4, <3>1, <3>3, <3>4, <3>5 DEF Progress
  <2>2. CASE WriteSums(r)
    <3>1. /\ pc[r] = "sums" /\ tmp.made
          /\ Holds(tmp, r, {Final(f) : f \in plan[r].files})
          /\ recorded[r] = TreeHashes(tmp)
      BY <1>1, <2>2 DEF WriteSums, Progress
    <3> DEFINE d1 == Put(tmp, Final(Sums), r)
    <3>2. tmp' = Record(d1, recorded[r]) /\ pc'[r] = "publish"
      BY <1>1, <2>2, <3>1 DEF WriteSums, Goto, TypeOK
    <3>3. /\ d1 \in Directory /\ d1.made
          /\ d1.files = [tmp.files EXCEPT ![Final(Sums)] = r]
          /\ Holds(d1, r, {Final(f) : f \in plan[r].files} \cup {Final(Sums)})
      BY <1>1, <1>3, <3>1, PutFacts, HoldsPut
    <3>4. recorded[r] \in [Name -> Content]
      BY <1>1 DEF TypeOK
    <3>5. tmp'.made /\ tmp'.files = d1.files /\ tmp'.sums = recorded[r]
      BY <3>2, <3>3, <3>4, RecordFacts
    <3>6. tmp'.files = PackageOf(r)
      <4>1. {Final(f) : f \in plan[r].files} \cup {Final(Sums)}
              = {Final(f) : f \in plan[r].files \cup {Sums}}
        OBVIOUS
      <4> QED BY <3>3, <3>5, <4>1 DEF Holds, PackageOf
    <3>7. TreeHashes(tmp') = TreeHashes(tmp)
      BY <1>1, <1>3, <3>3, <3>5 DEF TreeHashes, Directory
    <3>8. Complete(tmp, r)'
      BY <1>2, <3>1, <3>5, <3>6, <3>7 DEF Complete, PackageOf, TreeHashes
    <3> QED BY <1>1, <1>2, <1>4, <3>1, <3>2, <3>5, <3>8 DEF Progress
  <2> QED BY <2>1, <2>2
<1> QED BY <1>2, <1>5, LiveStep DEF OthersAlone

LEMMA SerialEnd ==
  ASSUME IInv, TypeOK', NEW r \in Run, EndSweep(r) \/ Crash(r)
  PROVE  IInv'
<1> USE DEF Live, PastCheck, BeforeWriting
<1>1. IInv /\ TypeOK /\ Progress(r)
  BY DEF IInv
<1>2. OthersAlone(r) /\ pc[r] \in Live /\ UNCHANGED out /\ pc'[r] \in {"failed", "crashed"}
  BY <1>1 DEF OthersAlone, EndSweep, Crash, Forget, Goto, TypeOK
<1>3. Progress(r)'
  BY <1>2 DEF Progress
<1> QED BY <1>2, <1>3, LiveStep DEF OthersAlone

LEMMA SerialPublish ==
  ASSUME IInv, TypeOK', NEW r \in Run, Publish(r)
  PROVE  IInv'
<1> USE DEF Live, PastCheck, BeforeWriting
<1>1. IInv /\ TypeOK /\ Progress(r)
  BY DEF IInv
<1>2. pc[r] = "publish" /\ tmp.made /\ ~out.made /\ Complete(tmp, r) /\ plan[r] \in Plan
  BY <1>1 DEF Publish, Progress
<1>3. out' = tmp /\ tmp' = Gone /\ pc'[r] = "published" /\ UNCHANGED <<at, plan>>
  BY <1>1, <1>2 DEF Publish, Goto, TypeOK
<1>4. OthersAlone(r)
  BY <1>1 DEF Publish, OthersAlone, Goto, TypeOK
<1>5. Complete(out, r)'
  BY <1>2, <1>3 DEF Complete, PackageOf, TreeHashes
<1>6. AtomicPublish'
  BY <1>3, <1>5 DEF AtomicPublish
<1>7. \A q \in Run \ {r} : Progress(q)'
  BY <1>1, <1>2, <1>4, OthersKeepProgress DEF OthersAlone
<1>8. Progress(r)'
  BY <1>1, <1>2, <1>3 DEF Progress
<1>9. OneLive'
  BY <1>1, <1>3, <1>4 DEF IInv, OneLive, OthersAlone
<1> QED BY <1>2, <1>3, <1>6, <1>7, <1>8, <1>9 DEF IInv

LEMMA SerialMove ==
  ASSUME IInv, TypeOK', MoveRoot
  PROVE  IInv'
<1>1. UNCHANGED <<pc, at, plan, listing, recorded>> /\ out' = Gone /\ tmp' = Gone
  BY DEF MoveRoot
<1>2. ASSUME NEW r \in Run PROVE Progress(r)'
  <2>1. pc[r] \in {"new"} \cup (Ended \ {"raised"}) /\ Progress(r)
    BY DEF MoveRoot, AllQuiet, IInv, TypeOK, Progress
  <2> QED BY <1>1, <2>1 DEF Progress, Live, Ended, PastCheck, BeforeWriting
<1>3. OneLive'
  BY <1>1 DEF IInv, OneLive
<1> QED BY <1>1, <1>2, <1>3, GoneFacts DEF IInv, AtomicPublish

LEMMA SerialStep == IInv /\ [SerialNext]_vars => IInv'
<1> SUFFICES ASSUME IInv, [SerialNext]_vars PROVE IInv'
  OBVIOUS
<1>1. TypeOK'
  <2>1. TypeInv
    BY WriteOrderFacts DEF IInv, TypeInv, RenameInRange, Progress
  <2> QED BY <2>1, SerialIsNext, TypeNext DEF TypeInv
<1>2. ASSUME NEW r \in Run, AllQuiet, Start(r) PROVE IInv'
  BY <1>1, <1>2, SerialStart
<1>3. ASSUME NEW r \in Run, Step(r) PROVE IInv'
  BY <1>1, <1>3, SerialBefore, SerialTmp, SerialWrite, SerialSums, SerialEnd, SerialPublish
     DEF Step
<1>4. ASSUME NEW r \in Run, WriteError(r) PROVE IInv'
  BY <1>1, <1>4, SerialBefore
<1>5. ASSUME NEW r \in Run, Crash(r) PROVE IInv'
  BY <1>1, <1>5, SerialEnd
<1>6. CASE MoveRoot
  BY <1>1, <1>6, SerialMove
<1>7. CASE UNCHANGED vars
  <2>1. UNCHANGED <<pc, at, plan, listing, recorded, out, tmp>>
    BY <1>7 DEF vars
  <2>2. ASSUME NEW r \in Run PROVE Progress(r)'
    BY <2>1 DEF IInv, Progress, Complete, PackageOf, TreeHashes, Holds, Written, Present
  <2>3. AtomicPublish'
    BY <2>1 DEF IInv, AtomicPublish, Complete, PackageOf, TreeHashes
  <2> QED BY <1>1, <2>1, <2>2, <2>3 DEF IInv, OneLive
<1> QED BY <1>2, <1>3, <1>4, <1>5, <1>6, <1>7 DEF SerialNext

LEMMA SerialInvariant == SerialSpec => []IInv
BY SerialInit, SerialStep, PTL DEF SerialSpec

\* What stands at the output path is always one finished run's complete
\* package, through every crash, failed write and retry.
THEOREM PublishesAtomically == SerialSpec => []AtomicPublish
<1>1. IInv => AtomicPublish
  BY DEF IInv
<1> QED BY <1>1, SerialInvariant, PTL

\* A killed run's leftovers make no later run raise.
THEOREM RetriesAreNotBlocked == SerialSpec => []LeftoversNeverBlock
<1>1. IInv => LeftoversNeverBlock
  BY DEF IInv, Progress, LeftoversNeverBlock
<1> QED BY <1>1, SerialInvariant, PTL

\* Only the package of a run whose driver returned raw rows passes the audit.
THEOREM AuditTellsFailuresApart == SerialSpec => []AuditSeparatesFailures
<1>1. IInv => AuditSeparatesFailures
  <2> SUFFICES ASSUME IInv, NEW r \in Run, out.made, AuditPasses(out),
                      out.files[Final("run_manifest.json")] = r
               PROVE  plan[r].exit = "ok" /\ RawRows \in plan[r].files
    BY DEF AuditSeparatesFailures
  <2>1. PICK s \in Run : pc[s] = "published" /\ Complete(out, s)
    BY DEF IInv, AtomicPublish
  <2>2. plan[s] \in Plan /\ s # NoFile
    BY <2>1, ContentFacts DEF IInv, Progress
  <2>3. RawRows \in File /\ "run_manifest.json" \in File
    BY DEF File, Always
  <2>4. \A f \in File : out.files[Final(f)] \in {s, NoFile}
    BY <2>1, NameFacts DEF Complete, PackageOf
  <2>5. r = s
    BY <2>2, <2>3, <2>4, ContentFacts
  <2>6. out.files[Final(RawRows)] # NoFile
    BY DEF AuditPasses, MissingFiles, Required
  <2>7. RawRows \in plan[s].files
    <3>1. Final(RawRows) \in {Final(f) : f \in plan[s].files \cup {Sums}}
      BY <2>1, <2>3, <2>6, NameFacts DEF Complete, PackageOf
    <3>2. PICK f \in plan[s].files \cup {Sums} : Final(f) = Final(RawRows)
      BY <3>1
    <3>3. f = RawRows
      BY <3>2 DEF Final
    <3> QED BY <3>2, <3>3 DEF RawRows, Sums
  <2> QED BY <2>2, <2>5, <2>7, PlanFacts
<1> QED BY <1>1, SerialInvariant, PTL

-----------------------------------------------------------------------------
(* Refinement of Publication. *)

\* A reader sees a complete package of r as the whole package r delivers.
LEMMA CompleteView ==
  ASSUME NEW d \in Directory, NEW r \in Run, plan[r] \in Plan, Complete(d, r)
  PROVE  View(d) = Reader!Whole(r, plan[r].files)
<1> DEFINE P == plan[r].files
<1>1. P \subseteq File /\ Sums \notin P /\ Sums \in File /\ r # NoFile
  BY PlanFacts, NameFacts, ContentFacts
<1>2. Present(d) = {Final(f) : f \in P \cup {Sums}}
  BY <1>1, NameFacts DEF Present, Complete, PackageOf
<1>3. {n[1] : n \in Present(d)} \ {Sums} = P
  <2>1. {n[1] : n \in Present(d)} = P \cup {Sums}
    BY ONLY <1>2, FinalName
  <2> QED BY ONLY <1>1, <2>1
<1>4. {d.files[n] : n \in Present(d)} = {r}
  <2>1. \A n \in Present(d) : d.files[n] = r
    BY <1>2, <1>1, NameFacts DEF Complete, PackageOf
  <2>2. Final(Sums) \in Present(d)
    BY <1>2
  <2> QED BY <2>1, <2>2
<1>5. {m \in Name : d.sums[m] # NoFile /\ d.sums[m] = d.files[m]} = {Final(f) : f \in P}
  <2>1. \A m \in Name : d.sums[m] = IF m = Final(Sums) THEN NoFile ELSE d.files[m]
    BY <1>1, NameFacts DEF Complete, TreeHashes, Directory
  <2>2. \A m \in Name : d.files[m] # NoFile <=> m \in {Final(f) : f \in P \cup {Sums}}
    BY <1>1, NameFacts DEF Complete, PackageOf
  <2>3. \A f \in P : Final(f) \in Name /\ Final(f) # Final(Sums)
    BY <1>1, NameFacts
  <2> QED BY <2>1, <2>2, <2>3
<1>6. {n[1] : n \in {Final(f) : f \in P}} = P
  BY FinalName
<1> QED BY <1>3, <1>4, <1>5, <1>6 DEF View, Reader!Whole

LEMMA RefinementStep == IInv /\ IInv' /\ [SerialNext]_vars => [Reader!Next]_(Reader!vars)
<1> SUFFICES ASSUME IInv, IInv', [SerialNext]_vars PROVE [Reader!Next]_(Reader!vars)
  OBVIOUS
<1> USE DEF Reader!vars
<1>1. ASSUME NEW r \in Run, Publish(r) PROVE Reader!Next
  <2>1. /\ pc[r] = "publish" /\ tmp.made /\ ~out.made /\ Complete(tmp, r) /\ plan[r] \in Plan
        /\ tmp \in Directory /\ pc \in [Run -> {"new"} \cup Live \cup Ended]
    BY <1>1 DEF Publish, IInv, Progress, PastCheck, Live, TypeOK
  <2>2. out' = tmp /\ pc' = [pc EXCEPT ![r] = "published"]
    BY <1>1, <2>1 DEF Publish, Goto
  <2>3. Shelf = {} /\ Shelf' = {Reader!Whole(r, plan[r].files)}
    BY <2>1, <2>2, CompleteView DEF Shelf, View, Present
  <2>4. r \notin Delivered /\ Delivered' = Delivered \cup {r}
    BY <2>1, <2>2 DEF Delivered
  <2>5. plan[r].files \in {p.files : p \in Plan}
    BY <2>1
  <2> QED BY <2>3, <2>4, <2>5 DEF Reader!Next, Reader!Deliver
<1>2. CASE MoveRoot
  <2>1. Shelf # {} /\ Shelf' = {} /\ Delivered' = Delivered
    BY <1>2, GoneFacts DEF MoveRoot, Shelf, Delivered
  <2> QED BY <2>1 DEF Reader!Next, Reader!TakeAway
<1>3. ASSUME UNCHANGED out,
             \E r \in Run : /\ pc[r] # "published" /\ pc'[r] # "published"
                           /\ \A q \in Run \ {r} : pc'[q] = pc[q]
      PROVE  UNCHANGED <<Shelf, Delivered>>
  BY <1>3 DEF Shelf, View, Present, Delivered
<1>4. ASSUME NEW r \in Run, Start(r) \/ (Step(r) /\ ~Publish(r)) \/ WriteError(r) \/ Crash(r)
      PROVE  UNCHANGED <<Shelf, Delivered>>
  <2> USE DEF Goto, IInv, TypeOK
  <2>1. CASE Start(r)
    BY <1>3, <2>1 DEF Start
  <2>2. CASE RefuseExisting(r) \/ Drive(r) \/ ListTmp(r)
    BY <1>3, <2>2 DEF RefuseExisting, Drive, ListTmp
  <2>3. CASE Unlink(r) \/ RemoveTmp(r) \/ MakeTmp(r)
    BY <1>3, <2>3 DEF Unlink, RemoveTmp, MakeTmp
  <2>4. CASE WriteScratch(r) \/ Rename(r) \/ SkipFile(r)
    BY <1>3, <2>4 DEF WriteScratch, Rename, SkipFile
  <2>5. CASE HashTree(r) \/ WriteSums(r) \/ WriteError(r)
    BY <1>3, <2>5 DEF HashTree, WriteSums, WriteError
  <2>6. CASE Cleanup(r) \/ EndSweep(r)
    BY <1>3, <2>6 DEF Cleanup, EndSweep
  <2>7. CASE Crash(r)
    BY <1>3, <2>7 DEF Crash, Live
  <2> QED BY <1>4, <2>1, <2>2, <2>3, <2>4, <2>5, <2>6, <2>7 DEF Step
<1>5. CASE UNCHANGED vars
  BY <1>5 DEF vars, Shelf, View, Present, Delivered
<1> QED BY <1>1, <1>2, <1>4, <1>5 DEF SerialNext

\* Invocations that do not overlap implement Publication.
THEOREM ImplementsPublication == SerialSpec => DeliversWholePackages
<1>1. Init => Reader!Init
  BY GoneFacts DEF Init, Reader!Init, Shelf, Delivered
<1> QED BY <1>1, RefinementStep, SerialInvariant, PTL DEF SerialSpec, Reader!Spec, DeliversWholePackages
=============================================================================
