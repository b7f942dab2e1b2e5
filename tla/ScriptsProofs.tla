----------------------------- MODULE ScriptsProofs -----------------------------
(***************************************************************************)
(* The scripts around the package.                                         *)
(*                                                                         *)
(* The release report and the release gate, for any number of packages,    *)
(* builds and changes: facts about packages, what a report that verifies   *)
(* says of the packages under it, what the gate's OK means.  The inductive *)
(* invariant of the report follows a package that stands still through one *)
(* build: listed, audited, indexed, hashed, sealed.  It says nothing of a  *)
(* package that changed, and a build that ends leaves only SumsInv.  That  *)
(* of the gate follows a pack that stands still: it is still to be looked  *)
(* at, has failed, or is intact.                                           *)
(*                                                                         *)
(* The launchers of StageMatrix, for any number of runs, attempts, cards,  *)
(* deaths, jobs and sweeps.  TypeCorrect and GatedGivesUpLast hold of any  *)
(* launchers, the other two of one that has its directory to itself.       *)
(***************************************************************************)
EXTENDS ReleaseIndex, ReleaseGate, StageMatrix, TLAPS

-----------------------------------------------------------------------------
(* Packages *)

\* What the audit passes is intact.
LEMMA AuditedIsIntact == ASSUME NEW p, AuditPasses(p) PROVE Intact(p)
  BY DEF AuditPasses, Intact

\* The members of Files, without Content.
LEMMA FilesAre ==
  /\ \A c \in Files : \A f \in Piece : c[f] \in Holds(f)
  /\ \A c : c = [f \in Piece |-> c[f]] /\ (\A f \in Piece : c[f] \in Holds(f)) => c \in Files
  <1>1. \A f \in Piece : Holds(f) \subseteq Content
    BY DEF Content
  <1> QED
    BY <1>1 DEF Files

LEMMA HoldsAre ==
  /\ Holds("protocol") = {Gone, "published", "other"}
  /\ Holds("manifest") = {Gone, "ok", "driver_failed", "invalid", "incomplete", "broken"}
  /\ Holds("decision") = {Gone, "pass", "invalid", "undecided", "broken"}
  /\ Holds("rows") = {Gone, "published", "other"}
  BY DEF Holds

LEMMA GoneHolds == \A f \in Piece : Gone \in Holds(f)
  BY HoldsAre DEF Piece

\* A file is replaced.
LEMMA FilesExcept ==
  ASSUME NEW c \in Files, NEW f \in Piece, NEW x \in Holds(f)
  PROVE  [c EXCEPT ![f] = x] \in Files
  <1>1. x \in Content
    BY DEF Content
  <1>2. c \in [Piece -> Content]
    BY DEF Files
  <1> QED
    BY <1>1, <1>2, FilesAre DEF Files

LEMMA SealType == ASSUME NEW c \in Files PROVE Seal(c) \in Pack
  BY DEF Seal, Pack

LEMMA NoPackType == NoPack \in Pack
  <1>1. [f \in Piece |-> Gone] \in Files
    BY FilesAre, GoneHolds
  <1> QED
    BY <1>1, SealType DEF NoPack

LEMMA PublishedType == Published \subseteq Pack
  <1>1. ASSUME NEW exit \in Holds("manifest"), NEW decision \in Holds("decision"),
               NEW rows \in Holds("rows")
        PROVE  RunFiles(exit, decision, rows) \in Files
    <2>1. \A f \in Piece : RunFiles(exit, decision, rows)[f] \in Holds(f)
      BY <1>1, HoldsAre DEF RunFiles, Piece
    <2> QED
      BY <2>1, FilesAre DEF RunFiles
  <1>2. ASSUME NEW x \in {"driver_failed", "invalid"}
        PROVE  Seal(RunFiles(x, "undecided", Gone)) \in Pack
    BY <1>1, HoldsAre, SealType
  <1>3. ASSUME NEW d \in {"pass", "invalid"} PROVE Seal(RunFiles("ok", d, "published")) \in Pack
    BY <1>1, HoldsAre, SealType
  <1> QED
    BY <1>2, <1>3 DEF Published

\* Every change leaves a package, changes it only at one directory, and takes
\* that one from the quiet ones.
LEMMA ChangeOfOne ==
  ASSUME PackagesTypeOK, ChangePackage
  PROVE  \E d \in Dir, p \in Pack : Change(d, p)
  <1> USE DEF PackagesTypeOK
  <1>1. ASSUME NEW d \in Dir, Publish(d) PROVE \E p \in Pack : Change(d, p)
    BY <1>1, PublishedType DEF Publish
  <1>2. ASSUME NEW d \in Dir, TakeAway(d) PROVE \E p \in Pack : Change(d, p)
    BY <1>2, NoPackType DEF TakeAway
  <1>3. ASSUME NEW d \in Dir, Damage(d) PROVE \E p \in Pack : Change(d, p)
    <2>1. PICK f \in Piece : \E c \in Holds(f) \ {pack[d].file[f]} :
            Change(d, [pack[d] EXCEPT !.file[f] = c])
      BY <1>3 DEF Damage
    <2>2. PICK c \in Holds(f) : Change(d, [pack[d] EXCEPT !.file[f] = c])
      BY <2>1
    <2>3. [pack[d] EXCEPT !.file[f] = c] \in Pack
      BY <2>1, <2>2, FilesExcept DEF Pack
    <2> QED BY <2>2, <2>3
  <1>4. ASSUME NEW d \in Dir, DamageSums(d) PROVE \E p \in Pack : Change(d, p)
    <2>1. [pack[d] EXCEPT !.wellFormed = FALSE] \in Pack
      BY DEF Pack
    <2>2. ASSUME NEW f \in Piece PROVE [pack[d] EXCEPT !.sums[f] = Gone] \in Pack
      BY GoneHolds, FilesExcept DEF Pack
    <2> QED BY <1>4, <2>1, <2>2 DEF DamageSums
  <1>5. ASSUME NEW d \in Dir, Reseal(d) PROVE \E p \in Pack : Change(d, p)
    <2>1. pack[d].file \in Files
      BY DEF Pack
    <2> QED BY <1>5, <2>1, SealType DEF Reseal
  <1> QED
    BY <1>1, <1>2, <1>3, <1>4, <1>5 DEF ChangePackage

LEMMA ChangeType ==
  ASSUME PackagesTypeOK, NEW d \in Dir, NEW p \in Pack, Change(d, p)
  PROVE  /\ PackagesTypeOK'
         /\ quiet' = quiet \ {d}
         /\ \A e \in Dir \ {d} : pack'[e] = pack[e]
  BY PackagesAssumption DEF PackagesTypeOK, Change

-----------------------------------------------------------------------------
(* The report *)

There(d) == pack[d] # NoPack

IdleInv ==
  /\ doing = "idle" => index = NoIndex
  /\ doing \notin {"hashing", "sums"} => hashes = NoHashes
  /\ doing \notin {"audit", "manifest", "decision", "hashing"} => todo = {}

\* The entry being filled in, and the entries so far, tell the truth.
EntryInv ==
  doing \in {"manifest", "decision"} =>
    \A d \in First(todo) \cap quiet : ~entry.errors => Intact(pack[d])

IndexInv == \A d \in DOMAIN index \cap quiet : ~index[d].errors => Intact(pack[d])

\* What was there when the root was listed has an entry or will have one.
ListedInv ==
  doing # "idle" =>
    \A d \in quiet : There(d) =>
      d \in DOMAIN index \/ (doing \in {"audit", "manifest", "decision"} /\ d \in todo)

\* The hashes read so far are those of the packages, and of them only.
HashedInv ==
  doing \in {"hashing", "sums"} =>
    \A d \in quiet :
      /\ There(d) => d \in todo \cup DOMAIN hashes
      /\ d \in DOMAIN hashes => There(d) /\ hashes[d] = pack[d]

WrittenInv == doing \in {"report", "hash", "hashing", "sums"} => root.index = index

\* What a build sealed stays so whatever changes or dies later.
SumsInv ==
  LET s == root.sums IN
  /\ \A d \in DOMAIN s.index \cap s.settled :
       ~s.index[d].errors => d \in DOMAIN s.packs /\ Intact(s.packs[d])
  /\ DOMAIN s.packs \cap s.settled \subseteq DOMAIN s.index

IInv ==
  /\ IndexTypeOK
  /\ IdleInv /\ EntryInv /\ IndexInv /\ ListedInv /\ HashedInv /\ WrittenInv /\ SumsInv

-----------------------------------------------------------------------------
LEMMA OneFirst ==
  ASSUME NEW S \in SUBSET Dir, NEW d \in First(S), NEW e \in First(S)
  PROVE  d = e
  BY PackagesAssumption DEF First

LEMMA WithIndex ==
  ASSUME NEW f, IsIndex(f), NEW d \in Dir, NEW v \in Entry
  PROVE  IsIndex(With(f, d, v))
  BY DEF With, IsIndex

LEMMA WithHashes ==
  ASSUME NEW f, IsHashes(f), NEW d \in Dir, NEW v \in Pack
  PROVE  IsHashes(With(f, d, v))
  BY DEF With, IsHashes

LEMMA EmptyTypes ==
  /\ NoEntry \in Entry /\ IsIndex(NoIndex) /\ IsHashes(NoHashes) /\ IsSums(NoSums)
  /\ DOMAIN NoIndex = {} /\ DOMAIN NoHashes = {}
  BY DEF NoEntry, Entry, NoIndex, IsIndex, NoHashes, IsHashes, NoSums, IsSums, Sealed

\* An intact package is there.
LEMMA IntactIsThere == ASSUME NEW d, Intact(pack[d]) PROVE There(d)
  BY DEF Intact, There, NoPack, Seal, Piece

-----------------------------------------------------------------------------
LEMMA InitInv == IndexInit => IInv
  <1> SUFFICES ASSUME IndexInit PROVE IInv
    OBVIOUS
  <1>1. PackagesTypeOK
    BY PublishedType, NoPackType, PackagesAssumption DEF IndexInit, InitPackages, PackagesTypeOK
  <1>2. IndexTypeOK
    BY <1>1, EmptyTypes, BuildsAssumption DEF IndexInit, IndexTypeOK
  <1>3. SumsInv
    BY EmptyTypes DEF IndexInit, SumsInv, NoSums, Sealed
  <1>4. IndexInv
    BY EmptyTypes DEF IndexInit, IndexInv
  <1> QED
    BY <1>2, <1>3, <1>4 DEF IndexInit, IInv, IdleInv, EntryInv, ListedInv, HashedInv, WrittenInv

\* Packages change: what changed is no longer quiet.
LEMMA ChangeKeepsInv ==
  ASSUME IInv, ChangePackage, UNCHANGED <<builds, doing, todo, entry, index, hashes, root>>
  PROVE  IInv'
  <1>1. PICK d \in Dir, p \in Pack : Change(d, p)
    BY ChangeOfOne DEF IInv, IndexTypeOK
  <1>2. /\ PackagesTypeOK'
        /\ quiet' = quiet \ {d}
        /\ \A e \in Dir \ {d} : pack'[e] = pack[e]
    BY <1>1, ChangeType DEF IInv, IndexTypeOK
  <1>3. quiet \subseteq Dir
    BY DEF IInv, IndexTypeOK, PackagesTypeOK
  <1>4. IndexTypeOK'
    BY <1>2 DEF IInv, IndexTypeOK
  <1>5. EntryInv' /\ IndexInv'
    BY <1>2, <1>3 DEF IInv, EntryInv, IndexInv
  <1>6. ListedInv' /\ HashedInv'
    BY <1>2, <1>3 DEF IInv, ListedInv, HashedInv, There
  <1>7. IdleInv' /\ WrittenInv' /\ SumsInv'
    BY DEF IInv, IdleInv, WrittenInv, SumsInv
  <1> QED
    BY <1>4, <1>5, <1>6, <1>7 DEF IInv

\* A build that ends, by its last write, an exception or a kill, leaves what
\* the root holds.
LEMMA RaiseKeepsInv ==
  ASSUME IInv, Raise, UNCHANGED <<packVars, builds>>,
         IsIndex(root'.index), IsIndex(root'.report), IsSums(root'.sums), SumsInv',
         root' = [index |-> root'.index, report |-> root'.report, sums |-> root'.sums]
  PROVE  IInv'
  <1>1. IndexTypeOK'
    BY EmptyTypes DEF IInv, IndexTypeOK, PackagesTypeOK, Raise, packVars
  <1>2. IndexInv'
    BY EmptyTypes DEF IndexInv, Raise
  <1> QED
    BY <1>1, <1>2 DEF IInv, IdleInv, EntryInv, ListedInv, HashedInv, WrittenInv, Raise

LEMMA ListKeepsInv == ASSUME IInv, List PROVE IInv'
  <1>1. Listing \subseteq Dir /\ \A d \in Dir : There(d) => d \in Listing
    BY DEF Listing, There
  <1>2. index = NoIndex /\ hashes = NoHashes
    BY DEF IInv, IdleInv, List
  <1>3. IndexTypeOK'
    BY <1>1, BuildsAssumption DEF IInv, IndexTypeOK, PackagesTypeOK, List, StartWatching
  <1>4. ListedInv' /\ IndexInv'
    BY <1>1, <1>2, EmptyTypes DEF ListedInv, IndexInv, List, StartWatching, There
  <1>5. SumsInv'
    BY DEF IInv, SumsInv, List
  <1> QED
    BY <1>2, <1>3, <1>4, <1>5
       DEF IInv, IdleInv, EntryInv, HashedInv, WrittenInv, List, StartWatching

LEMMA AuditKeepsInv == ASSUME IInv, Audit PROVE IInv'
  <1>1. UNCHANGED <<packVars, builds, todo, index, hashes, root>> /\ doing = "audit" /\ doing' = "manifest"
    BY DEF Audit
  <1>2. PICK d \in First(todo) :
          entry' = [errors |-> ~AuditPasses(pack[d]),
                    integrity |-> IF AuditPasses(pack[d]) THEN "pass" ELSE "fail",
                    exit |-> "none"]
    BY DEF Audit
  <1>3. d \in todo
    BY DEF First
  <1>4. AuditPasses(pack[d]) \in BOOLEAN
    BY DEF AuditPasses
  <1>5. entry' \in Entry /\ entry'.errors = ~AuditPasses(pack[d])
    BY <1>2, <1>4 DEF Entry
  <1>6. IndexTypeOK'
    BY <1>1, <1>3, <1>5 DEF IInv, IndexTypeOK, packVars, PackagesTypeOK
  <1>7. EntryInv'
    <2>1. todo \in SUBSET Dir /\ todo' = todo /\ pack' = pack
      BY <1>1 DEF IInv, IndexTypeOK, packVars
    <2>2. ASSUME NEW e \in First(todo), ~entry'.errors PROVE Intact(pack[e])
      BY <1>5, <2>1, <2>2, OneFirst, AuditedIsIntact
    <2> QED
      BY <2>1, <2>2 DEF EntryInv
  <1>8. IndexInv' /\ ListedInv' /\ SumsInv'
    BY <1>1 DEF IInv, IndexInv, ListedInv, SumsInv, packVars, There
  <1> QED
    BY <1>1, <1>6, <1>7, <1>8 DEF IInv, IdleInv, HashedInv, WrittenInv

\* What a build does to the root when it ends early: nothing.
LEMMA EarlyEnd == ASSUME IInv, Raise, UNCHANGED <<packVars, builds, root>> PROVE IInv'
  <1>1. SumsInv'
    BY DEF IInv, SumsInv
  <1> QED
    BY <1>1, RaiseKeepsInv DEF IInv, IndexTypeOK

LEMMA ManifestKeepsInv == ASSUME IInv, ReadManifest PROVE IInv'
  <1>1. UNCHANGED <<packVars, builds, root>> /\ doing = "manifest"
    BY DEF ReadManifest
  <1>2. PICK d \in First(todo) :
          LET man == pack[d].file["manifest"] IN
          \/ man = "broken" /\ Raise
          \/ /\ man # "broken"
             /\ entry' = [entry EXCEPT !.exit =
                            IF man \in {Gone, "incomplete"} THEN "none" ELSE man]
             /\ doing' = "decision"
             /\ UNCHANGED <<todo, index, hashes>>
    BY DEF ReadManifest
  <1>3. CASE Raise
    BY <1>1, <1>3, EarlyEnd
  <1>4. CASE /\ pack[d].file["manifest"] # "broken"
             /\ entry' = [entry EXCEPT !.exit =
                            IF pack[d].file["manifest"] \in {Gone, "incomplete"} THEN "none"
                            ELSE pack[d].file["manifest"]]
             /\ doing' = "decision"
             /\ UNCHANGED <<todo, index, hashes>>
    <2>1. d \in Dir
      BY DEF First, IInv, IndexTypeOK
    <2>2. pack[d].file["manifest"] \in {Gone, "ok", "driver_failed", "invalid", "incomplete"}
      BY <1>4, <2>1, FilesAre, HoldsAre DEF IInv, IndexTypeOK, PackagesTypeOK, Pack, Piece
    <2>3. entry' \in Entry /\ entry'.errors = entry.errors
      BY <1>4, <2>2 DEF IInv, IndexTypeOK, Entry
    <2>4. IndexTypeOK'
      BY <1>1, <1>4, <2>3 DEF IInv, IndexTypeOK, packVars, PackagesTypeOK
    <2>5. EntryInv'
      BY <1>1, <1>4, <2>3 DEF IInv, EntryInv, packVars
    <2>6. IndexInv' /\ ListedInv' /\ SumsInv'
      BY <1>1, <1>4 DEF IInv, IndexInv, ListedInv, SumsInv, packVars, There
    <2> QED
      BY <1>1, <1>4, <2>4, <2>5, <2>6 DEF IInv, IdleInv, HashedInv, WrittenInv
  <1> QED
    BY <1>2, <1>3, <1>4

LEMMA DecisionKeepsInv == ASSUME IInv, ReadDecision PROVE IInv'
  <1>1. UNCHANGED <<packVars, builds, root>> /\ doing = "decision"
    BY DEF ReadDecision
  <1> DEFINE final(gd) == IF gd \in {Gone, "undecided"} THEN entry
                          ELSE [entry EXCEPT !.integrity = gd]
  <1>2. PICK d \in First(todo) :
          \/ pack[d].file["decision"] = "broken" /\ Raise
          \/ /\ pack[d].file["decision"] # "broken"
             /\ index' = With(index, d, final(pack[d].file["decision"]))
             /\ todo' = todo \ {d}
             /\ entry' = NoEntry
             /\ doing' = "audit"
             /\ UNCHANGED hashes
    BY DEF ReadDecision
  <1>3. CASE Raise
    BY <1>1, <1>3, EarlyEnd
  <1>4. CASE /\ pack[d].file["decision"] # "broken"
             /\ index' = With(index, d, final(pack[d].file["decision"]))
             /\ todo' = todo \ {d}
             /\ entry' = NoEntry
             /\ doing' = "audit"
             /\ UNCHANGED hashes
    <2>1. d \in Dir /\ d \in todo
      BY DEF First, IInv, IndexTypeOK
    <2>2. pack[d].file["decision"] \in {Gone, "pass", "invalid", "undecided"}
      BY <1>4, <2>1, FilesAre, HoldsAre DEF IInv, IndexTypeOK, PackagesTypeOK, Pack, Piece
    <2> DEFINE v == final(pack[d].file["decision"])
    <2>3. v \in Entry /\ v.errors = entry.errors
      BY <2>2 DEF IInv, IndexTypeOK, Entry
    <2> HIDE DEF final
    <2>4. IndexTypeOK'
      BY <1>1, <1>4, <2>1, <2>3, WithIndex, EmptyTypes DEF IInv, IndexTypeOK, packVars, PackagesTypeOK
    <2>8. /\ DOMAIN index' = DOMAIN index \cup {d}
          /\ index'[d] = v
          /\ \A e \in DOMAIN index \ {d} : index'[e] = index[e]
      BY <1>4 DEF With
    <2>9. pack' = pack /\ quiet' = quiet
      BY <1>1 DEF packVars
    <2>5. IndexInv'
      <3>1. d \in quiet => (~v.errors => Intact(pack[d]))
        BY <1>1, <2>3 DEF IInv, EntryInv
      <3>2. SUFFICES ASSUME NEW e \in DOMAIN index' \cap quiet, ~index'[e].errors
                     PROVE  Intact(pack[e])
        BY <2>9 DEF IndexInv
      <3>3. CASE e = d
        BY <2>8, <3>1, <3>2, <3>3
      <3>4. CASE e # d
        BY <2>8, <3>2, <3>4 DEF IInv, IndexInv
      <3> QED
        BY <3>3, <3>4
    <2>6. ListedInv'
      <3>1. \A e \in quiet : There(e) => e \in DOMAIN index \cup todo
        BY <1>1 DEF IInv, ListedInv
      <3> QED
        BY <1>4, <2>8, <2>9, <3>1 DEF ListedInv, There
    <2>7. SumsInv'
      BY <1>1 DEF IInv, SumsInv
    <2> QED
      BY <1>1, <1>4, <2>4, <2>5, <2>6, <2>7 DEF IInv, IdleInv, EntryInv, HashedInv, WrittenInv
  <1> QED
    BY <1>2, <1>3, <1>4

\* Writing the index and the report, and listing the tree.
LEMMA WritingKeepsInv == ASSUME IInv, WriteIndex \/ WriteReport \/ ListTree PROVE IInv'
  <1>1. CASE WriteIndex
    <2>1. IndexTypeOK'
      BY <1>1 DEF WriteIndex, IInv, IndexTypeOK, packVars, PackagesTypeOK
    <2>2. IndexInv' /\ ListedInv' /\ SumsInv'
      BY <1>1 DEF WriteIndex, IInv, IndexTypeOK, IndexInv, ListedInv, SumsInv, packVars, There
    <2>3. WrittenInv'
      BY <1>1 DEF WriteIndex, IInv, IndexTypeOK, WrittenInv
    <2> QED
      BY <1>1, <2>1, <2>2, <2>3 DEF WriteIndex, IInv, IdleInv, EntryInv, HashedInv
  <1>2. CASE WriteReport
    <2>1. IndexTypeOK'
      BY <1>2 DEF WriteReport, IInv, IndexTypeOK, packVars, PackagesTypeOK
    <2>2. IndexInv' /\ ListedInv' /\ SumsInv'
      BY <1>2 DEF WriteReport, IInv, IndexTypeOK, IndexInv, ListedInv, SumsInv, packVars, There
    <2>3. WrittenInv'
      BY <1>2 DEF WriteReport, IInv, IndexTypeOK, WrittenInv
    <2> QED
      BY <1>2, <2>1, <2>2, <2>3 DEF WriteReport, IInv, IdleInv, EntryInv, HashedInv
  <1>3. CASE ListTree
    <2>1. Listing \subseteq Dir /\ \A d \in Dir : There(d) => d \in Listing
      BY DEF Listing, There
    <2>2. IndexTypeOK'
      BY <1>3, <2>1 DEF ListTree, IInv, IndexTypeOK, packVars, PackagesTypeOK
    <2>3. IndexInv' /\ ListedInv' /\ SumsInv'
      BY <1>3 DEF ListTree, IInv, IndexTypeOK, IndexInv, ListedInv, SumsInv, packVars, There
    <2>4. HashedInv'
      BY <1>3, <2>1, EmptyTypes
         DEF ListTree, IInv, IndexTypeOK, PackagesTypeOK, IdleInv, HashedInv, packVars, There
    <2> QED
      BY <1>3, <2>2, <2>3, <2>4 DEF ListTree, IInv, IdleInv, EntryInv, WrittenInv
  <1> QED
    BY <1>1, <1>2, <1>3

LEMMA HashKeepsInv == ASSUME IInv, HashPack PROVE IInv'
  <1>1. UNCHANGED <<packVars, builds, doing, entry, index, root>> /\ doing = "hashing"
    BY DEF HashPack
  <1>2. PICK d \in First(todo) :
          /\ hashes' = IF pack[d] = NoPack THEN hashes ELSE With(hashes, d, pack[d])
          /\ todo' = todo \ {d}
    BY DEF HashPack
  <1>3. d \in Dir
    BY DEF First, IInv, IndexTypeOK
  <1>4. IsHashes(hashes')
    BY <1>2, <1>3, WithHashes DEF IInv, IndexTypeOK, PackagesTypeOK
  <1>5. IndexTypeOK'
    BY <1>1, <1>2, <1>4 DEF IInv, IndexTypeOK, packVars, PackagesTypeOK
  <1>6. HashedInv'
    <2>1. \A e : There(e)' = There(e)
      BY <1>1 DEF There, packVars
    <2>2. CASE ~There(d)
      BY <1>1, <1>2, <2>1, <2>2 DEF IInv, HashedInv, There, packVars
    <2>3. CASE There(d)
      <3>1. hashes' = With(hashes, d, pack[d])
        BY <1>2, <2>3 DEF There
      <3>2. /\ DOMAIN hashes' = DOMAIN hashes \cup {d}
            /\ hashes'[d] = pack[d]
            /\ \A e \in DOMAIN hashes \ {d} : hashes'[e] = hashes[e]
        BY <3>1 DEF With
      <3>3. \A e \in quiet :
              /\ There(e) => e \in todo \cup DOMAIN hashes
              /\ e \in DOMAIN hashes => There(e) /\ hashes[e] = pack[e]
        BY <1>1 DEF IInv, HashedInv
      <3>4. ASSUME NEW e \in quiet
            PROVE  /\ There(e) => e \in todo' \cup DOMAIN hashes'
                   /\ e \in DOMAIN hashes' => There(e) /\ hashes'[e] = pack[e]
        <4>1. CASE e = d
          BY <2>3, <3>2, <4>1
        <4>2. CASE e # d
          BY <1>2, <3>2, <3>3, <4>2
        <4> QED
          BY <4>1, <4>2
      <3>5. pack' = pack /\ quiet' = quiet
        BY <1>1 DEF packVars
      <3> QED
        BY <2>1, <3>4, <3>5 DEF HashedInv
    <2> QED
      BY <2>2, <2>3
  <1>7. IndexInv' /\ ListedInv' /\ SumsInv'
    BY <1>1 DEF IInv, IndexInv, ListedInv, SumsInv, packVars, There
  <1> QED
    BY <1>1, <1>5, <1>6, <1>7 DEF IInv, IdleInv, EntryInv, WrittenInv

LEMMA SumsKeepInv == ASSUME IInv, OpenSums \/ WriteSums PROVE IInv'
  <1>1. CASE OpenSums
    <2>1. IndexTypeOK'
      BY <1>1, EmptyTypes DEF OpenSums, IInv, IndexTypeOK, packVars, PackagesTypeOK
    <2>2. SumsInv'
      <3>1. root'.sums = NoSums
        BY <1>1 DEF OpenSums, IInv, IndexTypeOK
      <3> QED
        BY <3>1, EmptyTypes DEF SumsInv, NoSums, Sealed
    <2>3. IndexInv' /\ ListedInv' /\ HashedInv' /\ WrittenInv'
      BY <1>1 DEF OpenSums, IInv, IndexTypeOK, IndexInv, ListedInv, HashedInv, WrittenInv, packVars, There
    <2> QED
      BY <1>1, <2>1, <2>2, <2>3 DEF OpenSums, IInv, IdleInv, EntryInv
  <1>2. CASE WriteSums
    <2> DEFINE s == Sealed(hashes, root.index, root.report, quiet)
    <2>1. root' = [index |-> root.index, report |-> root.report, sums |-> s]
      BY <1>2 DEF WriteSums, IInv, IndexTypeOK
    <2>2. IsSums(s)
      BY DEF IsSums, Sealed, IInv, IndexTypeOK, PackagesTypeOK
    <2>3. SumsInv'
      <3>1. root.index = index /\ todo = {} /\ doing = "sums"
        BY <1>2 DEF WriteSums, IInv, WrittenInv, IdleInv
      <3>2. ASSUME NEW d \in DOMAIN index \cap quiet, ~index[d].errors
            PROVE  d \in DOMAIN hashes /\ Intact(hashes[d])
        <4>1. Intact(pack[d]) /\ There(d)
          BY <3>2, IntactIsThere DEF IInv, IndexInv
        <4> QED
          BY <3>1, <4>1 DEF IInv, HashedInv
      <3>3. DOMAIN hashes \cap quiet \subseteq DOMAIN index
        BY <3>1 DEF IInv, HashedInv, ListedInv
      <3> QED
        BY <2>1, <3>1, <3>2, <3>3 DEF SumsInv, Sealed
    <2>4. Raise /\ UNCHANGED <<packVars, builds>>
      BY <1>2 DEF WriteSums
    <2> QED
      BY <2>1, <2>2, <2>3, <2>4, RaiseKeepsInv DEF IInv, IndexTypeOK
  <1> QED
    BY <1>1, <1>2

LEMMA NextKeepsInv == IInv /\ [IndexNext]_indexVars => IInv'
  <1> SUFFICES ASSUME IInv, [IndexNext]_indexVars PROVE IInv'
    OBVIOUS
  <1>1. CASE BuilderDies
    BY <1>1, EarlyEnd DEF BuilderDies
  <1>2. CASE UNCHANGED indexVars
    BY <1>2 DEF indexVars, packVars, IInv, IndexTypeOK, PackagesTypeOK, IdleInv, EntryInv, IndexInv, ListedInv,
                HashedInv, WrittenInv, SumsInv, There
  <1> QED
    BY <1>1, <1>2, ListKeepsInv, AuditKeepsInv, ManifestKeepsInv, DecisionKeepsInv,
       WritingKeepsInv, HashKeepsInv, SumsKeepInv, ChangeKeepsInv DEF IndexNext, Build

LEMMA Inductive == IndexSpec => []IInv
  BY InitInv, NextKeepsInv, PTL DEF IndexSpec

\* Every reachable state of the builder of the release report (report.py) is
\* well typed: the loop never asks for a directory it does not have.
THEOREM IndexTypeCorrect == IndexSpec => []IndexTypeOK
  <1>1. IInv => IndexTypeOK
    BY DEF IInv
  <1> QED
    BY Inductive, <1>1, PTL

\* What the root's SHA256SUMS says of a package that stood still.
LEMMA VerifiedIsSealed ==
  ASSUME RootVerifies, NEW d \in DOMAIN root.sums.packs, Intact(root.sums.packs[d])
  PROVE  Intact(pack[d])
  BY DEF RootVerifies, Unchanged, Intact

\* While the root's SHA256SUMS verifies (report.py:88), what the index has
\* without errors, and what stood still during the build, is intact.
THEOREM VerifiedIndexIsHonest == IndexSpec => []SealedIndexHonest
  <1>1. IInv => SealedIndexHonest
    <2> SUFFICES ASSUME IInv, RootVerifies,
                        NEW d \in DOMAIN root.index \cap root.sums.settled, ~root.index[d].errors
                 PROVE  Intact(pack[d])
      BY DEF SealedIndexHonest
    <2>1. d \in DOMAIN root.sums.packs /\ Intact(root.sums.packs[d])
      BY DEF IInv, SumsInv, RootVerifies
    <2> QED
      BY <2>1, VerifiedIsSealed
  <1> QED
    BY Inductive, <1>1, PTL

\* A package the root's SHA256SUMS covers, failed or not, has an entry
\* (report.py:60) unless it changed during the build.
THEOREM VerifiedIndexIsComplete == IndexSpec => []SealedIndexComplete
  <1>1. IInv => SealedIndexComplete
    BY DEF IInv, SumsInv, RootVerifies, SealedIndexComplete
  <1> QED
    BY Inductive, <1>1, PTL

\* The report writes nothing before it has read every package it listed
\* (report.py:61).
THEOREM WritesAfterReading == IndexSpec => ReadsBeforeWriting
  <1>1. IInv /\ [IndexNext]_indexVars =>
          [root' # root => todo = {} /\ doing \notin {"idle", "manifest", "decision"}]_indexVars
    <2> SUFFICES ASSUME IInv, IndexNext, root' # root
                 PROVE  todo = {} /\ doing \notin {"idle", "manifest", "decision"}
      BY DEF indexVars
    <2>1. WriteIndex \/ WriteReport \/ OpenSums \/ WriteSums
      BY DEF IndexNext, Build, List, Audit, ReadManifest, ReadDecision, ListTree, HashPack, BuilderDies
    <2> QED
      BY <2>1 DEF IInv, IdleInv, WriteIndex, WriteReport, OpenSums, WriteSums
  <1> QED
    BY Inductive, <1>1, PTL DEF IndexSpec, ReadsBeforeWriting

-----------------------------------------------------------------------------
(* The gate *)

\* What the gate looks at.
IsPack(p) == Gone \notin {p.file["protocol"], p.file["manifest"]}

\* An untouched pack is still to be looked at, has failed, or is intact.
SeenInv ==
  gate.at # "new" =>
    \A d \in quiet : IsPack(pack[d]) => d \in gate.todo \cup gate.failed \/ Intact(pack[d])

\* Between the auditor and sha256sum the pack is counted and the auditor has
\* said yes.
AuditedInv ==
  gate.at = "sums" =>
    \A d \in First(gate.todo) : d \in gate.checked /\ (d \in quiet => Intact(pack[d]))

EndInv == gate.at = "ok" => gate.todo = {} /\ gate.failed = {}

GateIInv == GateTypeOK /\ SeenInv /\ AuditedInv /\ EndInv

-----------------------------------------------------------------------------
LEMMA GateInitInv == GateInit => GateIInv
  <1> SUFFICES ASSUME GateInit PROVE GateIInv
    OBVIOUS
  <1>1. PackagesTypeOK
    BY PublishedType, NoPackType, PackagesAssumption DEF GateInit, InitPackages, PackagesTypeOK
  <1> QED
    BY <1>1 DEF GateInit, GateIInv, GateTypeOK, SeenInv, AuditedInv, EndInv

\* Packages change: what changed is no longer quiet.
LEMMA ChangeKeepsGateInv ==
  ASSUME GateIInv, ChangePackage, UNCHANGED gate
  PROVE  GateIInv'
  <1>1. PICK d \in Dir, p \in Pack : Change(d, p)
    BY ChangeOfOne DEF GateIInv, GateTypeOK
  <1>2. /\ PackagesTypeOK'
        /\ quiet' = quiet \ {d}
        /\ \A e \in Dir \ {d} : pack'[e] = pack[e]
    BY <1>1, ChangeType DEF GateIInv, GateTypeOK
  <1>3. quiet \subseteq Dir
    BY DEF GateIInv, GateTypeOK, PackagesTypeOK
  <1>4. GateTypeOK'
    BY <1>2 DEF GateIInv, GateTypeOK
  <1>5. SeenInv'
    BY <1>2, <1>3 DEF GateIInv, SeenInv
  <1>6. AuditedInv'
    BY <1>2, <1>3 DEF GateIInv, AuditedInv, First
  <1> QED
    BY <1>4, <1>5, <1>6 DEF GateIInv, EndInv

LEMMA GateNextKeepsInv == GateIInv /\ [GateNext]_gateVars => GateIInv'
  <1> SUFFICES ASSUME GateIInv, [GateNext]_gateVars PROVE GateIInv'
    OBVIOUS
  <1> USE DEF GateIInv, GateTypeOK, PackagesTypeOK
  <1>1. CASE GateList
    <2>1. \A d \in Dir : IsPack(pack[d]) => d \in Listing
      BY DEF IsPack, Listing, NoPack, Seal, Piece
    <2>2. Listing \subseteq Dir
      BY DEF Listing
    <2> QED
      BY <1>1, <2>1, <2>2 DEF GateList, StartWatching, SeenInv, AuditedInv, EndInv
  <1>2. CASE GateCheck
    <2>1. UNCHANGED packVars /\ gate.at = "check"
      BY <1>2 DEF GateCheck
    <2>2. PICK d \in First(gate.todo) :
            LET rest == [gate EXCEPT !.todo = @ \ {d}] IN
            gate' =
              IF Gone \in {pack[d].file["protocol"], pack[d].file["manifest"]} THEN rest
              ELSE IF AuditCommandFails(pack[d])
                THEN [rest EXCEPT !.checked = @ \cup {d}, !.failed = @ \cup {d}]
              ELSE [gate EXCEPT !.checked = @ \cup {d}, !.at = "sums"]
      BY <1>2 DEF GateCheck
    <2>3. d \in gate.todo
      BY DEF First
    <2>4. CASE Gone \in {pack[d].file["protocol"], pack[d].file["manifest"]}
      <3>1. gate' = [gate EXCEPT !.todo = @ \ {d}]
        BY <2>2, <2>4
      <3> QED
        BY <3>1, <2>1, <2>3, <2>4 DEF packVars, SeenInv, AuditedInv, EndInv, IsPack
    <2>5. CASE /\ Gone \notin {pack[d].file["protocol"], pack[d].file["manifest"]}
               /\ AuditCommandFails(pack[d])
      <3>1. gate' = [gate EXCEPT !.todo = @ \ {d}, !.checked = @ \cup {d}, !.failed = @ \cup {d}]
        BY <2>2, <2>5
      <3> QED
        BY <3>1, <2>1, <2>3 DEF packVars, SeenInv, AuditedInv, EndInv
    <2>6. CASE /\ Gone \notin {pack[d].file["protocol"], pack[d].file["manifest"]}
               /\ ~AuditCommandFails(pack[d])
      <3>1. gate' = [gate EXCEPT !.checked = @ \cup {d}, !.at = "sums"]
        BY <2>2, <2>6
      <3>2. Intact(pack[d])
        BY <2>6, AuditedIsIntact DEF AuditCommandFails
      <3>3. AuditedInv'
        BY <3>1, <3>2, <2>1, OneFirst DEF packVars, AuditedInv
      <3> QED
        BY <3>1, <3>3, <2>1, <2>3 DEF packVars, SeenInv, EndInv
    <2> QED
      BY <2>4, <2>5, <2>6
  <1>3. CASE GateSums
    <2>1. UNCHANGED packVars /\ gate.at = "sums"
      BY <1>3 DEF GateSums
    <2>2. PICK d \in First(gate.todo) :
            \E F \in {gate.failed, gate.failed \cup {d}} :
              gate' = [gate EXCEPT !.at = "check", !.todo = @ \ {d}, !.failed = F]
      BY <1>3 DEF GateSums
    <2>3. d \in gate.todo
      BY DEF First
    <2>4. d \in gate.checked /\ (d \in quiet => Intact(pack[d]))
      BY <2>1 DEF AuditedInv
    <2>5. PICK F \in {gate.failed, gate.failed \cup {d}} :
            gate' = [gate EXCEPT !.at = "check", !.todo = @ \ {d}, !.failed = F]
      BY <2>2
    <2>6. GateTypeOK'
      BY <2>1, <2>3, <2>4, <2>5 DEF packVars
    <2> QED
      BY <2>1, <2>3, <2>4, <2>5, <2>6 DEF packVars, SeenInv, AuditedInv, EndInv
  <1>4. CASE GateEnd
    BY <1>4 DEF GateEnd, packVars, SeenInv, AuditedInv, EndInv
  <1>5. CASE ChangePackage /\ UNCHANGED gate
    BY <1>5, ChangeKeepsGateInv
  <1>6. CASE UNCHANGED gateVars
    BY <1>6 DEF gateVars, SeenInv, AuditedInv, EndInv
  <1> QED
    BY <1>1, <1>2, <1>3, <1>4, <1>5, <1>6 DEF GateNext, RunGate

LEMMA GateInductive == GateSpec => []GateIInv
  BY GateInitInv, GateNextKeepsInv, PTL DEF GateSpec

\* Every reachable state of the gate (validate_artifacts.sh) is well typed:
\* only packs it counted can have failed.
THEOREM GateTypeCorrect == GateSpec => []GateTypeOK
  <1>1. GateIInv => GateTypeOK
    BY DEF GateIInv
  <1> QED
    BY GateInductive, <1>1, PTL

\* The gate's OK (validate_artifacts.sh:44) means that every pack it could
\* see, and that nobody touched meanwhile, is intact.
THEOREM GateIsSound == GateSpec => []GateSound
  <1>1. GateIInv => GateSound
    BY DEF GateIInv, SeenInv, EndInv, GateSound, IsPack
  <1> QED
    BY GateInductive, <1>1, PTL

-----------------------------------------------------------------------------
(* The inductive invariant of any launchers, part by part *)

OtherInv ==
  /\ kind \in {"gated", "picking"} /\ foreign \subseteq Card
  /\ deaths \in 0..MaxDeaths /\ jobs \in 0..MaxJobs /\ sweeps \in 0..MaxSweeps

FileInv ==
  /\ file \in [Run -> [log : Nat, records : Nat, metrics : Nat]]
  /\ torn \in [Run -> BOOLEAN] /\ born \in [Run -> Nat]

ScriptInv ==
  /\ at \in [Launcher -> {"poll", "window1", "window2", "skip", "try", "train", "done"}]
  /\ run \in [Launcher -> 1..(NRuns + 1)]
  /\ attempt \in [Launcher -> 1..Attempts]
  /\ \A l \in Launcher : at[l] \in {"try", "train"} => run[l] \in Run

TrainerInv ==
  /\ trainer \in [Launcher ->
       [at : {"none", "started", "loading", "training", "records", "metrics"},
        run : Nat, card : Card, id : Nat]]
  /\ \A l \in Launcher :
       \/ trainer[l] = NoTrainer
       \/ trainer[l].at # "none" /\ trainer[l].id > 0 /\ at[l] \notin {"skip", "try"}

\* How many trainers the attempts of l at its run can have started so far.
Begun(l) == IF at[l] = "train" THEN attempt[l] ELSE attempt[l] - 1

\* Where a script stands in its matrix: the trainers it has started for the
\* runs behind it, for the run it is at, and for those to come.  A gated one
\* starts one with every attempt.
TriedAt(l, r) ==
  /\ r < run[l] /\ ~HasMetrics(r) /\ kind = "gated" => tried[l][r] = Attempts
  /\ r = run[l] => /\ tried[l][r] <= Begun(l)
                   /\ kind = "gated" => tried[l][r] = Begun(l)
  /\ r > run[l] => tried[l][r] = 0

Active(l) == at[l] \in {"skip", "try", "train"}

TriedInv ==
  /\ tried \in [Launcher -> [Run -> 0..Attempts]]
  /\ \A l \in Launcher, r \in Run : Active(l) => TriedAt(l, r)

LaunchersInv == OtherInv /\ FileInv /\ ScriptInv /\ TrainerInv /\ TriedInv

LEMMA InitHolds == Init => LaunchersInv
<1> SUFFICES ASSUME Init PROVE LaunchersInv
  OBVIOUS
<1> USE MatrixAssumption DEF MatrixAssumption, Init, Run
<1>1. OtherInv
  BY DEF OtherInv
<1>2. FileInv
  BY DEF FileInv, NoFile
<1>3. ScriptInv
  <2>1. at \in [Launcher -> {"poll", "skip", "done"}]
    OBVIOUS
  <2>2. run \in [Launcher -> 1..(NRuns + 1)] /\ attempt \in [Launcher -> 1..Attempts]
    OBVIOUS
  <2> QED
    BY ONLY <2>1, <2>2 DEF ScriptInv
<1>4. TrainerInv
  BY DEF TrainerInv, NoTrainer, Fixed
<1>5. TriedInv
  BY DEF TriedInv, TriedAt, Begun, Active
<1> QED
  BY <1>1, <1>2, <1>3, <1>4, <1>5 DEF LaunchersInv

LEMMA OtherKept == OtherInv /\ [Next]_vars => OtherInv'
<1> SUFFICES ASSUME OtherInv, [Next]_vars PROVE OtherInv'
  OBVIOUS
<1> USE MatrixAssumption DEF MatrixAssumption, OtherInv, counters
<1>1. ASSUME NEW l \in Launcher, Script(l) PROVE OtherInv'
  BY <1>1 DEF Script, Finish, Poll, Skip, EndMatrix, Wait, Launch, Check
<1>2. ASSUME NEW l \in Launcher, Sweep(l) PROVE OtherInv'
  BY <1>2 DEF Sweep
<1>3. ASSUME NEW l \in Launcher, Train(l) PROVE OtherInv'
  BY <1>3 DEF Train, Wipe, Load, Export, OpenMetrics, WriteMetrics
<1>4. ASSUME NEW l \in Launcher, TrainerDies(l) \/ MatrixDies(l) PROVE OtherInv'
  <2>1. Dies /\ UNCHANGED <<kind, foreign>>
    BY <1>4 DEF TrainerDies, MatrixDies
  <2>2. deaths' \in 0..MaxDeaths /\ UNCHANGED <<jobs, sweeps>>
    BY ONLY <2>1, MatrixAssumption, OtherInv DEF Dies, MatrixAssumption, OtherInv
  <2> QED
    BY <2>1, <2>2
<1>5. CASE JobStarts
  <2>1. foreign' \subseteq Card
    BY <1>5 DEF JobStarts
  <2>2. jobs' \in 0..MaxJobs /\ UNCHANGED <<kind, deaths, sweeps>>
    BY <1>5 DEF JobStarts
  <2> QED
    BY <2>1, <2>2
<1>6. CASE JobEnds
  BY <1>6 DEF JobEnds
<1>7. CASE UNCHANGED vars
  BY <1>7 DEF vars
<1> QED
  BY <1>1, <1>2, <1>3, <1>4, <1>5, <1>6, <1>7 DEF Next

\* A write changes one entry of one directory.
LEMMA WriteKeepsType ==
  ASSUME file \in [Run -> [log : Nat, records : Nat, metrics : Nat]],
         NEW l \in Launcher, trainer[l].id \in Nat,
         NEW f \in {"log", "records", "metrics"}, Writes(l, f)
  PROVE  file' \in [Run -> [log : Nat, records : Nat, metrics : Nat]]
<1>1. ASSUME NEW g \in [log : Nat, records : Nat, metrics : Nat]
      PROVE  [g EXCEPT ![f] = trainer[l].id] \in [log : Nat, records : Nat, metrics : Nat]
  <2>1. CASE f = "log"
    BY <2>1
  <2>2. CASE f = "records"
    BY <2>2
  <2>3. CASE f = "metrics"
    BY <2>3
  <2> QED
    BY <2>1, <2>2, <2>3
<1>2. file' = [file EXCEPT ![trainer[l].run] = [@ EXCEPT ![f] = trainer[l].id]]
  BY DEF Writes
<1> QED
  BY <1>1, <1>2

LEMMA FileKept == FileInv /\ TrainerInv /\ [Next]_vars => FileInv'
<1> SUFFICES ASSUME FileInv, TrainerInv, [Next]_vars PROVE FileInv'
  OBVIOUS
<1> USE DEF FileInv, result
<1>1. ASSUME NEW l \in Launcher, Launch(l) PROVE FileInv'
  <2>1. UNCHANGED <<file, torn>> /\ born' = [born EXCEPT ![run[l]] = @ + 1]
    BY <1>1 DEF Launch
  <2>2. born' \in [Run -> Nat]
    <3>1. born' = [r \in Run |-> IF r = run[l] THEN born[r] + 1 ELSE born[r]]
      BY <2>1
    <3> QED
      BY <3>1
  <2> QED
    BY <2>1, <2>2
<1>2. ASSUME NEW l \in Launcher, Script(l), ~Launch(l) PROVE FileInv'
  BY <1>2 DEF Script, Finish, Poll, Skip, EndMatrix, Wait, Check
<1>3. ASSUME NEW l \in Launcher, Train(l) PROVE FileInv'
  <2>1. trainer[l].id \in Nat
    BY DEF TrainerInv
  <2>2. file' = file \/ \E f \in {"log", "records", "metrics"} : Writes(l, f)
    BY <1>3 DEF Train, Wipe, Load, Export, OpenMetrics, WriteMetrics
  <2>3. file' \in [Run -> [log : Nat, records : Nat, metrics : Nat]]
    BY <2>1, <2>2, WriteKeepsType
  <2>4. torn' \in [Run -> BOOLEAN] /\ born' = born
    BY <1>3 DEF Train, Wipe, Load, Export, OpenMetrics, WriteMetrics
  <2> QED
    BY <2>3, <2>4
<1>4. ASSUME NEW l \in Launcher, Sweep(l) \/ TrainerDies(l) \/ MatrixDies(l) PROVE FileInv'
  BY <1>4 DEF Sweep, TrainerDies, MatrixDies
<1>5. CASE JobStarts \/ JobEnds
  BY <1>5 DEF JobStarts, JobEnds
<1>6. CASE UNCHANGED vars
  BY <1>6 DEF vars
<1> QED
  BY <1>1, <1>2, <1>3, <1>4, <1>5, <1>6 DEF Next

LEMMA ScriptKept == ScriptInv /\ [Next]_vars => ScriptInv'
<1> SUFFICES ASSUME ScriptInv, [Next]_vars PROVE ScriptInv'
  OBVIOUS
<1> USE MatrixAssumption DEF MatrixAssumption, ScriptInv, Goes, GoesTo, launcher, Run
<1>1. ASSUME NEW l \in Launcher, Poll(l) PROVE ScriptInv'
  <2>1. \E to \in {"poll", "window1", "window2", "skip"} : Goes(l, to)
    <3> DEFINE to == IF Occupied # {} THEN "poll" ELSE Polls[at[l]]
    <3>1. at[l] \in DOMAIN Polls /\ Goes(l, to)
      BY <1>1 DEF Poll
    <3>2. to \in {"poll", "window1", "window2", "skip"}
      BY <3>1 DEF Polls
    <3> QED
      BY <3>1, <3>2
  <2>2. (run' = run /\ attempt' = attempt) \/ GoesTo(l, 1)
    BY <1>1 DEF Poll, BeginMatrix
  <2>3. at[l] \in {"poll", "window1", "window2"}
    BY <1>1 DEF Poll, Polls
  <2> QED
    BY <2>1, <2>2, <2>3
<1>2. ASSUME NEW l \in Launcher, NextAttempt(l), at[l] \in {"try", "train"} PROVE ScriptInv'
  BY <1>2 DEF NextAttempt
<1>3. ASSUME NEW l \in Launcher, Check(l) PROVE ScriptInv'
  BY <1>2, <1>3 DEF Check
<1>4. ASSUME NEW l \in Launcher, Finish(l) \/ Skip(l) \/ EndMatrix(l) PROVE ScriptInv'
  BY <1>4 DEF Finish, Skip, EndMatrix
<1>5. ASSUME NEW l \in Launcher, Wait(l) \/ Launch(l) PROVE ScriptInv'
  BY <1>2, <1>5 DEF Wait, Launch
<1>6. ASSUME NEW l \in Launcher, Sweep(l) PROVE ScriptInv'
  BY <1>6 DEF Sweep, BeginMatrix
<1>7. ASSUME NEW l \in Launcher, Train(l) PROVE ScriptInv'
  BY <1>7 DEF Train, Wipe, Load, Export, OpenMetrics, WriteMetrics
<1>8. ASSUME NEW l \in Launcher, TrainerDies(l) \/ MatrixDies(l) PROVE ScriptInv'
  BY <1>8 DEF TrainerDies, MatrixDies
<1>9. CASE JobStarts \/ JobEnds \/ UNCHANGED vars
  BY <1>9 DEF JobStarts, JobEnds, vars
<1> QED
  BY <1>1, <1>3, <1>4, <1>5, <1>6, <1>7, <1>8, <1>9 DEF Next, Script

LEMMA TrainerKept == FileInv /\ ScriptInv /\ TrainerInv /\ [Next]_vars => TrainerInv'
<1> SUFFICES ASSUME FileInv, ScriptInv, TrainerInv, [Next]_vars PROVE TrainerInv'
  OBVIOUS
<1> USE DEF TrainerInv, ScriptInv, Goes, launcher
<1>1. ASSUME NEW l \in Launcher, Finish(l) \/ EndMatrix(l) PROVE TrainerInv'
  BY <1>1 DEF Finish, EndMatrix
<1>2. ASSUME NEW l \in Launcher, Poll(l) PROVE TrainerInv'
  <2> DEFINE to == IF Occupied # {} THEN "poll" ELSE Polls[at[l]]
  <2>1. at[l] \in DOMAIN Polls /\ Goes(l, to) /\ trainer' = trainer
    BY <1>2 DEF Poll
  <2>2. CASE to = "skip"
    <3>1. at[l] = "window2" /\ Occupied = {}
      BY <2>1, <2>2 DEF Polls
    <3>2. trainer[l].at \in Unseen
      <4>1. ASSUME trainer[l].at \notin Unseen PROVE trainer[l].card \in Occupied
        BY <4>1 DEF Occupied
      <4> QED
        BY <3>1, <4>1
    <3>3. trainer[l].at \notin {"started", "loading"}
      BY <1>2, <3>1 DEF Poll
    <3>4. trainer[l] = NoTrainer
      BY <3>2, <3>3 DEF Unseen
    <3> QED
      BY <2>1, <3>4
  <2>3. CASE to # "skip"
    <3>1. to # "try"
      BY <2>1 DEF Polls
    <3> QED
      BY <2>1, <2>3, <3>1
  <2> QED
    BY <2>2, <2>3
<1>3. ASSUME NEW l \in Launcher, Skip(l) \/ Wait(l) PROVE TrainerInv'
  BY <1>3 DEF Skip, Wait, NextAttempt
<1>4. ASSUME NEW l \in Launcher, Launch(l) PROVE TrainerInv'
  <2>1. PICK c \in Card : trainer' = [trainer EXCEPT ![l] =
          [at |-> "started", run |-> run[l], card |-> c, id |-> born[run[l]] + 1]]
    BY <1>4 DEF Launch
  <2>2. run[l] \in Run /\ Goes(l, "train")
    BY <1>4 DEF Launch
  <2>3. born[run[l]] \in Nat /\ run[l] \in Nat
    BY <2>2 DEF FileInv, Run
  <2> QED
    BY <2>1, <2>2, <2>3
<1>5. ASSUME NEW l \in Launcher, Check(l) PROVE TrainerInv'
  BY <1>5 DEF Check, NextAttempt
<1>6. ASSUME NEW l \in Launcher, Sweep(l) PROVE TrainerInv'
  BY <1>6 DEF Sweep
<1>7. ASSUME NEW l \in Launcher, Train(l) PROVE TrainerInv'
  <2>1. NoTrainer \in [at : {"none"}, run : Nat, card : Card, id : Nat]
    BY MatrixAssumption DEF NoTrainer, Fixed, MatrixAssumption
  <2>2. trainer[l] # NoTrainer
    BY <1>7 DEF Train, Wipe, Load, Export, OpenMetrics, WriteMetrics, Moves, NoTrainer
  <2>3. \/ trainer' = [trainer EXCEPT ![l] = NoTrainer]
        \/ \E to \in {"loading", "training", "records", "metrics"} :
             trainer' = [trainer EXCEPT ![l].at = to]
    BY <1>7 DEF Train, Wipe, Load, Export, OpenMetrics, WriteMetrics, Moves
  <2>4. at' = at
    BY <1>7 DEF Train, Wipe, Load, Export, OpenMetrics, WriteMetrics
  <2> QED
    BY <2>1, <2>2, <2>3, <2>4
<1>8. ASSUME NEW l \in Launcher, TrainerDies(l) \/ MatrixDies(l) PROVE TrainerInv'
  <2>1. NoTrainer \in [at : {"none"}, run : Nat, card : Card, id : Nat]
    BY MatrixAssumption DEF NoTrainer, Fixed, MatrixAssumption
  <2> QED
    BY <1>8, <2>1 DEF TrainerDies, MatrixDies
<1>9. CASE JobStarts \/ JobEnds \/ UNCHANGED vars
  BY <1>9 DEF JobStarts, JobEnds, vars
<1> QED
  BY <1>1, <1>2, <1>3, <1>4, <1>5, <1>6, <1>7, <1>8, <1>9 DEF Next, Script

\* Nothing removes metrics.
LEMMA MetricsStay ==
  ASSUME FileInv, TrainerInv, [Next]_vars, NEW r \in Run, HasMetrics(r)
  PROVE  HasMetrics(r)'
<1> USE DEF HasMetrics, result
<1>1. ASSUME NEW l \in Launcher, Train(l) PROVE HasMetrics(r)'
  <2>1. trainer[l].id # 0
    BY <1>1 DEF Train, Wipe, Load, Export, OpenMetrics, WriteMetrics, Moves, TrainerInv, NoTrainer
  <2>2. file' = file \/ \E f \in {"log", "records", "metrics"} : Writes(l, f)
    BY <1>1 DEF Train, Wipe, Load, Export, OpenMetrics, WriteMetrics
  <2> QED
    BY <2>1, <2>2 DEF Writes, FileInv
<1>2. ASSUME NEW l \in Launcher, Script(l) \/ Sweep(l) PROVE HasMetrics(r)'
  BY <1>2 DEF Script, Finish, Poll, Skip, EndMatrix, Wait, Launch, Check, Sweep
<1>3. ASSUME NEW l \in Launcher, TrainerDies(l) \/ MatrixDies(l) PROVE HasMetrics(r)'
  BY <1>3 DEF TrainerDies, MatrixDies
<1>4. CASE JobStarts \/ JobEnds \/ UNCHANGED vars
  BY <1>4 DEF JobStarts, JobEnds, vars
<1> QED
  BY <1>1, <1>2, <1>3, <1>4 DEF Next

LEMMA TriedKept ==
  OtherInv /\ FileInv /\ ScriptInv /\ TrainerInv /\ TriedInv /\ [Next]_vars => TriedInv'
<1> SUFFICES ASSUME OtherInv, FileInv, ScriptInv, TrainerInv, TriedInv, [Next]_vars
             PROVE  TriedInv'
  OBVIOUS
<1> USE MatrixAssumption DEF MatrixAssumption, ScriptInv, launcher
<1>1. \A r \in Run : HasMetrics(r) => HasMetrics(r)'
  BY MetricsStay
<1>0. kind' = kind
  <2>1. ASSUME NEW l \in Launcher, Script(l) PROVE kind' = kind
    BY <2>1 DEF Script, Finish, Poll, Skip, EndMatrix, Wait, Launch, Check
  <2>2. ASSUME NEW l \in Launcher, Sweep(l) \/ Train(l) \/ TrainerDies(l) \/ MatrixDies(l)
        PROVE  kind' = kind
    BY <2>2 DEF Sweep, Train, Wipe, Load, Export, OpenMetrics, WriteMetrics, TrainerDies, MatrixDies
  <2> QED
    BY <2>1, <2>2 DEF Next, JobStarts, JobEnds, vars
\* A script that stands still, whoever steps.
<1>2. ASSUME NEW l \in Launcher, at'[l] = at[l], run'[l] = run[l], attempt'[l] = attempt[l],
             tried'[l] = tried[l], Active(l)
      PROVE  \A r \in Run : TriedAt(l, r)'
  BY <1>0, <1>1, <1>2 DEF TriedInv, TriedAt, Begun
\* So it is enough to look at the script that steps.
<1>3. ASSUME NEW l \in Launcher,
             \A m \in Launcher \ {l} : /\ at'[m] = at[m] /\ run'[m] = run[m]
                                       /\ attempt'[m] = attempt[m] /\ tried'[m] = tried[m],
             tried' \in [Launcher -> [Run -> 0..Attempts]],
             Active(l)' => \A r \in Run : TriedAt(l, r)'
      PROVE  TriedInv'
  BY <1>2, <1>3 DEF TriedInv, Active
<1>4. ASSUME launcher' = launcher, tried' = tried PROVE TriedInv'
  BY <1>2, <1>4 DEF TriedInv, Active
<1>5. ASSUME NEW l \in Launcher, BeginMatrix(l), Goes(l, "skip") PROVE TriedInv'
  <2>1. /\ run'[l] = 1 /\ attempt'[l] = 1 /\ at'[l] = "skip" /\ tried'[l] = [r \in Run |-> 0]
        /\ tried' \in [Launcher -> [Run -> 0..Attempts]]
    BY <1>5 DEF BeginMatrix, GoesTo, Goes, TriedInv
  <2>2. \A r \in Run : TriedAt(l, r)'
    BY <2>1 DEF TriedAt, Begun, Run
  <2> QED
    BY <1>3, <1>5, <2>1, <2>2 DEF BeginMatrix, GoesTo, Goes
\* On to the next run, from one with metrics or one that has been fully tried.
<1>6. ASSUME NEW l \in Launcher, Active(l), tried' = tried, GoesTo(l, run[l] + 1),
             run[l] \in Run, kind = "gated" => HasMetrics(run[l]) \/ tried[l][run[l]] = Attempts,
             at'[l] = "skip", \A m \in Launcher \ {l} : at'[m] = at[m]
      PROVE  TriedInv'
  <2>1. run'[l] = run[l] + 1 /\ attempt'[l] = 1 /\ run[l] \in Int
    BY <1>6 DEF GoesTo, Run
  <2>2. \A r \in Run : TriedAt(l, r)'
    <3>1. ASSUME NEW r \in Run PROVE TriedAt(l, r)'
      <4>1. TriedAt(l, r) /\ r \in Int
        BY <1>6 DEF TriedInv, Run
      <4> QED
        BY <1>0, <1>1, <1>6, <2>1, <4>1 DEF TriedAt, Begun
    <3> QED
      BY <3>1
  <2>3. tried' \in [Launcher -> [Run -> 0..Attempts]]
    BY <1>6 DEF TriedInv
  <2> QED
    BY <1>3, <1>6, <2>2, <2>3 DEF GoesTo
<1>7. ASSUME NEW l \in Launcher, NextAttempt(l), tried' = tried,
             at[l] = "train" \/ (at[l] = "try" /\ kind = "picking")
      PROVE  TriedInv'
  <2>1. /\ run[l] \in Run /\ attempt[l] \in 1..Attempts /\ Active(l)
        /\ tried[l][run[l]] <= attempt[l]
        /\ kind = "gated" => tried[l][run[l]] = attempt[l]
    BY <1>7 DEF TriedInv, TriedAt, Begun, Active, Run
  <2>2. CASE attempt[l] < Attempts
    <3>1. run' = run /\ attempt'[l] = attempt[l] + 1 /\ at'[l] = "try"
      BY <1>7, <2>2 DEF NextAttempt, Goes
    <3>2. ASSUME NEW r \in Run PROVE TriedAt(l, r)'
      <4>1. TriedAt(l, r) /\ attempt'[l] - 1 = attempt[l]
        BY <2>1, <3>1 DEF TriedInv
      <4> QED
        BY <1>0, <1>1, <1>7, <2>1, <3>1, <4>1 DEF TriedAt, Begun
    <3>3. tried' \in [Launcher -> [Run -> 0..Attempts]]
      BY <1>7 DEF TriedInv
    <3> QED
      BY <1>3, <1>7, <2>2, <3>2, <3>3 DEF NextAttempt, Goes
  <2>3. CASE ~(attempt[l] < Attempts)
    <3>1. GoesTo(l, run[l] + 1) /\ Goes(l, "skip") /\ attempt[l] = Attempts
      BY <1>7, <2>1, <2>3 DEF NextAttempt
    <3> QED
      BY <1>6, <1>7, <2>1, <3>1 DEF Goes
  <2> QED
    BY <2>2, <2>3
\* A script that goes elsewhere at the attempt it is at.
<1>8. ASSUME NEW l \in Launcher, UNCHANGED <<run, attempt, tried>>,
             \E to : Goes(l, to) /\ to # "train" /\ (Active(l)' => at[l] = "skip")
      PROVE  TriedInv'
  <2>1. PICK to : Goes(l, to) /\ to # "train" /\ (Active(l)' => at[l] = "skip")
    BY <1>8
  <2>2. at'[l] = to /\ \A m \in Launcher \ {l} : at'[m] = at[m]
    BY <2>1 DEF Goes
  <2>3. Active(l)' => \A r \in Run : TriedAt(l, r)'
    BY <1>0, <1>1, <1>8, <2>1, <2>2 DEF TriedInv, TriedAt, Begun, Active
  <2>4. tried' \in [Launcher -> [Run -> 0..Attempts]]
    BY <1>8 DEF TriedInv
  <2> QED
    BY <1>3, <1>8, <2>2, <2>3, <2>4
<1>9. ASSUME NEW l \in Launcher, Launch(l) PROVE TriedInv'
  <2>1. /\ at[l] = "try" /\ run[l] \in Run /\ attempt[l] \in 1..Attempts
        /\ tried[l][run[l]] \in 0..(attempt[l] - 1)
        /\ kind = "gated" => tried[l][run[l]] = attempt[l] - 1
    BY <1>9 DEF Launch, TriedInv, TriedAt, Begun, Active, Run
  <2>2. /\ run' = run /\ attempt' = attempt /\ Goes(l, "train")
        /\ tried' = [tried EXCEPT ![l] = [@ EXCEPT ![run[l]] = tried[l][run[l]] + 1]]
    BY <1>9 DEF Launch
  <2>3. tried' \in [Launcher -> [Run -> 0..Attempts]]
    <3>1. tried[l][run[l]] + 1 \in 0..Attempts
      BY <2>1
    <3> QED
      BY <2>2, <3>1 DEF TriedInv
  <2>4. tried'[l] = [tried[l] EXCEPT ![run[l]] = tried[l][run[l]] + 1] /\ at'[l] = "train"
    BY <2>2 DEF TriedInv, Goes
  <2>5. ASSUME NEW r \in Run PROVE TriedAt(l, r)'
    <3>1. TriedAt(l, r) /\ r \in Int
      BY <2>1 DEF TriedInv, Active, Run
    <3>2. tried[l] \in [Run -> 0..Attempts]
      BY DEF TriedInv
    <3>3. CASE r = run[l]
      <4>1. tried'[l][r] = tried[l][r] + 1
        BY <2>4, <3>2, <3>3
      <4> QED
        BY <1>0, <2>1, <2>2, <2>4, <3>1, <3>3, <4>1 DEF TriedAt, Begun, Run
    <3>4. CASE r # run[l]
      <4>1. tried'[l][r] = tried[l][r]
        BY <2>4, <3>2, <3>4
      <4> QED
        BY <1>0, <1>1, <2>2, <3>1, <3>4, <4>1 DEF TriedAt
    <3> QED
      BY <3>3, <3>4
  <2>6. \A m \in Launcher \ {l} : at'[m] = at[m] /\ tried'[m] = tried[m]
    BY <2>2 DEF Goes, TriedInv
  <2> QED
    BY <1>3, <2>2, <2>3, <2>5, <2>6
<1>10. ASSUME NEW l \in Launcher, Script(l) PROVE TriedInv'
  <2>1. CASE Finish(l) \/ EndMatrix(l)
    BY <1>8, <2>1 DEF Finish, EndMatrix, Active, Goes
  <2>2. CASE Poll(l)
    <3> DEFINE to == IF Occupied # {} THEN "poll" ELSE Polls[at[l]]
    <3>1. /\ at[l] \in DOMAIN Polls /\ Goes(l, to)
          /\ IF to = "skip" THEN BeginMatrix(l) ELSE UNCHANGED <<run, attempt, tried>>
      BY <2>2 DEF Poll
    <3>2. to \in {"poll", "window1", "window2", "skip"}
      BY <3>1 DEF Polls
    <3> HIDE DEF to
    <3>3. CASE to = "skip"
      BY <1>5, <3>1, <3>3
    <3>4. CASE to # "skip"
      <4>1. ~Active(l)'
        BY <3>1, <3>2, <3>4 DEF Goes, Active
      <4> QED
        BY <1>8, <3>1, <3>2, <3>4, <4>1
    <3> QED
      BY <3>3, <3>4
  <2>3. CASE Skip(l)
    <3>1. CASE HasMetrics(run[l])
      BY <1>6, <2>3, <3>1 DEF Skip, Active
    <3>2. CASE ~HasMetrics(run[l])
      BY <1>8, <2>3, <3>2 DEF Skip
    <3> QED
      BY <3>1, <3>2
  <2>4. CASE Wait(l)
    BY <1>7, <2>4 DEF Wait
  <2>5. CASE Launch(l)
    BY <1>9, <2>5
  <2>6. CASE Check(l)
    <3>1. CASE HasMetrics(run[l])
      BY <1>6, <2>6, <3>1 DEF Check, Goes, Active
    <3>2. CASE ~HasMetrics(run[l])
      <4>1. NextAttempt(l) /\ tried' = tried /\ at[l] = "train"
        BY <2>6, <3>2 DEF Check
      <4> QED
        BY <1>7, <4>1
    <3> QED
      BY <3>1, <3>2
  <2> QED
    BY <1>10, <2>1, <2>2, <2>3, <2>4, <2>5, <2>6 DEF Script
<1>11. ASSUME NEW l \in Launcher, Sweep(l) PROVE TriedInv'
  BY <1>5, <1>11 DEF Sweep
<1>12. ASSUME NEW l \in Launcher, Train(l) \/ TrainerDies(l) PROVE TriedInv'
  BY <1>4, <1>12 DEF Train, Wipe, Load, Export, OpenMetrics, WriteMetrics, TrainerDies
<1>13. ASSUME NEW l \in Launcher, MatrixDies(l) PROVE TriedInv'
  BY <1>8, <1>13 DEF MatrixDies, Active, Goes
<1>14. CASE JobStarts \/ JobEnds \/ UNCHANGED vars
  BY <1>4, <1>14 DEF JobStarts, JobEnds, vars
<1> QED
  BY <1>10, <1>11, <1>12, <1>13, <1>14 DEF Next

LEMMA NextHolds == LaunchersInv /\ [Next]_vars => LaunchersInv'
  BY OtherKept, FileKept, ScriptKept, TrainerKept, TriedKept DEF LaunchersInv

LEMMA Launching == Spec => []LaunchersInv
  BY InitHolds, NextHolds, PTL DEF Spec

\* Every reachable state of the launchers is well typed, and none has a
\* trainer alive while it is about to start one (run_gated_matrix.sh:24-37).
THEOREM TypeCorrect == Spec => []TypeOK
<1>1. LaunchersInv => TypeOK
  BY DEF LaunchersInv, OtherInv, FileInv, ScriptInv, TrainerInv, TriedInv, TypeOK
<1> QED
  BY <1>1, Launching, PTL

\* A gated matrix gives a run up only after a trainer for each of its attempts,
\* for any number of them and whatever dies (run_matrix.sh:7-8).
THEOREM GatedGivesUpLast == Spec => []GatedTriesAll
<1>1. LaunchersInv => GatedTriesAll
  <2> SUFFICES ASSUME LaunchersInv, kind = "gated", NEW l \in Launcher, NEW r \in LeftBehind(l)
               PROVE  tried[l][r] = Attempts
    BY DEF GatedTriesAll, FullyTried
  <2>1. Active(l) /\ r \in 1..(run[l] - 1) /\ ~HasMetrics(r)
    BY DEF LeftBehind, Active
  <2>2. r \in Run /\ r < run[l]
    BY <2>1, MatrixAssumption DEF LaunchersInv, ScriptInv, Run, MatrixAssumption
  <2> QED
    BY <2>1, <2>2 DEF LaunchersInv, TriedInv, TriedAt
<1> QED
  BY <1>1, Launching, PTL

-----------------------------------------------------------------------------
(* One launcher in a directory of its own *)

OneLauncher == \A l, m \in Launcher : l = m

\* What a trainer that is alive has written, and that it is the last one.
TrainerWrote(t) ==
  /\ t.run \in Run /\ t.id = born[t.run]
  /\ t.at \in {"loading", "training", "records", "metrics"} => file[t.run].log = t.id
  /\ t.at \in {"records", "metrics"} => file[t.run].records = t.id
  /\ IF t.at = "metrics" THEN torn[t.run] ELSE ~HasMetrics(t.run)

ResultInv ==
  /\ ExportsMatch
  /\ \A l \in Launcher :
       /\ at[l] = "try" => ~HasMetrics(run[l])
       /\ trainer[l] # NoTrainer => TrainerWrote(trainer[l])

LEMMA InitResult == Init => ResultInv
  BY DEF Init, ResultInv, ExportsMatch, HasMetrics, NoFile, NoTrainer

\* A step that leaves directories and trainers alone, or kills a trainer.
LEMMA ResultUntouched ==
  ASSUME ResultInv, UNCHANGED <<file, torn, born>>,
         \A l \in Launcher : trainer'[l] \in {trainer[l], NoTrainer},
         \A l \in Launcher : at'[l] = "try" => ~HasMetrics(run'[l])
  PROVE  ResultInv'
  BY DEF ResultInv, ExportsMatch, HasMetrics, TrainerWrote

LEMMA ResultKept ==
  ASSUME OneLauncher, LaunchersInv, ResultInv, [Next]_vars
  PROVE  ResultInv'
<1> USE DEF LaunchersInv, launcher, result
<1>1. ASSUME NEW l \in Launcher, Script(l), ~Launch(l) PROVE ResultInv'
  <2>1. UNCHANGED <<file, torn, born, trainer>>
    BY <1>1 DEF Script, Finish, Poll, Skip, EndMatrix, Wait, Check
  <2>2. at'[l] = "try" => ~HasMetrics(run'[l])
    BY <1>1 DEF Script, Finish, Poll, Polls, Skip, EndMatrix, Wait, Check, NextAttempt, Goes,
       GoesTo, ScriptInv, ResultInv
  <2> QED
    BY <2>1, <2>2, ResultUntouched DEF OneLauncher
<1>2. ASSUME NEW l \in Launcher, Launch(l) PROVE ResultInv'
  <2>1. run[l] \in Run /\ ~HasMetrics(run[l])
    BY <1>2 DEF Launch, ScriptInv, ResultInv
  <2>2. UNCHANGED <<file, torn>> /\ born' = [born EXCEPT ![run[l]] = @ + 1]
    BY <1>2 DEF Launch
  <2>3. \E c : trainer' = [trainer EXCEPT ![l] =
          [at |-> "started", run |-> run[l], card |-> c, id |-> born[run[l]] + 1]]
    BY <1>2 DEF Launch
  <2>4. trainer'[l].run = run[l] /\ trainer'[l].at = "started" /\ trainer'[l].id = born'[run[l]]
    BY <2>1, <2>2, <2>3 DEF TrainerInv, FileInv
  <2>5. TrainerWrote(trainer[l])'
    BY <2>1, <2>2, <2>4 DEF TrainerWrote, HasMetrics
  <2>6. ExportsMatch'
    BY <2>1, <2>2 DEF ResultInv, ExportsMatch, HasMetrics, FileInv
  <2>7. at'[l] # "try"
    BY <1>2 DEF Launch, Goes, ScriptInv
  <2> QED
    BY <2>5, <2>6, <2>7 DEF ResultInv, OneLauncher
<1>3. ASSUME NEW l \in Launcher, Train(l) PROVE ResultInv'
  <2> DEFINE t == trainer[l]
  <2>1. TrainerWrote(t) /\ t.id \in Nat /\ t.id # 0 /\ at[l] # "try"
    BY <1>3 DEF Train, Wipe, Load, Export, OpenMetrics, WriteMetrics, Moves, NoTrainer,
       ResultInv, TrainerInv
  <2>2. at' = at /\ born' = born
    BY <1>3 DEF Train, Wipe, Load, Export, OpenMetrics, WriteMetrics
  <2>3. ASSUME ExportsMatch', trainer'[l] # NoTrainer => TrainerWrote(trainer[l])'
        PROVE  ResultInv'
    BY <2>1, <2>2, <2>3 DEF ResultInv, OneLauncher
  <2>4. ASSUME NEW f \in {"log", "records", "metrics"}, Writes(l, f)
        PROVE  /\ file'[t.run] = [file[t.run] EXCEPT ![f] = t.id]
               /\ \A r \in Run : r # t.run => file'[r] = file[r]
    BY <2>1, <2>4 DEF Writes, FileInv, TrainerWrote
  <2>5. ASSUME NEW to, Moves(l, t.at, to) PROVE trainer'[l] = [t EXCEPT !.at = to]
    BY <2>5 DEF Moves, TrainerInv
  <2>6. file[t.run] \in [log : Nat, records : Nat, metrics : Nat]
    BY <2>1 DEF FileInv, TrainerWrote
  <2> HIDE DEF t
  <2>7. CASE Wipe(l)
    <3>1. /\ t.at = "started" /\ trainer'[l] = [t EXCEPT !.at = "loading"]
          /\ file'[t.run] = [file[t.run] EXCEPT !.log = t.id] /\ torn' = torn
          /\ \A r \in Run : r # t.run => file'[r] = file[r]
      BY <2>4, <2>5, <2>7 DEF Wipe, Moves, t
    <3> QED
      BY <2>1, <2>2, <2>3, <2>6, <3>1 DEF TrainerWrote, ResultInv, ExportsMatch, HasMetrics
  <2>8. CASE Load(l)
    <3>1. t.at = "loading" /\ trainer'[l] = [t EXCEPT !.at = "training"]
      BY <2>5, <2>8 DEF Load, Moves, t
    <3>2. file' = file /\ torn' = torn
      BY <2>8 DEF Load
    <3> QED
      BY <2>1, <2>2, <2>3, <3>1, <3>2 DEF TrainerWrote, ResultInv, ExportsMatch, HasMetrics
  <2>9. CASE Export(l)
    <3>1. /\ t.at = "training" /\ trainer'[l] = [t EXCEPT !.at = "records"]
          /\ file'[t.run] = [file[t.run] EXCEPT !.records = t.id] /\ torn' = torn
          /\ \A r \in Run : r # t.run => file'[r] = file[r]
      BY <2>4, <2>5, <2>9 DEF Export, Moves, t
    <3> QED
      BY <2>1, <2>2, <2>3, <2>6, <3>1 DEF TrainerWrote, ResultInv, ExportsMatch, HasMetrics
  <2>10. CASE OpenMetrics(l)
    <3>1. /\ t.at = "records" /\ trainer'[l] = [t EXCEPT !.at = "metrics"]
          /\ file'[t.run] = [file[t.run] EXCEPT !.metrics = t.id]
          /\ torn' = [torn EXCEPT ![t.run] = TRUE]
          /\ \A r \in Run : r # t.run => file'[r] = file[r]
      BY <2>4, <2>5, <2>10 DEF OpenMetrics, Moves, t
    <3>2. torn'[t.run]
      BY <2>1, <3>1 DEF FileInv, TrainerWrote
    <3> QED
      BY <2>1, <2>2, <2>3, <2>6, <3>1, <3>2 DEF TrainerWrote, ResultInv, ExportsMatch, HasMetrics
  <2>11. CASE WriteMetrics(l)
    <3>1. /\ t.at = "metrics" /\ trainer'[l] = NoTrainer
          /\ file'[t.run] = [file[t.run] EXCEPT !.metrics = t.id]
          /\ \A r \in Run : r # t.run => file'[r] = file[r]
      BY <2>4, <2>11 DEF WriteMetrics, TrainerInv, t
    <3> QED
      BY <2>1, <2>2, <2>3, <2>6, <3>1 DEF TrainerWrote, ResultInv, ExportsMatch, HasMetrics
  <2> QED
    BY <1>3, <2>7, <2>8, <2>9, <2>10, <2>11 DEF Train
<1>4. ASSUME NEW l \in Launcher, Sweep(l) \/ TrainerDies(l) \/ MatrixDies(l) PROVE ResultInv'
  <2>1. UNCHANGED <<file, torn, born>>
    BY <1>4 DEF Sweep, TrainerDies, MatrixDies
  <2>2. \A m \in Launcher : trainer'[m] \in {trainer[m], NoTrainer}
    BY <1>4 DEF Sweep, TrainerDies, MatrixDies, TrainerInv
  <2>3. at'[l] = "try" => ~HasMetrics(run'[l])
    BY <1>4 DEF Sweep, TrainerDies, MatrixDies, Goes, ScriptInv, ResultInv
  <2> QED
    BY <2>1, <2>2, <2>3, ResultUntouched DEF OneLauncher
<1>5. CASE JobStarts \/ JobEnds \/ UNCHANGED vars
  BY <1>5, ResultUntouched DEF JobStarts, JobEnds, vars, ResultInv
<1> QED
  BY <1>1, <1>2, <1>3, <1>4, <1>5 DEF Next

LEMMA OneLaunching == ASSUME OneLauncher PROVE Spec => [](LaunchersInv /\ ResultInv)
<1>1. LaunchersInv /\ ResultInv /\ [Next]_vars => (LaunchersInv /\ ResultInv)'
  BY NextHolds, ResultKept
<1> QED
  BY <1>1, InitHolds, InitResult, PTL DEF Spec

\* What stands beside a metrics.json is of the trainer that wrote it, and no
\* trainer was started in that directory since (train.py:803-809).
THEOREM ExportsAreOfOneTrainer == ASSUME OneLauncher PROVE Spec => []ExportsMatch
<1>1. ResultInv => ExportsMatch
  BY DEF ResultInv
<1> QED
  BY <1>1, OneLaunching, PTL

\* No step writes where a trainer has ended well (run_gated_matrix.sh:5-6).
THEOREM FinishedIsFinal == ASSUME OneLauncher PROVE Spec => FinishedStays
<1>1. ASSUME LaunchersInv, ResultInv, Next, NEW r \in Run, HasMetrics(r), ~torn[r]
      PROVE  file'[r] = file[r] /\ ~torn'[r]
  <2>1. ASSUME NEW l \in Launcher, Train(l)
        PROVE  file'[r] = file[r] /\ ~torn'[r]
    <3>1. TrainerWrote(trainer[l]) /\ trainer[l].run # r
      BY <1>1, <2>1 DEF Train, Wipe, Load, Export, OpenMetrics, WriteMetrics, Moves, NoTrainer,
         ResultInv, TrainerWrote
    <3>2. file' = file \/ \E f \in {"log", "records", "metrics"} : Writes(l, f)
      BY <2>1 DEF Train, Wipe, Load, Export, OpenMetrics, WriteMetrics, result
    <3>3. torn' = torn \/ \E b \in BOOLEAN : torn' = [torn EXCEPT ![trainer[l].run] = b]
      BY <2>1 DEF Train, Wipe, Load, Export, OpenMetrics, WriteMetrics, result
    <3> QED
      BY <1>1, <3>1, <3>2, <3>3 DEF Writes, LaunchersInv, FileInv
  <2>2. ASSUME NEW l \in Launcher, Script(l) \/ Sweep(l) \/ TrainerDies(l) \/ MatrixDies(l)
        PROVE  file' = file /\ torn' = torn
    BY <2>2 DEF Script, Finish, Poll, Skip, EndMatrix, Wait, Launch, Check, Sweep, TrainerDies,
       MatrixDies, result
  <2>3. CASE JobStarts \/ JobEnds
    BY <1>1, <2>3 DEF JobStarts, JobEnds, result
  <2> QED
    BY <1>1, <2>1, <2>2, <2>3 DEF Next
<1>2. LaunchersInv /\ ResultInv /\ [Next]_vars =>
        [\A r \in Run : HasMetrics(r) /\ ~torn[r] => file'[r] = file[r] /\ ~torn'[r]]_vars
  BY <1>1
<1> QED
  BY <1>2, OneLaunching, PTL DEF Spec, FinishedStays
=============================================================================
