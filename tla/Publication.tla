----------------------------- MODULE Publication -----------------------------
(***************************************************************************)
(* What runner.run() promises whoever reads its output directory: there is *)
(* nothing there, or the whole package of one run.  A package appears in   *)
(* one step, is never changed, and a run delivers at most one.             *)
(***************************************************************************)
CONSTANTS Run, PackageKind   \* PackageKind: the sets of files a run can deliver

VARIABLES
  shelf,      \* the set of packages at the output path: empty or a singleton
  delivered   \* the runs that have delivered

vars == <<shelf, delivered>>

\* listed: what the package's SHA256SUMS records, which is all of its files.
Whole(r, kind) == [by |-> {r}, files |-> kind, listed |-> kind]

Init == shelf = {} /\ delivered = {}

Deliver(r, kind) ==
  /\ shelf = {}
  /\ r \notin delivered
  /\ shelf' = {Whole(r, kind)}
  /\ delivered' = delivered \cup {r}

TakeAway ==
  /\ shelf # {}
  /\ shelf' = {}
  /\ UNCHANGED delivered

Next ==
  \/ \E r \in Run, kind \in PackageKind : Deliver(r, kind)
  \/ TakeAway

Spec == Init /\ [][Next]_vars
=============================================================================
