------------------------------ MODULE MCDrivers ------------------------------
(* The drivers of the exact layer for TLC, one at a time: M0 or V001, the      *)
(* moments of D002's options, its calibration scan, its runs from calibration *)
(* to test.  The others' variables rest.                                     *)
EXTENDS MCExactDrivers, MCBranchMoments, MCCalibrationScan, MCSelectionLineage

VARIABLE driver

driversVars == <<driverVars, branchVars, scanVars, lineageVars, driver>>

NoScan == objective = [i \in Candidate |-> 0] /\ next = 1 /\ best = NoBest
NoBuckets == problem = <<>> /\ parts = <<>> /\ combined = NoMoments

\* The scan starts at the dense mapping, the cheapest: it leaves it only if its
\* objective is the largest.
DriversInit ==
  /\ DriverInit /\ LineageInit
  /\ \/ driver \in {"exact", "lineage"} /\ NoBuckets /\ NoScan
     \/ driver = "moments" /\ BranchInit /\ NoScan
     \/ driver = "scan" /\ ScanInit /\ objective[1] = 2 /\ NoBuckets
  /\ driver # "exact" => study = "m0"

\* A selection written by hand stays until its package goes: rewritten twice it
\* takes TLC minutes.
WrittenOnce ==
  \A p \in Path : package[p].selection.byHand /\ package'[p] # Absent => UNCHANGED package[p].selection

DriversNext ==
  /\ UNCHANGED driver
  /\ \/ driver = "exact" /\ DriverNext /\ UNCHANGED <<branchVars, scanVars, lineageVars>>
     \/ driver = "moments" /\ BranchNext /\ UNCHANGED <<driverVars, scanVars, lineageVars>>
     \/ driver = "scan" /\ ScanNext /\ UNCHANGED <<driverVars, branchVars, lineageVars>>
     \/ driver = "lineage" /\ LineageNext /\ WrittenOnce /\ UNCHANGED <<driverVars, branchVars, scanVars>>

DriversSpec == DriversInit /\ [][DriversNext]_driversVars
=============================================================================
