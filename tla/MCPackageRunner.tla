--------------------------- MODULE MCPackageRunner ---------------------------
(* PackageRunner for TLC: MaxRuns invocations at one output directory. *)
EXTENDS PackageRunner
=============================================================================
