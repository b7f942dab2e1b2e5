---------------------------- MODULE MCReleaseIndex ----------------------------
(* ReleaseIndex for TLC: two package directories. *)
EXTENDS ReleaseIndex

MCDir == {1, 2}
=============================================================================
