---------------------------- MODULE MCStageMatrix ----------------------------
(* StageMatrix for TLC: two cards. *)
EXTENDS StageMatrix

MCCard == {0, 1}
=============================================================================
