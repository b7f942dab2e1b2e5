-------------------------- MODULE MCSelectionLineage --------------------------
(* SelectionLineage for TLC: two calibration manifests, two test manifests;   *)
(* packages appear at either path, selections are read from one.             *)
EXTENDS SelectionLineage

CONSTANTS A, B          \* output paths
CONSTANTS Narrow, Mixed \* a collapsed mapping, and one with two widths

MCPath == {A, B}
MCMapping == {Narrow, Mixed}
MCCollapsed == {Narrow}

Cal1 == [kind |-> "calibration", rows |-> {1}]
Cal2 == [kind |-> "calibration", rows |-> {2}]
Test1 == [kind |-> "test", rows |-> {1, 3}]      \* shares a seed with Cal1
Test3 == [kind |-> "test", rows |-> {3}]

MCCalls ==
  [phase : {"calibration"}, seeds : {<<Cal1>>, <<Cal2>>, <<>>}, from : {NoPath}]
  \cup [phase : {"test"}, seeds : {<<Cal1, Test1>>, <<Cal2, Cal1, Test1>>},
        from : {A}]
  \cup [phase : {"test"}, seeds : {<<Test3>>}, from : {NoPath}]
=============================================================================
