---------------------------- MODULE MCBranchMoments ----------------------------
(* BranchMoments for TLC: general buckets of two decisions, alone and beside  *)
(* one of a single decision, and focal buckets of three with the noise at the *)
(* first and the last.                                                        *)
EXTENDS BranchMoments

Flat(h, x) == [t \in 1..h |-> [s \in Bit |-> x]]

MCGeneral(initials, maps, terminals) ==
  {[horizon |-> 2, initial |-> i, logit |-> <<1, 2, 3>>, map |-> m,
    base |-> Flat(2, 2), offset |-> [t \in 1..2 |-> [s \in Bit |-> s]],
    effect |-> [t \in 1..2 |-> [s \in Bit |-> t]], terminal |-> r, noise |-> {}] :
     i \in initials, m \in maps, r \in terminals}

\* Rewards of which every argument matters; beside the other bucket simpler ones too.
MCMixed ==
  {[k \in Bit \X Bit \X Bit |-> IF k = <<1, 1, 1>> THEN 0 ELSE 1],
   [k \in Bit \X Bit \X Bit |-> IF k[2] = k[3] THEN k[1] ELSE 1]}

MCTerminals ==
  MCMixed \cup {[k \in Bit \X Bit \X Bit |-> k[2]],
               [k \in Bit \X Bit \X Bit |-> (k[1] + k[2] + k[3]) % 2]}

MCOther ==
  [horizon |-> 1, initial |-> 0, logit |-> <<1, 2, 3>>,
   map |-> <<[s \in Bit |-> s + 2]>>,
   base |-> Flat(1, 1), offset |-> Flat(1, 0), effect |-> Flat(1, 2),
   terminal |-> [k \in Bit \X Bit \X Bit |-> IF k = <<0, 1, 1>> THEN 1 ELSE 0], noise |-> {}]

MCFocal ==
  {[horizon |-> 3, initial |-> 0, logit |-> l, map |-> FocalMap(3, d),
    base |-> Flat(3, 2), offset |-> Flat(3, 0), effect |-> Flat(3, 2),
    terminal |-> [k \in Bit \X Bit \X Bit |-> 0], noise |-> {1, 3}] :
     l \in {<<1, 2, 3>>, <<2, 1, 1>>}, d \in [1..3 -> Logit]}

MCSharedProblems ==
  {<<b>> : b \in MCGeneral({0}, GeneralMaps(2), MCMixed \cap TerminalTables)}
  \cup {<<MCOther, b>> :
          b \in MCGeneral(Bit, {<<[s \in Bit |-> s + 1], [s \in Bit |-> s + 2]>>}, MCTerminals)}
  \cup {<<b>> : b \in MCFocal}

\* Buckets of few paths: the reference for root-RLOO enumerates pairs of them.
MCShortProblems == {<<MCOther>>} \cup {<<b>> : b \in MCFocal}
=============================================================================
