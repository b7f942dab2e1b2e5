---------------------------- MODULE MCExactDrivers ----------------------------
(* ExactDrivers for TLC: worlds of two decisions with any 0/1 rewards, and of *)
(* three decisions with rewards built from actions and interactions.         *)
EXTENDS ExactDrivers

World(chance, r(_)) == [chance |-> chance, reward |-> [a \in [1..Len(chance) -> Bit] |-> r(a)]]

MCShortWorlds ==
  {[chance |-> <<3, 1>>, reward |-> r] : r \in [[1..2 -> Bit] -> Bit]}

MCLongWorlds ==
  {World(<<1, 2, 3>>, LAMBDA a : x[1] * a[1] + x[2] * a[2]
                                   + x[3] * a[1] * a[3] - x[4] * a[2] * a[3]) :
     x \in [1..4 -> Bit]}

MCWorlds == MCShortWorlds \cup MCLongWorlds
MCNoise == {1, 3}
=============================================================================
