--------------------------- MODULE MCMissionGraph ---------------------------
(* Instances of MissionGraph for TLC: two leaves with overlapping scopes   *)
(* make up a branch that may have an integration oracle.                   *)
EXTENDS MissionGraph

CONSTANTS a, b, m, k1, k2

Leaves2 == {a, b}
PairOverlap == {<<a, b>>, <<b, a>>}
BranchAB == [x \in {m} |-> {a, b}]

OneCriterion == {k1}
OneEach == [l \in Leaf |-> {k1}]
TwoCriteria == {k1, k2}
TwoForA == [l \in Leaf |-> IF l = a THEN {k1, k2} ELSE {k1}]
=============================================================================
