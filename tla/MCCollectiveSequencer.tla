----------------------- MODULE MCCollectiveSequencer -----------------------
(* Two ranks and two overlapping groups, the world and a subgroup.         *)
EXTENDS CollectiveSequencer

CONSTANTS r1, r2, world, sub, s1, s2

MCRanks == {r1, r2}
MCGroups == {world, sub}
MCMembers == [g \in MCGroups |-> IF g = world THEN MCRanks ELSE {r1}]
MCSignatures == {s1, s2}
=============================================================================
