---------------------------- MODULE MCBestPractice ----------------------------
(* Three assets, one that is critical and one that is created or deleted, a node drawn by
   hand, two transactions at a time and two analyses. *)
EXTENDS BestPractice, TLC

CONSTANTS a1, a2, a3, s1, s2, r1, r2

MCSeedRels == {<<a1, a2>>}
MCCables == {<<a2, a1>>, <<a1, a3>>}
MCSessions == {s1, s2}
MCRuns == {r1, r2}
Symmetry == Permutations(MCSessions) \cup Permutations(MCRuns)
=============================================================================
