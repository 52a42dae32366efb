----------------------------- MODULE MCRoleSync -----------------------------
(* The sync engine on the role links of one guild.                         *)
EXTENDS RoleSync, TLC

CONSTANTS w1, w2, l1, lo, hi

Symmetry == Permutations(Workers) \cup Permutations(Facts)
=============================================================================
