---------------------------- MODULE MCRuleConfig ----------------------------
(* One role link, two admins.                                              *)
EXTENDS RuleConfig, TLC

CONSTANTS tab1, tab2, any, top

TabSymmetry == Permutations(Tabs)
=============================================================================
