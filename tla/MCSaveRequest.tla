--------------------------- MODULE MCSaveRequest ---------------------------
(***************************************************************************)
(* The two halves of a save's handler that do not touch the row: may this  *)
(* visitor save (Access), and what does his rule mean (MCRuleEval).  They  *)
(* share no state, so that one at a time runs here.                        *)
(***************************************************************************)
EXTENDS MCRuleEval, Access

CONSTANTS la, lb

VARIABLE part

AtRest == /\ clock = 0 /\ skew = 0 /\ keys = 0 /\ longest = 0
          /\ manages = {} /\ managed = [l \in Roles |-> 0]
          /\ signs = [l \in Roles |-> 0] /\ stored = [l \in Roles |-> 0]
          /\ passes = {} /\ sessions = {} /\ asked = {}

NoSave == body = Unconfigured /\ player = Base /\ tree = Unconfigured

MCInit == \/ part = "rule"   /\ Init   /\ AtRest
          \/ part = "access" /\ NoSave /\ AccessInit

MCNext == /\ UNCHANGED part
          /\ \/ part = "rule"   /\ Next /\ UNCHANGED accessVars
             \/ part = "access" /\ AccessNext /\ UNCHANGED vars

MCSpec == MCInit /\ [][MCNext]_<<vars, accessVars, part>>
=============================================================================
