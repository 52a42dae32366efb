----------------------------- MODULE MCOverlap -----------------------------
(***************************************************************************)
(* Requests that overlap: the uploads of one link (Upload), the refreshes  *)
(* of two replicas (RefreshSchedule), and the requests of two pages        *)
(* (ViewPermission).  The three share no state, so that one at a time runs *)
(* here, and the others stay in an initial state.                          *)
(***************************************************************************)
EXTENDS Upload, RefreshSchedule, ViewPermission, TLC

CONSTANTS c1, c2, ra, rb, ma, mb, pa, pb, managers, members

VARIABLE part

Schedule == /\ now = 0 /\ linked = {} /\ slips = 0
            /\ next = [m \in Members |-> 0]
            /\ failed = [m \in Members |-> 0]
            /\ batch = [r \in Replicas |-> {}]
            /\ over = [r \in Replicas |-> [m \in Members |-> {}]]

Control == /\ setting = managers /\ post = <<>> /\ losses = 0
           /\ shown = [p \in Pages |-> Unset]
           /\ pending = [p \in Pages |-> FALSE]
           /\ snapshot = [p \in Pages |-> Unset]

MCInit == /\ Init
          /\ \/ part = "uploads"   /\ Schedule    /\ Control
             \/ part = "refreshes" /\ RefreshInit /\ Control
             \/ part = "pages"     /\ Schedule    /\ ViewInit

MCNext == /\ UNCHANGED part
          /\ \/ part = "uploads"   /\ Next        /\ UNCHANGED <<refreshVars, viewVars>>
             \/ part = "refreshes" /\ RefreshNext /\ UNCHANGED <<vars, viewVars>>
             \/ part = "pages"     /\ ViewNext    /\ UNCHANGED <<vars, refreshVars>>

\* Fairness asks nothing of a call that has not begun, of a member who is not
\* linked, or of a page that is not loaded.
MCSpec == /\ MCInit /\ [][MCNext]_<<vars, refreshVars, viewVars, part>>
          /\ \A c \in Calls : WF_vars(TimeOut(c))
          /\ RefreshFairness
          /\ ViewFairness
=============================================================================
