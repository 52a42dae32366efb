----------------------------- MODULE Replacement -----------------------------
(***************************************************************************)
(* What a caller of upload_users (src/services/rolelogic.rs) may rely on,  *)
(* whatever transport the size of the list selects: RoleLogic's list is    *)
(* replaced as a whole or not at all, at most once per call; a call that   *)
(* returns Ok has replaced it; a call that failed for good will not.  Only *)
(* a call whose last word is unknown may still do so, once, after its end. *)
(***************************************************************************)
CONSTANTS Calls, Lists

VARIABLES
    users,   \* the list RoleLogic holds
    want,    \* the list a call brings
    state    \* what has become of a call

vars == <<users, want, state>>

State == {"new", "open", "done", "failed", "unknown", "late"}

Init ==
    /\ users \in Lists
    /\ want \in [Calls -> Lists]
    /\ state = [c \in Calls |-> "new"]

\* With any list.
Begin(c) ==
    /\ state[c] = "new"
    /\ state' = [state EXCEPT ![c] = "open"]
    /\ \E list \in Lists : want' = [want EXCEPT ![c] = list]
    /\ UNCHANGED users

\* RoleLogic takes the list, and the caller learns it ...
Replace(c) ==
    /\ state[c] = "open"
    /\ users' = want[c]
    /\ state' = [state EXCEPT ![c] = "done"]
    /\ UNCHANGED want

Fail(c) ==
    /\ state[c] = "open"
    /\ state' = [state EXCEPT ![c] = "failed"]
    /\ UNCHANGED <<users, want>>

\* ... or the caller has given up by the time that it happens.
GiveUp(c) ==
    /\ state[c] = "open"
    /\ state' = [state EXCEPT ![c] = "unknown"]
    /\ UNCHANGED <<users, want>>

ReplaceLate(c) ==
    /\ state[c] = "unknown"
    /\ users' = want[c]
    /\ state' = [state EXCEPT ![c] = "late"]
    /\ UNCHANGED want

Next == \E c \in Calls :
    \/ Begin(c) \/ Replace(c) \/ Fail(c) \/ GiveUp(c) \/ ReplaceLate(c)

Spec == Init /\ [][Next]_vars
=============================================================================
