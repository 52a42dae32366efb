--------------------------- MODULE ViewPermission ---------------------------
(***************************************************************************)
(* Who may see a guild's list of players: one value per guild              *)
(* (src/routes/users.rs), and a control on each role's page                *)
(* (src/templates/role_config.html) that shows a choice before the server  *)
(* has stored it, takes it back when the request fails, and is refreshed   *)
(* from the server like the rest of the page.  The control stays live, so  *)
(* that several requests of one page may be under way, with a refresh.     *)
(*                                                                         *)
(* Names are chosen so that MCOverlap can explore this module together     *)
(* with others.                                                            *)
(***************************************************************************)
EXTENDS Integers, Sequences

CONSTANTS
    Pages,        \* browser tabs, on roles of one guild
    Permissions,  \* disabled, managers, members
    Unset,        \* nothing loaded, no answer of the server
    MaxPosts,     \* bound on the choices made
    MaxLosses     \* bound on requests refused or lost, and on replies lost

ASSUME UnsetAssumption     == Unset \notin Permissions
ASSUME MaxPostsAssumption  == MaxPosts \in Nat
ASSUME MaxLossesAssumption == MaxLosses \in Nat

VARIABLES
    setting,   \* guild_settings.view_permission
    shown,     \* state.users.view_permission, by page
    pending,   \* supPending, by page
    snapshot,  \* a refresh's answer on its way to a page
    post,      \* the requests made so far
    losses

viewVars == <<setting, shown, pending, snapshot, post, losses>>

\* stored, refused: answered by the server, not by the page; stray: the page
\* does not wait any more, and the server may yet receive it.
PostAt == {"sent", "stored", "refused", "stray", "over"}
Post   == [page : Pages, value : Permissions, before : Permissions, at : PostAt]
Posts  == DOMAIN post

ViewTypeOK ==
    /\ setting \in Permissions
    /\ shown \in [Pages -> Permissions \cup {Unset}]
    /\ pending \in [Pages -> BOOLEAN]
    /\ snapshot \in [Pages -> Permissions \cup {Unset}]
    /\ post \in Seq(Post)
    /\ losses \in 0..MaxLosses

ViewInit ==
    /\ setting \in Permissions
    /\ shown = [p \in Pages |-> Unset]
    /\ pending = [p \in Pages |-> FALSE]
    /\ snapshot = [p \in Pages |-> Unset]
    /\ post = <<>>
    /\ losses = 0

Lose == losses < MaxLosses /\ losses' = losses + 1

Moves(i, at) == post' = [post EXCEPT ![i].at = at]

-----------------------------------------------------------------------------
\* setViewPerm: the choice is shown at once.
Choose(p, value) ==
    /\ shown[p] \notin {Unset, value}
    /\ Len(post) < MaxPosts
    /\ post' = Append(post, [page |-> p, value |-> value, before |-> shown[p], at |-> "sent"])
    /\ shown' = [shown EXCEPT ![p] = value]
    /\ pending' = [pending EXCEPT ![p] = TRUE]
    /\ UNCHANGED <<setting, snapshot, losses>>

\* set_view_permission: requests arrive in any order.
Store(i) ==
    /\ post[i].at \in {"sent", "stray"}
    /\ setting' = post[i].value
    /\ Moves(i, IF post[i].at = "sent" THEN "stored" ELSE "over")
    /\ UNCHANGED <<shown, pending, snapshot, losses>>

\* No session, no right, or a failed statement.
Refused(i) ==
    /\ post[i].at = "sent"
    /\ Lose
    /\ Moves(i, "refused")
    /\ UNCHANGED <<setting, shown, pending, snapshot>>

\* Mutant: the flag is cleared by a success only.
SettledAfterSuccess(p, ok) == IF ok THEN [pending EXCEPT ![p] = FALSE] ELSE pending

\* finally: the first answer clears the flag, whatever else is under way.
Settled(p, ok) == [pending EXCEPT ![p] = FALSE]

Confirmed(i) ==
    /\ post[i].at = "stored"
    /\ Moves(i, "over")
    /\ pending' = Settled(post[i].page, TRUE)
    /\ UNCHANGED <<setting, shown, snapshot, losses>>

\* The page goes back to what it showed before this choice.
TakenBack(i, at) ==
    /\ Moves(i, at)
    /\ shown' = [shown EXCEPT ![post[i].page] = post[i].before]
    /\ pending' = Settled(post[i].page, FALSE)
    /\ UNCHANGED <<setting, snapshot>>

RefusalShown(i) ==
    /\ post[i].at = "refused"
    /\ TakenBack(i, "over")
    /\ UNCHANGED losses

\* The connection breaks, before the server has the request or after it.
ConnectionLost(i) ==
    /\ post[i].at \in {"sent", "stored"}
    /\ Lose
    /\ TakenBack(i, IF post[i].at = "sent" THEN "stray" ELSE "over")

\* refreshFromServer, one at a time: the server reads the setting ...
ReadSetting(p) ==
    /\ shown[p] # Unset
    /\ snapshot[p] = Unset
    /\ snapshot' = [snapshot EXCEPT ![p] = setting]
    /\ UNCHANGED <<setting, shown, pending, post, losses>>

\* ... and the page takes it, unless a choice of its own is pending by now.
TakeSnapshot(p) ==
    /\ snapshot[p] # Unset
    /\ shown' = [shown EXCEPT ![p] = IF pending[p] THEN @ ELSE snapshot[p]]
    /\ snapshot' = [snapshot EXCEPT ![p] = Unset]
    /\ UNCHANGED <<setting, pending, post, losses>>

SnapshotLost(p) ==
    /\ snapshot[p] # Unset
    /\ Lose
    /\ snapshot' = [snapshot EXCEPT ![p] = Unset]
    /\ UNCHANGED <<setting, shown, pending, post>>

\* load(), a reload too: the page starts anew, and its requests are nobody's.
LoadPage(p) ==
    /\ shown' = [shown EXCEPT ![p] = setting]
    /\ pending' = [pending EXCEPT ![p] = FALSE]
    /\ snapshot' = [snapshot EXCEPT ![p] = Unset]
    /\ post' = [i \in Posts |->
                   IF post[i].page # p THEN post[i]
                   ELSE [post[i] EXCEPT !.at = IF @ \in {"sent", "stray"} THEN "stray" ELSE "over"]]
    /\ UNCHANGED <<setting, losses>>

PostEnds(i) == Store(i) \/ Refused(i) \/ Confirmed(i) \/ RefusalShown(i) \/ ConnectionLost(i)

ViewNext ==
    \/ \E p \in Pages :
          \/ \E value \in Permissions : Choose(p, value)
          \/ ReadSetting(p) \/ TakeSnapshot(p) \/ SnapshotLost(p) \/ LoadPage(p)
    \/ \E i \in Posts : PostEnds(i)

ViewSpec == ViewInit /\ [][ViewNext]_viewVars

\* Requests are answered or fail; whoever comes back to a page refreshes it.
ViewFairness ==
    /\ WF_viewVars(\E i \in Posts : post[i].at # "stray" /\ PostEnds(i))
    /\ \A p \in Pages : WF_viewVars(ReadSetting(p) \/ TakeSnapshot(p))

-----------------------------------------------------------------------------
(* Properties                                                              *)

\* The flag that keeps refreshes out stands for a request which the page still
\* waits for, and which will clear it: none is left over by a request that
\* ended, or by one of the page before a reload.
FlagHasRequest ==
    \A p \in Pages : pending[p] =>
        \E i \in Posts : post[i].page = p /\ post[i].at \in {"sent", "stored", "refused"}

\* At last each page that was loaded, and that somebody comes back to, shows the
\* stored setting and keeps showing it, however its choices, their failures, its
\* refreshes and another page's choices overlapped: no page is left with a
\* choice that was taken back, and none ignores the server for good.
PageTellsSetting == \A p \in Pages : <>[](shown[p] \in {setting, Unset})
=============================================================================
